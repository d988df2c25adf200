------------------------------- MODULE GraphQL ------------------------------
(***************************************************************************)
(* GraphQLSchema (fanest.graphql): one document is parsed, checked and      *)
(* executed over HTTP (execute), or over the subscription gateway           *)
(* (subscribe), with plugin hooks around it.                                *)
(*                                                                         *)
(* A document is [operations, fragments, selections, parses], selections are *)
(* all that occur in it; an item of a selection is a field, the spread of a  *)
(* fragment or an inline fragment, with directives <<name, if>>.  Whatever calls application code (a hook, guard, pipe,      *)
(* interceptor, resolver, middleware) may raise.                            *)
(***************************************************************************)
EXTENDS Integers, FiniteSets, SequencesExt

CONSTANTS
  Documents,
  Schemas,       \* sets of resolvers: [kind, owner, name, of]; of is the handler
  MetaFields,    \* __schema, __type, __typename
  Directives,    \* the names registered
  MaxComplexity, \* max_complexity
  MaxItems       \* bound: items of one subscription

ASSUME GraphQLAssumption ==
  /\ MaxComplexity \in Nat
  /\ \A d \in Documents :
       /\ d.operations \in Seq(ToSet(d.operations)) /\ IsFiniteSet(DOMAIN d.fragments)
       /\ IsFiniteSet(d.selections)
       /\ {<<>>} \cup {o.sel : o \in ToSet(d.operations)} \cup {d.fragments[f].sel : f \in DOMAIN d.fragments}
            \subseteq d.selections
       /\ \A sel \in d.selections :
            /\ sel \in Seq(ToSet(sel))
            /\ \A item \in ToSet(sel) : item.is \in {"field", "inline", "spread"} /\ item.sel \in d.selections

VARIABLES
  schema, doc,
  asked,     \* operation_name, "" for none
  transport, \* "http", "ws"
  at,        \* "begin", "checking", "fields", "error", "finalize", "ended"
  fields,    \* the root fields: [key, name, on, under]
  index,     \* the field in progress
  stage,     \* what it waits for
  items,     \* items its subscription has produced
  data,      \* http: per response key [index, null]
  errors,    \* indexes of the fields that failed; 0 for the document
  payloads,  \* ws: [index, error] sent to the client
  after,     \* where it goes on when the response is finalized
  ran,       \* history: the fields whose resolver was called
  outcome    \* "", "answered", "completed", "escaped", "closed"

gqlVars == <<schema, doc, asked, transport, at, fields, index, stage, items, data, errors, payloads, after, ran, outcome>>

-----------------------------------------------------------------------------
(* The schema: register_resolver() refuses a second handler for a field *)

FieldKey(r) == IF r.kind = "field" THEN <<r.kind, r.owner, r.name>> ELSE <<r.kind, r.name>>
Duplicated(rs) == \E q, r \in rs : FieldKey(q) = FieldKey(r) /\ q.of # r.of
HandlerNames(op) == {r.name : r \in {q \in schema : q.kind = op}}

-----------------------------------------------------------------------------
(* The document *)

AnyType == "*"

\* The operation asked for by its name, or the only one; an anonymous one is
\* never asked for.  A document without any is an empty query.
NoOperation == [ok |-> FALSE, op |-> "query", sel |-> <<>>]
Operation(d, name) ==
  LET named == SelectInSeq(d.operations, LAMBDA o : o.name = name)
      found(o) == [ok |-> TRUE, op |-> o.op, sel |-> o.sel]
  IN IF name = ""
     THEN CASE Len(d.operations) = 1 -> found(Head(d.operations))
            [] Len(d.operations) > 1 -> NoOperation
            [] OTHER -> [NoOperation EXCEPT !.ok = TRUE]
     ELSE IF named = 0 THEN NoOperation ELSE found(d.operations[named])

\* skip and include; other directives change nothing.
Included(item) == \A d \in item.directives : d[1] \in {"skip", "include"} => d[2] = (d[1] = "include")
Registered(item) == \A d \in item.directives : d[1] \in Directives

\* A field takes the type condition of the outermost fragment around it.
Conditioned(fs, on) ==
  IF on = AnyType THEN fs ELSE [i \in DOMAIN fs |-> [fs[i] EXCEPT !.on = on]]

Nothing == [ok |-> TRUE, fields |-> <<>>]
Refused == [ok |-> FALSE, fields |-> <<>>]

\* The selections in a field: _field_complexity() of what is under it, and itself.
Complexity(fs) ==
  LET upTo[n \in 0 .. Len(fs)] == IF n = 0 THEN 0 ELSE upTo[n - 1] + 1 + fs[n].under
  IN upTo[Len(fs)]

\* What an item stands for inside the fragments seen, given what the selections
\* under it do.
Expand(d, item, seen, below) ==
  LET s == below[<<item.sel, seen>>] IN
  IF ~Registered(item) THEN Refused
  ELSE CASE item.is = "field" ->
              IF Included(item)
              THEN [ok |-> s.ok, fields |-> <<[key |-> item.key, name |-> item.name, on |-> AnyType, under |-> Complexity(s.fields)]>>]
              ELSE [s EXCEPT !.fields = <<>>]
         [] item.is = "inline" ->
              IF Included(item) THEN [s EXCEPT !.fields = Conditioned(@, item.on)] ELSE Nothing
         [] item.is = "spread" ->
              IF item.name \notin DOMAIN d.fragments \/ item.name \in seen THEN Refused
              ELSE IF ~Included(item) THEN Nothing
              ELSE LET f == d.fragments[item.name]
                   IN [below[<<f.sel, seen \cup {item.name}>>] EXCEPT !.fields = Conditioned(@, f.on)]

Within(d) == d.selections \X SUBSET DOMAIN d.fragments
Expanded(d, sel, seen, below) ==
  LET es == [i \in DOMAIN sel |-> Expand(d, sel[i], seen, below)]
  IN [ok |-> \A i \in DOMAIN sel : es[i].ok, fields |-> FlattenSeq([i \in DOMAIN sel |-> es[i].fields])]

\* No selection is in more: on the way down to it, a selection comes again only
\* inside more fragments.
Depth(d) == Cardinality(d.selections) * (Cardinality(DOMAIN d.fragments) + 1)

\* The fields of a selection inside the fragments seen.
FieldsOf(d, sel, seen) ==
  LET deep[n \in 0 .. Depth(d)] ==
        [w \in Within(d) |-> IF n = 0 THEN Refused ELSE Expanded(d, w[1], w[2], deep[n - 1])]
  IN deep[Depth(d)][<<sel, seen>>]

\* Two resolvers for one response key.
Conflict(fs) ==
  \E i, j \in DOMAIN fs : fs[i].key = fs[j].key /\ fs[i].name # fs[j].name

-----------------------------------------------------------------------------
Finalizes(next) == at' = "finalize" /\ after' = next

GraphQLInit ==
  /\ schema \in {rs \in Schemas : ~Duplicated(rs)} /\ doc \in Documents /\ asked \in {"", "named"} /\ transport \in {"http", "ws"} /\ at = "begin"
  /\ fields = <<>> /\ index = 0 /\ stage = "before" /\ items = 0
  /\ data = <<>> /\ errors = <<>> /\ payloads = <<>> /\ after = "" /\ ran = {} /\ outcome = ""

\* before_execute.
Begin ==
  /\ at = "begin" /\ at' = "checking"
  /\ UNCHANGED <<schema, doc, asked, transport, fields, index, stage, items, data, errors, payloads, after, ran, outcome>>

\* What raises outside a field's own try leaves execute() or subscribe().
Escape ==
  /\ \/ at = "begin" \/ at = "finalize" \/ at = "error"
     \/ transport = "http" /\ at = "fields" /\ index <= Len(fields) /\ fields[index].name \in MetaFields
  /\ at' = "ended" /\ outcome' = "escaped"
  /\ UNCHANGED <<schema, doc, asked, transport, fields, index, stage, items, data, errors, payloads, after, ran>>

\* Parsing, the operation and its fields, and the two checks that block it.
Check ==
  /\ at = "checking"
  /\ LET o == Operation(doc, asked)
         e == FieldsOf(doc, o.sel, {})
         refused == \/ ~doc.parses \/ ~o.ok \/ ~e.ok
                    \/ transport = "ws" /\ o.op # "subscription"
                    \/ Conflict(e.fields)
                    \/ Complexity(e.fields) > MaxComplexity
                    \/ transport = "http" /\ o.sel = <<>>
     IN IF refused THEN errors' = <<0>> /\ Finalizes("refused") /\ UNCHANGED <<fields, index>>
        ELSE at' = "fields" /\ fields' = e.fields /\ index' = 1 /\ UNCHANGED <<errors, after>>
  /\ UNCHANGED <<schema, doc, asked, transport, stage, items, data, payloads, ran, outcome>>

Field == fields[index]
Running == at = "fields" /\ index <= Len(fields)
Resolvable == Field.name \in HandlerNames(Operation(doc, asked).op)
NextField == index' = index + 1 /\ stage' = "before" /\ items' = 0

\* http: the field's place in the data.
Put(null) == data' = [k \in DOMAIN data \cup {Field.key} |-> IF k = Field.key THEN [index |-> index, null |-> null] ELSE data[k]]

\* An introspection field is no subscription.
Meta ==
  /\ Running /\ transport = "http" /\ Field.name \in MetaFields
  /\ Put(FALSE) /\ NextField
  /\ UNCHANGED <<schema, doc, asked, transport, at, fields, errors, payloads, after, ran, outcome>>

\* before_resolve, the guards and the pipes.
Stages == <<"before", "guards", "pipes", "interceptors", "handler", "after", "shape">>
Following(s) == Stages[(CHOOSE i \in 1 .. Len(Stages) : Stages[i] = s) + 1]
Owned == Running /\ Resolvable /\ (transport = "ws" \/ Field.name \notin MetaFields)

Pass ==
  /\ Owned /\ stage \in {"before", "guards", "pipes", "after"}
  /\ stage' = Following(stage)
  /\ UNCHANGED <<schema, doc, asked, transport, at, fields, index, items, data, errors, payloads, after, ran, outcome>>

\* An interceptor calls the handler, or answers in its place.
Intercept ==
  /\ Owned /\ stage = "interceptors" /\ stage' \in {"handler", IF transport = "http" THEN "after" ELSE "items"}
  /\ UNCHANGED <<schema, doc, asked, transport, at, fields, index, items, data, errors, payloads, after, ran, outcome>>

CallHandler ==
  /\ Owned /\ stage = "handler" /\ ran' = ran \cup {index}
  /\ stage' = IF transport = "http" THEN "after" ELSE "items"
  /\ UNCHANGED <<schema, doc, asked, transport, at, fields, index, items, data, errors, payloads, after, outcome>>

\* _shape_result() of the value; the resolvers of its fields run under it.
Shape ==
  /\ Owned /\ stage = "shape"
  /\ IF transport = "http"
     THEN Put(FALSE) /\ NextField /\ UNCHANGED <<at, after, payloads>>
     ELSE /\ payloads' = Append(payloads, [index |-> index, error |-> FALSE])
          /\ Finalizes("items") /\ stage' = "items" /\ UNCHANGED <<data, index, items>>
  /\ UNCHANGED <<schema, doc, asked, transport, fields, errors, ran, outcome>>

\* The source yields an item, that the filter lets pass, or not.
Item ==
  /\ Owned /\ stage = "items" /\ items < MaxItems /\ items' = items + 1
  /\ stage' \in {"after", "items"}
  /\ UNCHANGED <<schema, doc, asked, transport, at, fields, index, data, errors, payloads, after, ran, outcome>>

SourceEnds ==
  /\ Owned /\ stage = "items" /\ NextField
  /\ UNCHANGED <<schema, doc, asked, transport, at, fields, data, errors, payloads, after, ran, outcome>>

\* There is no resolver, or the field raises: on_error comes next.
FieldFails ==
  /\ Running /\ (transport = "ws" \/ Field.name \notin MetaFields)
  /\ at' = "error"
  /\ UNCHANGED <<schema, doc, asked, transport, fields, index, stage, items, data, errors, payloads, after, ran, outcome>>

\* Variant: the first error is the last field.
StopAtError == index' = Len(fields) + 1 /\ stage' = "before" /\ items' = 0
AfterError == NextField

FieldError ==
  /\ at = "error" /\ errors' = Append(errors, index)
  /\ AfterError
  /\ IF transport = "http" THEN Put(TRUE) /\ at' = "fields" /\ UNCHANGED <<payloads, after>>
     ELSE /\ payloads' = Append(payloads, [index |-> index, error |-> TRUE])
          /\ Finalizes("fields") /\ UNCHANGED data
  /\ UNCHANGED <<schema, doc, asked, transport, fields, ran, outcome>>

\* All fields are done: the response, or after the last payload "complete".
Done ==
  /\ at = "fields" /\ index > Len(fields)
  /\ IF transport = "http" THEN Finalizes("answer") /\ UNCHANGED outcome
     ELSE at' = "ended" /\ outcome' = "completed" /\ UNCHANGED after
  /\ UNCHANGED <<schema, doc, asked, transport, fields, index, stage, items, data, errors, payloads, ran>>

\* after_execute, and what is sent; a socket that was closed ends subscribe().
Finalize ==
  /\ at = "finalize"
  /\ \/ after \in {"answer", "refused"} /\ at' = "ended"
        /\ outcome' = IF transport = "http" THEN "answered" ELSE "completed"
     \/ after \in {"items", "fields"} /\ at' = "fields" /\ UNCHANGED outcome
     \/ transport = "ws" /\ at' = "ended" /\ outcome' = "closed"
  /\ UNCHANGED <<schema, doc, asked, transport, fields, index, stage, items, data, errors, payloads, after, ran>>

GraphQLNext ==
  \/ Begin \/ Check \/ Escape \/ Meta \/ Pass \/ Intercept \/ CallHandler \/ Shape \/ Item \/ SourceEnds
  \/ FieldFails \/ FieldError \/ Done \/ Finalize

GraphQLSpec == GraphQLInit /\ [][GraphQLNext]_gqlVars

-----------------------------------------------------------------------------
(* Properties *)

\* A query or mutation that is answered has each response key in its data, from
\* its last field, null exactly when that field failed; no error ends the other
\* fields (module.py:949).
Answered ==
  outcome = "answered" /\ after = "answer" =>
    /\ DOMAIN data = {fields[i].key : i \in DOMAIN fields}
    /\ \A k \in DOMAIN data :
         /\ \A i \in DOMAIN fields : fields[i].key = k => i <= data[k].index
         /\ data[k].null = (data[k].index \in Range(errors))

\* A subscription sends the payloads of its fields in order, and nothing of a
\* field after its error (module.py:1050, 1116).
PayloadsInOrder ==
  \A p, q \in DOMAIN payloads : p < q =>
    payloads[p].index < payloads[q].index
      \/ (payloads[p].index = payloads[q].index /\ ~payloads[p].error)

\* No resolver is called for a document with more selections than
\* max_complexity, fragments expanded (module.py:1146).
RefusedRunsNothing == ran # {} => Complexity(fields) <= MaxComplexity

\* What a client gets for a document: one answer for every field and frame.
DocumentServed == Answered /\ PayloadsInOrder /\ RefusedRunsNothing
=============================================================================
