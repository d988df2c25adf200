------------------------------- MODULE Upload -------------------------------
(***************************************************************************)
(* fanest.common.upload: the file interceptors.  They count the files of a *)
(* request, then check and store them one after the other, each step       *)
(* awaiting, while other requests store theirs in the same directory.      *)
(***************************************************************************)
EXTENDS Naturals, Sequences, SequencesExt

CONSTANTS
  Uploads,     \* requests
  FileLists,   \* what a request may send: sequences of files by field
  Interceptors \* configurations: kind, fields, max, limits, naming

ASSUME UploadAssumption ==
  /\ \A i \in Interceptors :
       /\ i.kind \in {"file", "files", "fields", "any"} /\ i.fields \in Seq(STRING)
       /\ i.naming \in {"generated", "original", "fixed", "none"} /\ {i.limits.files, i.limits.size} \subseteq Nat
  /\ \A list \in FileLists : /\ list \in Seq(ToSet(list))
                              /\ \A f \in ToSet(list) : f.size \in Nat

VARIABLES
  interceptor, \* the interceptor of the route
  files,       \* files[r]: the files of request r, grouped by parameter
  stage,       \* stage[r]: where the interceptor is, and at which file
  disk,        \* disk[name]: the file written there, <<r, k>>; <<r, 0>> is a part
  paths        \* paths[r]: the names its files were stored under

uploadVars == <<interceptor, files, stage, disk, paths>>

UploadInit ==
  /\ interceptor \in Interceptors
  /\ files = [r \in Uploads |-> <<>>]
  /\ stage = [r \in Uploads |-> [phase |-> "new", k |-> 1]]
  /\ disk = [name \in {} |-> <<>>]
  /\ paths = [r \in Uploads |-> <<>>]

\* The files of list[1..n] that are of the field.
OfField(list, field) ==
  LET kept[n \in 0 .. Len(list)] ==
        IF n = 0 THEN <<>>
        ELSE IF list[n].field = field THEN Append(kept[n - 1], list[n]) ELSE kept[n - 1]
  IN kept[Len(list)]

FirstOf(list) == IF list = <<>> THEN <<>> ELSE <<Head(list)>>

FixedName == <<"fixed">>

\* _iter_uploads, _all_uploads: what the interceptor looks at.
Selected(i, list) ==
  CASE i.kind = "any" -> list
    [] i.kind = "file" -> FirstOf(OfField(list, i.fields[1]))
    [] OTHER -> FlattenSeq([f \in DOMAIN i.fields |-> OfField(list, i.fields[f])])

\* An UploadFile has no name of its own, so the fields counted are the
\* declared ones, and none for AnyFilesInterceptor.
FieldsCounted == IF interceptor.kind = "any" THEN 0 ELSE Len(interceptor.fields)

TooMany(list) ==
  \/ /\ interceptor.kind \in {"files", "any"} /\ Len(Selected(interceptor, list)) > interceptor.max
  \/ /\ interceptor.kind = "fields"
     /\ \E i \in DOMAIN interceptor.fields : Len(OfField(list, interceptor.fields[i])) > interceptor.max
  \/ /\ interceptor.kind = "file" => Selected(interceptor, list) # <<>>
     /\ \/ Len(Selected(interceptor, list)) > interceptor.limits.files
        \/ FieldsCounted > interceptor.limits.fields

Move(r, phase, k) == stage' = [stage EXCEPT ![r] = [phase |-> phase, k |-> k]]

\* The handler runs after the last file.
Onward(r, k) == Move(r, IF k > Len(Selected(interceptor, files'[r])) THEN "handler" ELSE "check", k)

Intercept(r) ==
  /\ stage[r].phase = "new"
  /\ \E list \in FileLists :
       /\ files' = [files EXCEPT ![r] = list]
       /\ IF TooMany(list) THEN Move(r, "refused", 1) ELSE Onward(r, 1)
  /\ UNCHANGED <<interceptor, disk, paths>>

File(r) == Selected(interceptor, files[r])[stage[r].k]

\* The size, then the filter, which may await.
Admit(r) ==
  /\ stage[r].phase = "check"
  /\ UNCHANGED <<interceptor, files, disk, paths>>
  /\ IF File(r).size > interceptor.limits.size \/ ~File(r).allowed
       THEN Move(r, "refused", stage[r].k)
       ELSE IF interceptor.naming = "none"
              THEN Onward(r, stage[r].k + 1)
              ELSE Move(r, "store", stage[r].k)

\* A generated name is the file's own.  A callable may give the client's name, or
\* another that files share; a string is the name of every file.
NameOf(r) ==
  CASE interceptor.naming = "original" -> <<File(r).name>>
    [] interceptor.naming = "fixed" -> FixedName
    [] OTHER -> <<r, stage[r].k>>

Written(name, content) == [n \in DOMAIN disk \cup {name} |-> IF n = name THEN content ELSE disk[n]]

\* The file is opened, truncated and written between two awaits.
Store(r) ==
  /\ stage[r].phase = "store"
  /\ disk' = Written(NameOf(r), <<r, stage[r].k>>)
  /\ paths' = [paths EXCEPT ![r] = Append(@, NameOf(r))]
  /\ UNCHANGED <<interceptor, files>>
  /\ Onward(r, stage[r].k + 1)

\* The directory cannot be made, the file cannot be opened, or the disk is full
\* half-way; the files stored before stay.
CannotStore(r) ==
  /\ stage[r].phase = "store"
  /\ disk' \in {disk, Written(NameOf(r), <<r, 0>>)}
  /\ Move(r, "refused", stage[r].k)
  /\ UNCHANGED <<interceptor, files, paths>>

UploadNext == \E r \in Uploads : Intercept(r) \/ Admit(r) \/ Store(r) \/ CannotStore(r)

-----------------------------------------------------------------------------
\* The name of the file whose content (or a part of it) was written.
NameSent(content) == IF content[2] = 0 THEN {f.name : f \in ToSet(files[content[1]])}
                     ELSE {Selected(interceptor, files[content[1]])[content[2]].name}

\* The files that the interceptor selects are within the limits and allowed when
\* the handler runs, and each is stored under the path it is given
\* (upload.py:361-362).  Under a generated name it is there itself.  Under other
\* names another file of that name may have replaced it: of another request, or
\* a later one of its own, never an earlier one.
StoredAsSent ==
  \A r \in Uploads : stage[r].phase = "handler" =>
    LET seen == Selected(interceptor, files[r]) IN
    /\ Len(seen) <= interceptor.limits.files
    /\ \A k \in DOMAIN seen :
         /\ seen[k].size <= interceptor.limits.size /\ seen[k].allowed
         /\ interceptor.naming # "none" =>
              LET held == disk[paths[r][k]] IN
              /\ Len(paths[r]) = Len(seen)
              /\ interceptor.naming = "generated" => held = <<r, k>>
              /\ interceptor.naming = "original" => seen[k].name \in NameSent(held)
              /\ held[1] = r => held[2] >= k
=============================================================================
