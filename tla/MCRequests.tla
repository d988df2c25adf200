------------------------------ MODULE MCRequests ----------------------------
(* The requests on which Requests is checked: two reads of one session, and *)
(* a write that evicts what they cached.                                    *)
EXTENDS Requests

Key(v) == [base |-> "items", variant |-> v]
ItemKeys == {Key("bare"), Key("query")}

Layer(guards, pipes, interceptors, filters) ==
  [guards |-> guards, pipes |-> pipes, interceptors |-> interceptors, filters |-> filters]
GlobalLayer == Layer(<<"throttle">>, <<>>, <<"cache">>, <<"last">>)
ControllerLayer == Layer(<<"roles">>, <<>>, <<>>, <<>>)
HandlerLayer == Layer(<<>>, <<"valid">>, <<"timing">>, <<"first">>)
CatchesOf == [first |-> {"http"}, last |-> {"http", "app"}]

Read(v, marks) ==
  [writes |-> FALSE, evicts |-> FALSE, key |-> Key(v), throttle |-> "ip", session |-> "s1",
   cookie |-> "signed", fresh |-> "s2", marks |-> marks, streams |-> FALSE, malformed |-> FALSE,
   versions |-> {{"1"}}, host |-> <<"a", "org">>]
ReqOf ==
  [r1 |-> Read("query", {{"cart"}}),
   r2 |-> [Read("query", {{}}) EXCEPT !.streams = TRUE],
   r3 |-> [Read("bare", {}) EXCEPT !.writes = TRUE, !.evicts = TRUE, !.session = "s3",
                                   !.cookie = "none", !.versions = {{"1", "2"}, {}},
                                   !.malformed = TRUE, !.throttle = "writes"]]

Options(skip, limit, ttl) == [skip |-> skip, limit |-> limit, ttl |-> ttl]
NoOptions == Options(Unset, Unset, Unset)
RoutesOf ==
  [ip |-> [service |-> Options(FALSE, 9, 2), controller |-> Options(TRUE, 1, Unset),
           handler |-> Options(FALSE, Unset, Unset), store |-> "redis"],
   writes |-> [service |-> Options(FALSE, 1, 2), controller |-> NoOptions, handler |-> NoOptions,
               store |-> "two_trips"],
   free |-> [service |-> Options(FALSE, 1, 2), controller |-> Options(TRUE, Unset, Unset),
             handler |-> NoOptions, store |-> "memory"]]
HeaderVersioning == [uri |-> FALSE, default |-> "1"]
HostOf == <<":any", "org">>
TtlOf == [items |-> 2]

=============================================================================
