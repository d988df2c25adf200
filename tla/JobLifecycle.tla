---------------------------- MODULE JobLifecycle ----------------------------
(***************************************************************************)
(* What QueueService promises about one job, whoever runs it: the state    *)
(* stats() counts it under, and the only ways that state may change.       *)
(***************************************************************************)
CONSTANT Keys   \* (queue, job id) pairs

VARIABLE status \* the state introspection reports per job

\* A job enters waiting (no processor), delayed or running; a delay ends in a
\* run, or in waiting when there is no processor or the delay is cancelled; a
\* run ends completed or failed, or in waiting when its task is cancelled; only
\* a failed job runs again, and only then.  Two states are not seen from outside:
\* a job is unlisted when clear() forgot it while it ran, and dropped when close()
\* forgot the delay that it still sleeps (it counts as waiting).
Moves ==
  {<<"none", "waiting">>, <<"none", "delayed">>, <<"none", "active">>,
   <<"delayed", "active">>, <<"delayed", "waiting">>,
   <<"active", "completed">>, <<"active", "failed">>, <<"active", "waiting">>,
   <<"failed", "active">>,
   <<"unlisted", "completed">>, <<"unlisted", "failed">>, <<"unlisted", "none">>,
   <<"dropped", "active">>, <<"dropped", "waiting">>}

Init == status = [k \in Keys |-> "none"]

Move(k) == \E m \in Moves : status[k] = m[1] /\ status' = [status EXCEPT ![k] = m[2]]

\* clean(): finished jobs are forgotten, several at once, and nothing else is.
Forget(ks) ==
  /\ \A k \in ks : status[k] \in {"completed", "failed"}
  /\ status' = [k \in Keys |-> IF k \in ks THEN "none" ELSE status[k]]

\* clear(): every job is forgotten, and what runs cannot be seen any more.
Clear == status' = [k \in Keys |-> IF status[k] \in {"active", "unlisted"} THEN "unlisted" ELSE "none"]

\* close(): every delay is forgotten.
Drop(ks) ==
  status' = [k \in Keys |-> IF status[k] # "delayed" THEN status[k]
                            ELSE IF k \in ks THEN "dropped" ELSE "waiting"]

Next == Clear \/ (\E k \in Keys : Move(k)) \/ (\E ks \in SUBSET Keys : Forget(ks) \/ Drop(ks))

Spec == Init /\ [][Next]_status
=============================================================================
