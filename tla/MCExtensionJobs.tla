-------------------------- MODULE MCExtensionJobs --------------------------
EXTENDS ExtensionJobs, FiniteSets, TLC
CONSTANTS j1, j2, j3, MaxTroubles

Troubles == faults + stops + FoldFunction(+, 0, retries)

\* The jobs of the server, and those that a handler is about to queue.
Known(j) == server[j] # "none" \/ \E t \in Tasks : task[t].op = "queue" /\ task[t].job = j
Operations == {task[t].op : t \in Tasks}

Busy == Cardinality({t \in Tasks : ~ Idle(t)})

Retried == \E j \in Jobs : retries[j] > 0

\* One job: two handlers at a time, sockets, commands, and one fault, stop or retry;
\* of a job retried, two handlers or one with a socket, and no ticks, which read and
\* write its record as a Poll does.  Two jobs, which the list holds both: two handlers
\* that poll or queue, or one that ticks.  A third job, for which one of them drops
\* out: one handler.  Left out are faults, stops, retries, sockets and beginnings, of
\* which fairness asks nothing but a Poll by some handler: the idle one can make it.
Bounded ==
    /\ Troubles <= MaxTroubles
    /\ Operations \cap {"look", "cancel"} # {} => Troubles = 0
    /\ Retried => /\ "tick" \notin Operations
                  /\ Busy = 2 => \A s \in Sockets : socket[s] = FreeSocket
    /\ Known(j2) => /\ Known(j1)
                    /\ Troubles = 0
                    /\ Operations \subseteq {"none", "poll", "tick", "queue"}
                    /\ "tick" \in Operations => Busy = 1
                    /\ \A s \in Sockets : socket[s] = FreeSocket
    /\ Known(j3) => Known(j2) /\ Busy <= 1
=============================================================================
