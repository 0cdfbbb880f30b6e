-------------------------- MODULE MCToolExecution --------------------------
(* The settings TLC tries: every executor, kind and backend with one to two  *)
(* tries, and for sandboxd every combination of poll settings, zeros too.    *)
EXTENDS ToolExecution

Base == [executor |-> "Host", kind |-> "Effect", mcp |-> "Stdio", retries |-> 2,
         transport |-> TRUE, pollAttempts |-> 1, interval |-> 1, multiplier |-> 1,
         maxInterval |-> 1, capture |-> FALSE, eventsLimit |-> TRUE]

McpSetups ==
  {[Base EXCEPT !.executor = e, !.kind = k, !.mcp = b, !.retries = n] :
     e \in ExecutorKinds, k \in {"Read", "Effect"}, b \in Backends, n \in {0, 2}}

TaskSetups ==
  {[Base EXCEPT !.executor = "SandboxdApi", !.transport = t, !.pollAttempts = a,
                !.interval = i, !.multiplier = m, !.maxInterval = x, !.capture = c, !.eventsLimit = l] :
     t \in BOOLEAN, a \in {0, 3}, i \in {0, 3}, m \in {0, 2}, x \in {0, 2, 10},
     c \in BOOLEAN, l \in BOOLEAN}

AllSetups == McpSetups \cup TaskSetups
=============================================================================
