---------------------------- MODULE SourceLease ----------------------------
(***************************************************************************)
(* What the sub-stream manager promises about the source of one camera,    *)
(* whatever the network and the timers do: there is at most one current    *)
(* source; a caller is granted the current one; a source that is held is   *)
(* not taken away, unless the whole manager shuts down; and a source that  *)
(* was taken away never comes back.                                        *)
(***************************************************************************)
EXTENDS Naturals

CONSTANTS Callers, MaxSources

Sources == 1..MaxSources
None == 0

VARIABLES
    source,   \* the current source
    opened,   \* sources opened so far
    holds,    \* caller -> the source it holds
    shut      \* the manager has shut down

vars == <<source, opened, holds, shut>>

Init ==
    /\ source = None /\ opened = 0
    /\ holds = [c \in Callers |-> None]
    /\ shut = FALSE

Open ==
    /\ source = None /\ opened < MaxSources /\ ~shut
    /\ opened' = opened + 1
    /\ source' = opened'
    /\ UNCHANGED <<holds, shut>>

\* After the shutdown a call that was waiting may still get what it waited for.
Grant(c) ==
    /\ holds[c] = None
    /\ \E s \in Sources :
         /\ s = source \/ (shut /\ s <= opened)
         /\ holds' = [holds EXCEPT ![c] = s]
    /\ UNCHANGED <<source, opened, shut>>

Drop(c) ==
    /\ holds[c] # None
    /\ holds' = [holds EXCEPT ![c] = None]
    /\ UNCHANGED <<source, opened, shut>>

Expire ==
    /\ source # None
    /\ \A c \in Callers : holds[c] # source
    /\ source' = None
    /\ UNCHANGED <<opened, holds, shut>>

Shut ==
    /\ ~shut
    /\ shut' = TRUE
    /\ source' = None
    /\ UNCHANGED <<opened, holds>>

Next ==
    \/ Open \/ Expire \/ Shut
    \/ \E c \in Callers : Grant(c) \/ Drop(c)

Spec == Init /\ [][Next]_vars
=============================================================================
