------------------------------ MODULE CallLink ------------------------------
(***************************************************************************)
(* What a SimpleSerial link promises its user, whatever is between the two *)
(* ends: calls that write requests, a target that runs some of them, and   *)
(* results.  The line, the packets, the timeouts and the faults are left   *)
(* out; the target of SimpleSerial.py and that of SimpleSerial2.py are     *)
(* both shown to keep it (Promise in SSv1Link and SSv2Link).               *)
(***************************************************************************)
EXTENDS Integers, Sequences, SequencesExt

CONSTANTS
    Requests,     \* records [cmd, data]
    Echo,         \* the commands that are answered with their data
    None          \* a result has no code

VARIABLES
    open,         \* a call is in progress
    sent,         \* the requests written, in order
    ran,          \* the commands the target has run, in order
    doubt,        \* something has happened that this host cannot notice
    result        \* what the last call returned, nothing while one is open

linkVars == <<open, sent, ran, doubt, result>>

Nil == [payload |-> <<>>, code |-> None]

Init ==
    /\ open = TRUE       \* con() counts as a call
    /\ sent = <<>>
    /\ ran = <<>>
    /\ doubt \in BOOLEAN
    /\ result = Nil

\* The target runs what was sent, in order, nothing twice and nothing else.
Embeds(r, s) ==
    \E f \in [DOMAIN r -> DOMAIN s] :
        /\ \A j \in DOMAIN r : r[j] = s[f[j]]
        /\ \A j \in 1 .. Len(r) - 1 : f[j] < f[j + 1]

\* The request the call wrote last is the last one that ran.
OwnRan == ran # <<>> /\ sent # <<>> /\ Last(ran) = Last(sent)

\* A result that says something says it of the call's own request.
Honest(r) ==
    /\ r.code # None => OwnRan
    /\ r.payload # <<>> /\ OwnRan /\ Last(sent).cmd \in Echo
        => r.payload = Last(sent).data
    /\ r.payload # <<>> => OwnRan

Write == \E q \in Requests : sent' = Append(sent, q)

\* A call begins, maybe with its request; one that needs nothing from the target
\* returns at once.
Begin ==
    /\ ~open
    /\ result' = Nil
    /\ \/ open' = TRUE /\ Write
       \/ open' \in BOOLEAN /\ sent' = sent
    /\ ran' = ran

\* A request is written; the call may fail with it.
Send ==
    /\ open
    /\ Write
    /\ open' \in BOOLEAN
    /\ result' = Nil
    /\ ran' = ran

Run ==
    /\ \E k \in DOMAIN sent : ran' = Append(ran, sent[k])
    /\ Embeds(ran', sent)
    /\ UNCHANGED <<open, sent, result>>

Return ==
    /\ open
    /\ open' = FALSE
    /\ doubt' \/ Honest(result')
    /\ UNCHANGED <<sent, ran>>

Next == (Begin \/ Send \/ Run \/ Return \/ UNCHANGED <<open, sent, ran, result>>)
        /\ doubt' \in BOOLEAN

Spec == Init /\ [][Next]_linkVars /\ (open ~> ~open)
=============================================================================
