------------------------------ MODULE OnceOnly ------------------------------
(***************************************************************************)
(* What idempotency keys promise a client: for each key at most one        *)
(* command is ever run, it gets one verdict, and a call that returns a     *)
(* result, or is told that the command failed before, carries the key and  *)
(* the fingerprint of that command and gets its verdict.  Any call may be  *)
(* refused.  CommandBus is shown to implement this specification when no   *)
(* leases are configured.                                                  *)
(***************************************************************************)
CONSTANTS
  Calls,         \* calls of dispatch
  Keys,          \* idempotency keys
  Fingerprints,  \* fingerprints of commands
  None

VARIABLES
  sent,     \* key and fingerprint of each call
  ran,      \* the fingerprint of the command that was run for a key, or None
  verdict,  \* "none", "failed", or the call whose result was stored
  answer    \* "none", "refused", "failed", or the call whose result was returned

vars == <<sent, ran, verdict, answer>>

Init ==
  /\ sent \in [Calls -> [key : Keys, fingerprint : Fingerprints]]
  /\ ran = [k \in Keys |-> None]
  /\ verdict = [k \in Keys |-> "none"]
  /\ answer = [c \in Calls |-> "none"]

Run(c) ==
  /\ ran[sent[c].key] = None
  /\ ran' = [ran EXCEPT ![sent[c].key] = sent[c].fingerprint]
  /\ UNCHANGED <<sent, verdict, answer>>

MayDecide(c) ==
  /\ ran[sent[c].key] = sent[c].fingerprint
  /\ verdict[sent[c].key] = "none"
  /\ answer[c] = "none"

Succeed(c) ==
  /\ MayDecide(c)
  /\ verdict' = [verdict EXCEPT ![sent[c].key] = c]
  /\ answer' = [answer EXCEPT ![c] = c]
  /\ UNCHANGED <<sent, ran>>

\* The call that ran the command gets the error itself.
Fail(c) ==
  /\ MayDecide(c)
  /\ verdict' = [verdict EXCEPT ![sent[c].key] = "failed"]
  /\ answer' = [answer EXCEPT ![c] = "refused"]
  /\ UNCHANGED <<sent, ran>>

Replay(c) ==
  /\ ran[sent[c].key] = sent[c].fingerprint
  /\ verdict[sent[c].key] # "none"
  /\ answer[c] = "none"
  /\ answer' = [answer EXCEPT ![c] = verdict[sent[c].key]]
  /\ UNCHANGED <<sent, ran, verdict>>

Refuse(c) ==
  /\ answer[c] = "none"
  /\ answer' = [answer EXCEPT ![c] = "refused"]
  /\ UNCHANGED <<sent, ran, verdict>>

Next == \E c \in Calls : Run(c) \/ Succeed(c) \/ Fail(c) \/ Replay(c) \/ Refuse(c)

Spec == Init /\ [][Next]_vars
=============================================================================
