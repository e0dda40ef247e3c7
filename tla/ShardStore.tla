----------------------------- MODULE ShardStore -----------------------------
(***************************************************************************)
(* What the sharded store promises to its clients, wherever the shards are *)
(* and however often they move: each shard is one value that only puts     *)
(* change, one version at a time, and a put takes effect at most once,     *)
(* while its client is waiting for the answer.  The value is written as    *)
(* the sequence of the clients that have put it; its length is the version.*)
(***************************************************************************)
EXTENDS Naturals, Sequences

CONSTANTS Client, Shard

VARIABLES
  content,  \* per shard, who has written it
  call,     \* per client, the call it is waiting for
  answer    \* per client, what it has been answered

vars == <<content, call, answer>>

NoCall   == [kind |-> "none", shard |-> 0, version |-> 0]
Calls    == [kind : {"Get", "Put"}, shard : Shard, version : Nat]
NoAnswer == [err |-> "none", version |-> 0]

Init ==
  /\ content = [s \in Shard |-> <<>>]
  /\ call = [k \in Client |-> NoCall]
  /\ answer = [k \in Client |-> NoAnswer]

\* A client begins a call, or ends the one that was answered, or both.
MoveOn(k) ==
  /\ call[k] = NoCall \/ answer[k] # NoAnswer
  /\ call'[k] \in Calls \cup {NoCall}
  /\ call' = [call EXCEPT ![k] = call'[k]]
  /\ answer' = [answer EXCEPT ![k] = NoAnswer]
  /\ UNCHANGED content

Waits(k) == call[k] # NoCall /\ answer[k] = NoAnswer

Version(k) == Len(content[call[k].shard])

Refusal(k) == IF Version(k) = 0 /\ call[k].version # 0 THEN "ErrNoKey" ELSE "ErrVersion"

Get(k) ==
  /\ Waits(k) /\ call[k].kind = "Get"
  /\ answer' = [answer EXCEPT ![k] =
       [err |-> IF Version(k) = 0 THEN "ErrNoKey" ELSE "OK", version |-> Version(k)]]
  /\ UNCHANGED <<content, call>>

\* A put takes effect; its answer may be lost.
Put(k) ==
  /\ Waits(k) /\ call[k].kind = "Put" /\ call[k].version = Version(k)
  /\ content' = [content EXCEPT ![call[k].shard] = Append(@, k)]
  /\ \/ answer' = [answer EXCEPT ![k] = [err |-> "OK", version |-> 0]]
     \/ UNCHANGED answer
  /\ UNCHANGED call

Refuse(k) ==
  /\ Waits(k) /\ call[k].kind = "Put" /\ call[k].version # Version(k)
  /\ answer' = [answer EXCEPT ![k] = [err |-> Refusal(k), version |-> 0]]
  /\ UNCHANGED <<content, call>>

LoseAnswer(k) ==
  /\ answer[k] # NoAnswer
  /\ answer' = [answer EXCEPT ![k] = NoAnswer]
  /\ UNCHANGED <<content, call>>

Next == \E k \in Client : MoveOn(k) \/ Get(k) \/ Put(k) \/ Refuse(k) \/ LoseAnswer(k)

Spec == Init /\ [][Next]_vars
=============================================================================
