------------------------------ MODULE Migration ------------------------------
(***************************************************************************)
(* Shards moving between groups while clients use them: the state machine  *)
(* of internal/shardgrp, the controllers of internal/shardctrler and       *)
(* cmd/shardctrlrd, the clients of internal/shardkv and cmd/dkv-client.    *)
(*                                                                         *)
(* A group is one state machine, as ReplicatedLog justifies; the lock of   *)
(* the controllers is a holder, as Mutex does; of a shard's keys the model *)
(* follows one.  A request may be repeated by its caller, and a copy of it *)
(* executed much later: late holds those.  In a group's log that is a      *)
(* request submitted to one leader and again to the next.                  *)
(***************************************************************************)
EXTENDS Integers, Sequences, FiniteSets

CONSTANTS
  Controller,  \* processes of shardctrlrd, one after another or at once
  Client,      \* clerks of shardkv
  Group, NoGroup,
  Nobody,      \* the holder of a free lock
  NShards,
  MaxNum,      \* bound: no configuration has a higher number
  MaxWrites,   \* bound: no put asks for a higher version
  MaxLate      \* bound on the requests that are late at one time

Shard == 0 .. NShards - 1

ASSUME GroupAssumption == NoGroup \notin Group
ASSUME ControllerAssumption == Nobody \notin Controller
ASSUME ShardAssumption == NShards \in Nat

VARIABLES
  group,    \* per group and shard: data, owned, frozen, number last seen
  conf,     \* the configuration in the config store
  holder,   \* who has the lock of the controllers
  pc,       \* where each controller is
  target,   \* the configuration it was started for
  current,  \* the one it has read under the lock
  index,    \* the shard it is moving
  moved,    \* the data it has got from FreezeShard
  reply,    \* the answer to its call
  crashed,  \* the controllers that are dead
  call,     \* per client, the Get or Put it is in
  routes,   \* the assignment of shards it knows
  answer,   \* the answer of the group it has asked
  late      \* requests whose callers no longer wait for them

controllerVars == <<pc, target, current, index, moved, reply, crashed>>
clientVars     == <<call, routes, answer>>
vars           == <<group, conf, holder, controllerVars, clientVars, late>>

Unassigned == [s \in Shard |-> NoGroup]
Assignment == [Shard -> Group \cup {NoGroup}]
Config     == [num : Nat \cup {-1}, shards : Assignment]

\* No configuration yet: what Query returns then.
NoConfig == [num |-> -1, shards |-> Unassigned]

NoReply  == [err |-> "none", data |-> <<>>]
NoAnswer == [err |-> "none", version |-> 0]
NoCall   == [kind |-> "none", shard |-> 0, version |-> 0]

\* With no group on its command line a controller assigns no shard.
Targets == [Shard -> Group] \cup {Unassigned}

Init ==
  /\ group = [g \in Group |-> [s \in Shard |->
                [data |-> <<>>, owned |-> FALSE, frozen |-> FALSE, num |-> 0]]]
  /\ conf = NoConfig
  /\ holder = Nobody
  /\ pc = [c \in Controller |-> "Idle"]
  /\ target = [c \in Controller |-> NoConfig]
  /\ current = [c \in Controller |-> NoConfig]
  /\ index = [c \in Controller |-> 0]
  /\ moved = [c \in Controller |-> <<>>]
  /\ reply = [c \in Controller |-> NoReply]
  /\ crashed = {}
  /\ call = [k \in Client |-> NoCall]
  /\ routes = [k \in Client |-> Unassigned]
  /\ answer = [k \in Client |-> NoAnswer]
  /\ late = {}

-----------------------------------------------------------------------------
\* The state machine of a group (server.go, DoOp) on one shard

Moves == {"Freeze", "Install", "Delete"}

\* Mutant: no number is ever too old.
Fenced_Never(st, req) == FALSE

\* Mutant: the number last seen counts as old, too.
Fenced_Equal(st, req) == req.num <= st.num

Fenced(st, req) == req.num < st.num

\* Mutant: a frozen shard still has its owner.
Moved_OwnedFrozen(st, req) ==
  CASE req.kind = "Freeze"  -> [st EXCEPT !.num = req.num]
    [] req.kind = "Install" -> [data |-> req.data, owned |-> TRUE, frozen |-> FALSE, num |-> req.num]
    [] req.kind = "Delete"  -> [data |-> <<>>, owned |-> FALSE, frozen |-> FALSE, num |-> req.num]

Moved(st, req) ==
  CASE req.kind = "Freeze"  -> [st EXCEPT !.num = req.num, !.owned = FALSE, !.frozen = TRUE]
    [] req.kind = "Install" -> [data |-> req.data, owned |-> TRUE, frozen |-> FALSE, num |-> req.num]
    [] req.kind = "Delete"  -> [data |-> <<>>, owned |-> FALSE, frozen |-> FALSE, num |-> req.num]

\* The answer to a Get or Put.
AccessErr(st, req) ==
  CASE ~st.owned -> "ErrWrongGroup"
    [] st.owned /\ st.frozen -> "ErrFrozen"
    [] OTHER ->
         IF req.kind = "Get" THEN IF st.data = <<>> THEN "ErrNoKey" ELSE "OK"
         ELSE IF req.version = Len(st.data) THEN "OK"
         ELSE IF st.data = <<>> THEN "ErrNoKey" ELSE "ErrVersion"

DoOp(st, req) ==
  IF req.kind \in Moves
  THEN IF Fenced(st, req) THEN st ELSE Moved(st, req)
  ELSE IF req.kind = "Put" /\ AccessErr(st, req) = "OK"
       THEN [st EXCEPT !.data = Append(@, req.by)] ELSE st

Execute(req) ==
  group' = [group EXCEPT ![req.gid][req.shard] = DoOp(@, req)]

-----------------------------------------------------------------------------
\* Controllers (controller.go)

\* The request of the call c is in.
Move(c) ==
  [kind |-> pc[c], shard |-> index[c], num |-> target[c].num,
   gid  |-> IF pc[c] = "Install" THEN target[c].shards[index[c]] ELSE current[c].shards[index[c]],
   data |-> IF pc[c] = "Install" THEN moved[c] ELSE <<>>]

\* Mutant: off by one.
Remaining_AfterFirst(cur, tgt, i) == {s \in Shard : s > i /\ cur.shards[s] # tgt.shards[s]}

\* Shards from i on that are not where they shall be.
Remaining(cur, tgt, i) == {s \in Shard : s >= i /\ cur.shards[s] # tgt.shards[s]}

\* The next shard's first call, or the publication. A shard that no group has yet
\* is installed empty: all of them in InitConfig, where nothing is current.
Advance(c, cur, i) ==
  /\ moved' = [moved EXCEPT ![c] = <<>>]
  /\ reply' = [reply EXCEPT ![c] = NoReply]
  /\ \/ /\ Remaining(cur, target[c], i) = {}
        /\ pc' = [pc EXCEPT ![c] = "Publish"]
        /\ index' = [index EXCEPT ![c] = 0]
     \/ \E s \in Remaining(cur, target[c], i) :
          /\ \A r \in Remaining(cur, target[c], i) : s <= r
          /\ index' = [index EXCEPT ![c] = s]
          /\ pc' = [pc EXCEPT ![c] = IF cur.shards[s] = NoGroup THEN "Install" ELSE "Freeze"]

\* Mutant: the last reply is still there when the next call is made.
Enter_KeepReply(c, state, data) ==
  /\ pc' = [pc EXCEPT ![c] = state]
  /\ moved' = [moved EXCEPT ![c] = data]
  /\ UNCHANGED <<index, reply>>

\* The same shard's next call, or what follows the loop.
Enter(c, state, data) ==
  /\ pc' = [pc EXCEPT ![c] = state]
  /\ moved' = [moved EXCEPT ![c] = data]
  /\ reply' = [reply EXCEPT ![c] = NoReply]
  /\ UNCHANGED index

\* The daemon looks at the configuration and decides for the next one; only then
\* it takes the lock.
Begin(c) ==
  /\ pc[c] = "Idle" /\ c \notin crashed /\ conf.num < MaxNum
  /\ \E a \in Targets : target' = [target EXCEPT ![c] = [num |-> conf.num + 1, shards |-> a]]
  /\ pc' = [pc EXCEPT ![c] = "Acquire"]
  /\ UNCHANGED <<group, conf, holder, current, index, moved, reply, crashed, clientVars, late>>

\* The lock's put may be served after its client has died.
Acquire(c) ==
  /\ pc[c] = "Acquire" /\ holder = Nobody
  /\ holder' = c
  /\ pc' = [pc EXCEPT ![c] = "Read"]
  /\ UNCHANGED <<group, conf, target, current, index, moved, reply, crashed, clientVars, late>>

Superseded(c) == target[c].num <= conf.num

Read(c) ==
  /\ pc[c] = "Read" /\ c \notin crashed
  /\ \/ Superseded(c) /\ Enter(c, "Release", <<>>) /\ UNCHANGED current
     \/ /\ ~Superseded(c)
        /\ current' = [current EXCEPT ![c] = conf]
        /\ Advance(c, conf, 0)
  /\ UNCHANGED <<group, conf, holder, target, crashed, clientVars, late>>

\* A call once made is executed whether its caller lives or not.
ServeMove(c) ==
  /\ pc[c] \in Moves /\ reply[c] = NoReply /\ Move(c).gid # NoGroup
  /\ LET st == group[Move(c).gid][index[c]] IN
       reply' = [reply EXCEPT ![c] =
         [err  |-> IF Fenced(st, Move(c)) THEN "ErrVersion" ELSE "OK",
          data |-> IF pc[c] = "Freeze" /\ ~Fenced(st, Move(c)) THEN st.data ELSE <<>>]]
  /\ Execute(Move(c))
  /\ UNCHANGED <<conf, holder, pc, target, current, index, moved, crashed, clientVars, late>>

\* The put carries the version that was read; a configuration stands for its version.
ServePublish(c) ==
  /\ pc[c] = "Publish" /\ reply[c] = NoReply
  /\ \/ /\ conf = current[c]
        /\ conf' = target[c]
        /\ reply' = [reply EXCEPT ![c].err = "OK"]
     \/ /\ conf # current[c]
        /\ reply' = [reply EXCEPT ![c].err = "ErrMaybe"]
        /\ UNCHANGED conf
  /\ UNCHANGED <<group, holder, pc, target, current, index, moved, crashed, clientVars, late>>

\* A caller that repeats its request may leave a copy behind.
LeaveBehind(req) ==
  \/ UNCHANGED late
  \/ Cardinality(late) < MaxLate /\ late' = late \cup {req}

Resend(c) ==
  /\ pc[c] \in Moves \cup {"Publish"} /\ c \notin crashed
  /\ IF pc[c] = "Publish" \/ Move(c).gid = NoGroup THEN UNCHANGED late ELSE LeaveBehind(Move(c))
  /\ reply' = [reply EXCEPT ![c] = NoReply]
  /\ UNCHANGED <<group, conf, holder, pc, target, current, index, moved, crashed, clientVars>>

Proceed(c) ==
  /\ reply[c] # NoReply /\ c \notin crashed
  /\ \/ /\ reply[c].err # "OK" \/ pc[c] = "Publish"
        /\ Enter(c, "Release", <<>>)
     \/ /\ reply[c].err = "OK" /\ pc[c] = "Freeze"
        /\ Enter(c, "Install", reply[c].data)
     \/ /\ reply[c].err = "OK" /\ pc[c] = "Install" /\ current[c].shards[index[c]] # NoGroup
        /\ Enter(c, "Delete", <<>>)
     \/ /\ reply[c].err = "OK" /\ pc[c] # "Publish"
        /\ pc[c] = "Delete" \/ (pc[c] = "Install" /\ current[c].shards[index[c]] = NoGroup)
        /\ Advance(c, current[c], index[c] + 1)
  /\ UNCHANGED <<group, conf, holder, target, current, crashed, clientVars, late>>

\* Mutant: only a controller that has published releases the lock.
Release_IfPublished(c) ==
  /\ pc[c] = "Release" /\ c \notin crashed
  /\ holder' = IF conf = target[c] THEN Nobody ELSE holder
  /\ pc' = [pc EXCEPT ![c] = "Idle"]
  /\ target' = [target EXCEPT ![c] = NoConfig]
  /\ current' = [current EXCEPT ![c] = NoConfig]
  /\ index' = [index EXCEPT ![c] = 0]
  /\ UNCHANGED <<group, conf, moved, reply, crashed, clientVars, late>>

\* The deferred release; the daemon then has nothing to do until it is restarted.
Release(c) ==
  /\ pc[c] = "Release" /\ c \notin crashed
  /\ holder' = Nobody
  /\ pc' = [pc EXCEPT ![c] = "Idle"]
  /\ target' = [target EXCEPT ![c] = NoConfig]
  /\ current' = [current EXCEPT ![c] = NoConfig]
  /\ index' = [index EXCEPT ![c] = 0]
  /\ UNCHANGED <<group, conf, moved, reply, crashed, clientVars, late>>

\* A process that dies before it gets the lock may as well not have been started,
\* or get it and die then.
Crash(c) ==
  /\ holder = c /\ c \notin crashed
  /\ crashed' = crashed \cup {c}
  /\ UNCHANGED <<group, conf, holder, pc, target, current, index, moved, reply, clientVars, late>>

-----------------------------------------------------------------------------
\* Clients (client.go of shardkv and shardgrp, cmd/dkv-client)

Request(k) ==
  [kind |-> call[k].kind, gid |-> routes[k][call[k].shard], shard |-> call[k].shard,
   version |-> call[k].version, by |-> k]

\* get, or the Get with which put begins
Invoke(k) ==
  /\ call[k] = NoCall
  /\ \E s \in Shard : call' = [call EXCEPT ![k] = [kind |-> "Get", shard |-> s, version |-> 0]]
  /\ UNCHANGED <<group, conf, holder, controllerVars, routes, answer, late>>

ServeCall(k) ==
  /\ call[k] # NoCall /\ answer[k] = NoAnswer /\ Request(k).gid # NoGroup
  /\ LET st == group[Request(k).gid][call[k].shard]
         err == AccessErr(st, Request(k)) IN
       answer' = [answer EXCEPT ![k] =
         [err |-> err, version |-> IF call[k].kind = "Get" /\ err = "OK" THEN Len(st.data) ELSE 0]]
  /\ Execute(Request(k))
  /\ UNCHANGED <<conf, holder, controllerVars, call, routes, late>>

\* A Get that is late does nothing.
Recall(k) ==
  /\ call[k] # NoCall /\ Request(k).gid # NoGroup
  /\ IF call[k].kind = "Put" THEN LeaveBehind(Request(k)) ELSE UNCHANGED late
  /\ answer' = [answer EXCEPT ![k] = NoAnswer]
  /\ UNCHANGED <<group, conf, holder, controllerVars, call, routes>>

Refused(k) == answer[k].err \in {"ErrWrongGroup", "ErrFrozen"}

\* Mutant: only a client that knows nothing looks up the configuration.
Lookup_Once(k) == IF routes[k] = Unassigned THEN conf.shards ELSE routes[k]

Lookup(k) == conf.shards

\* Nobody has the shard, or not the group that was asked: look up the configuration.
Reroute(k) ==
  /\ call[k] # NoCall /\ (Refused(k) \/ Request(k).gid = NoGroup)
  /\ routes' = [routes EXCEPT ![k] = Lookup(k)]
  /\ answer' = [answer EXCEPT ![k] = NoAnswer]
  /\ UNCHANGED <<group, conf, holder, controllerVars, call, late>>

\* The call returns; a put goes on with the version its Get has found.
Return(k) ==
  /\ answer[k] # NoAnswer /\ ~Refused(k)
  /\ \/ call' = [call EXCEPT ![k] = NoCall]
     \/ /\ call[k].kind = "Get" /\ answer[k].version < MaxWrites
        /\ call' = [call EXCEPT ![k].kind = "Put", ![k].version = answer[k].version]
  /\ answer' = [answer EXCEPT ![k] = NoAnswer]
  /\ UNCHANGED <<group, conf, holder, controllerVars, routes, late>>

-----------------------------------------------------------------------------
ServeLate(req) ==
  /\ Execute(req)
  /\ late' = late \ {req}
  /\ UNCHANGED <<conf, holder, controllerVars, clientVars>>

ControllerStep(c) == Read(c) \/ Proceed(c) \/ Release(c)
ClientStep(k) == Reroute(k) \/ Return(k)

Next ==
  \/ \E c \in Controller :
       \/ Begin(c) \/ Acquire(c) \/ ControllerStep(c)
       \/ ServeMove(c) \/ ServePublish(c) \/ Resend(c) \/ Crash(c)
  \/ \E k \in Client : Invoke(k) \/ ServeCall(k) \/ Recall(k) \/ ClientStep(k)
  \/ \E req \in late : ServeLate(req)

Spec == Init /\ [][Next]_vars

\* InstallShard takes effect once: its caller does not repeat it when it was executed,
\* and every copy that is late is too late.  Nothing in the code sees to that.
InstallsOnce ==
  /\ \A c \in Controller : pc[c] = "Install" /\ reply[c] # NoReply => ~Resend(c)
  /\ \A req \in late : req.kind = "Install" /\ ServeLate(req) =>
       Fenced(group[req.gid][req.shard], req)

OnceSpec == Init /\ [][Next /\ InstallsOnce]_vars

\* Groups and config store answer, a call made again and again is answered some
\* day, the lock once free is given to one of those who spin for it (controllers
\* are started finitely often), and a process that lives goes on.
Fairness ==
  /\ \A c \in Controller :
       /\ WF_vars(ServeMove(c)) /\ WF_vars(ServePublish(c))
       /\ WF_vars(Acquire(c)) /\ SF_vars(ControllerStep(c))
  /\ \A k \in Client : WF_vars(ServeCall(k)) /\ SF_vars(ClientStep(k))

LiveSpec == Spec /\ Fairness

-----------------------------------------------------------------------------
States == {"Idle", "Acquire", "Read", "Publish", "Release"} \cup Moves

\* Types, and the fields of a call only while there is one.
GroupTypes ==
  group \in [Group -> [Shard -> [data : Seq(Client), owned : BOOLEAN, frozen : BOOLEAN, num : Nat]]]

ControllerTypes ==
  /\ conf \in Config
  /\ holder \in Controller \cup {Nobody}
  /\ pc \in [Controller -> States]
  /\ target \in [Controller -> Config] /\ current \in [Controller -> Config]
  /\ index \in [Controller -> Nat]
  /\ moved \in [Controller -> Seq(Client)]
  /\ reply \in [Controller -> [err : {"OK", "ErrVersion", "ErrMaybe"}, data : Seq(Client)] \cup {NoReply}]
  /\ crashed \subseteq Controller
  /\ \A c \in Controller :
       /\ pc[c] # "Idle" => target[c].num \in Nat
       /\ pc[c] \in Moves => index[c] \in Shard
       /\ pc[c] # "Install" => moved[c] = <<>>
       /\ pc[c] \notin Moves \cup {"Publish"} => reply[c] = NoReply

ClientTypes ==
  /\ call \in [Client -> [kind : {"Get", "Put"}, shard : Shard, version : Nat] \cup {NoCall}]
  /\ routes \in [Client -> Assignment]
  /\ answer \in [Client -> [err : {"none", "OK", "ErrWrongGroup", "ErrFrozen", "ErrNoKey", "ErrVersion"},
                             version : Nat]]

LateTypes ==
  late \subseteq [kind : Moves, shard : Shard, num : Nat, gid : Group, data : Seq(Client)]
            \cup [kind : {"Put"}, gid : Group, shard : Shard, version : Nat, by : Client]

TypeOK == GroupTypes /\ ControllerTypes /\ ClientTypes /\ LateTypes

\* Exactly one group serves each shard (architecture.md:630), as far as any does.
OneOwner ==
  \A s \in Shard : \A g, h \in Group : group[g][s].owned /\ group[h][s].owned => g = h

\* Who finds the lock free finds the groups as the configuration says.
Settled ==
  holder = Nobody =>
    \A s \in Shard : \A g \in Group : group[g][s].owned <=> conf.shards[s] = g

\* The fencing never refuses the holder of the lock, and what a controller is told
\* of as an error is its own configuration in force.
ErrorMeansPublished ==
  \A c \in Controller : reply[c].err \notin {"none", "OK"} =>
    pc[c] = "Publish" /\ conf = target[c]

\* What ownership rests on, inductively.  Of the configurations that a shard's
\* group may be found in there is one at each moment, and requests that are late
\* either agree with it or are fenced off.
Busy(c) == pc[c] \in Moves \cup {"Publish"}

Moving == holder \in Controller /\ Busy(holder)

Top == IF Moving THEN target[holder].num ELSE conf.num

\* Who may own s: the old group until it has frozen it, then the new one.
Assigned(s) ==
  IF ~Moving THEN conf.shards[s]
  ELSE IF pc[holder] = "Publish" \/ s < index[holder] \/ (s = index[holder] /\ pc[holder] # "Freeze")
       THEN target[holder].shards[s] ELSE current[holder].shards[s]

InTransit(s) == Moving /\ s = index[holder] /\ pc[holder] \in {"Freeze", "Install"}

HolderInv ==
  \A c \in Controller :
    /\ pc[c] \notin {"Idle", "Acquire"} => holder = c
    /\ Busy(c) =>
         /\ current[c].num < target[c].num
         /\ conf = current[c] \/ (pc[c] = "Publish" /\ conf = target[c])
         /\ pc[c] = "Publish" /\ reply[c].err # "none" => conf = target[c]
    /\ pc[c] \in Moves =>
         /\ current[c].shards[index[c]] # target[c].shards[index[c]]
         /\ pc[c] # "Install" => current[c].shards[index[c]] # NoGroup
         /\ reply[c].err \in {"none", "OK"}

\* What c's present move leaves behind.
Done(c) ==
  \A g \in Group :
    /\ pc[c] = "Freeze" /\ g = current[c].shards[index[c]] =>
         ~group[g][index[c]].owned /\ group[g][index[c]].num = target[c].num
    /\ pc[c] = "Install" /\ g = target[c].shards[index[c]] =>
         group[g][index[c]].owned /\ group[g][index[c]].num = target[c].num

AnsweredInv == \A c \in Controller : reply[c].err = "OK" => Done(c)

OwnerInv ==
  \A g \in Group : \A s \in Shard :
    /\ group[g][s].num <= Top \/ group[g][s].num = 0
    /\ group[g][s].owned => g = Assigned(s)
    /\ g = Assigned(s) /\ ~InTransit(s) => group[g][s].owned

\* Whenever req is executed it does no harm.
Timely(req) == req.num <= Top

Genuine(req) ==
  Moving /\ req.num = Top =>
    /\ current[holder].shards[req.shard] # target[holder].shards[req.shard]
    /\ req.gid = IF req.kind = "Install" THEN target[holder].shards[req.shard]
                 ELSE current[holder].shards[req.shard]

Harmless(req) ==
  \/ req.num < group[req.gid][req.shard].num
  \/ IF req.kind = "Install" THEN req.gid = Assigned(req.shard)
     ELSE req.gid # Assigned(req.shard) \/ InTransit(req.shard)

LateInv ==
  \A req \in late : req.kind \in Moves => Timely(req) /\ Genuine(req) /\ Harmless(req)

MoveInv == HolderInv /\ AnsweredInv /\ OwnerInv /\ LateInv

\* "Each RPC carries the configNum so stale/replayed RPCs are rejected"
\* (architecture.md:271): no write to a shard that a group goes on serving is undone.
ReplaysRejected ==
  [][\A g \in Group, s \in Shard :
       group[g][s].owned /\ group'[g][s].owned /\ group'[g][s].num = group[g][s].num =>
         Len(group[g][s].data) <= Len(group'[g][s].data)]_vars

\* Where a shard's data is: with its owner, or where it was frozen last.
Home(s) ==
  CHOOSE g \in Group :
    \/ group[g][s].owned
    \/ /\ \A h \in Group : ~group[h][s].owned
       /\ \A h \in Group : group[h][s].frozen => group[g][s].frozen /\ group[h][s].num <= group[g][s].num

store == INSTANCE ShardStore WITH
  content <- [s \in Shard |-> group[Home(s)][s].data],
  answer  <- [k \in Client |-> IF Refused(k) THEN NoAnswer ELSE answer[k]]

\* The store keeps its promise while shards move: every put that took effect stays,
\* is in the copy that is installed, and takes effect once; what is read is the
\* state of the moment.  InstallShard has to take effect once for that (OnceSpec).
ImplementsShardStore == store!Spec

\* The lock is held for ever: by the dead, or for a configuration of no groups.
Stuck == \E c \in Controller : holder = c /\ (c \in crashed \/ target[c].shards = Unassigned)

\* A client's call returns, whatever moves meanwhile (client.go of shardkv), unless
\* no shard is assigned, or is to be any more.
CallsReturn == \A k \in Client : []<>(call[k] = NoCall) \/ <>[](Stuck \/ conf.shards = Unassigned)

\* A controller comes to an end and gives up the lock.
ControllersReturn == \A c \in Controller : []<>(pc[c] = "Idle") \/ <>[]Stuck
=============================================================================
