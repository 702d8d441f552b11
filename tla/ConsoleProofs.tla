---------------------------- MODULE ConsoleProofs ----------------------------
(***************************************************************************)
(* Proofs about Console, for any number of clients and instances, any      *)
(* limits and any socket capacity.                                         *)
(*                                                                         *)
(* A step of the daemon does at most one thing to what it lends: it hands  *)
(* out a permit or a lease, opens a device, or drops one value.  So the    *)
(* argument has two halves: each of these keeps the books (the lemmas on   *)
(* permits and leases), and each action does the one its stage calls for.  *)
(* The stages are what makes it inductive: that a lease is only ever       *)
(* dropped by its owner, and after the device, is not visible in the       *)
(* books themselves.                                                       *)
(*                                                                         *)
(* The second part is about the two streams between browser and daemon.    *)
(* `StreamInv` says, for each client apart, what may be in each stream at  *)
(* each stage of the daemon and of the gateway: nothing but the answer to  *)
(* the upgrade and the attachment before the bridge runs, and from then on *)
(* replies and requests that line up one to one.  One lemma per action     *)
(* shows that its own client's row stays true; `RowStep` does the others.  *)
(***************************************************************************)
EXTENDS Console, FiniteSetTheorems, TLAPS

\* Most leaves are logic and functions: Zenon is the backend unless one names another.
USE ZenonT(60)

Kinds == {"connection", "console"}

(***************************************************************************)
(* Permits: `ServiceLimiter::acquire` by a connection that has no such     *)
(* permit yet keeps the counter equal to the number of owners.             *)
(***************************************************************************)
LEMMA AcquireKeepsPermits ==
  ASSUME DaemonTypeOK, PermitsMatchHolders,
         NEW c \in Clients, NEW kind \in Kinds, kind \notin held[c],
         Available(kind), Acquire(c, kind)
  PROVE  PermitsMatchHolders'
<1>1. /\ IsFiniteSet(Holders(kind))
      /\ c \notin Holders(kind)
  <2>1. Holders(kind) \subseteq Clients /\ c \notin Holders(kind)
    BY DEF Holders
  <2> QED
    BY <2>1, FS_Subset, ConsoleAssumption
<1>2. Holders(kind)' = Holders(kind) \cup {c}
  BY DEF Holders, Acquire, Take, DaemonTypeOK
<1>3. \A k \in Kinds : k # kind => Holders(k)' = Holders(k)
  BY DEF Holders, Acquire, Take, DaemonTypeOK
<1>4. Cardinality(Holders(kind)') = Cardinality(Holders(kind)) + 1
  BY <1>1, <1>2, FS_AddElement
<1>5. /\ limiter'[kind] = limiter[kind] + 1
      /\ \A k \in Kinds : k # kind => limiter'[k] = limiter[k]
      /\ limiter[kind] \in Nat /\ limiter[kind] < Limit(kind)
  BY DEF Acquire, Available, DaemonTypeOK, Kinds
<1>6. Limit(kind) \in Nat
  BY ConsoleAssumption DEF Limit
<1>7. limiter[kind] + 1 <= Limit(kind)
  BY <1>5, <1>6, SMTT(60)
<1>8. \A k \in Kinds : limiter'[k] = Cardinality(Holders(k)') /\ limiter'[k] <= Limit(k)
  BY <1>3, <1>4, <1>5, <1>7 DEF PermitsMatchHolders, Kinds
<1> QED
  BY <1>8 DEF PermitsMatchHolders, Kinds, Limit

(***************************************************************************)
(* Dropping what a connection owns gives back one permit if it was one,    *)
(* and never saturates.                                                    *)
(***************************************************************************)
LEMMA DropKeepsPermits ==
  ASSUME DaemonTypeOK, PermitsMatchHolders,
         NEW c \in Clients, NEW r \in held[c], Drop(c, r)
  PROVE  PermitsMatchHolders' /\ limiter' \in [Kinds -> Nat]
<1>1. ASSUME NEW k \in Kinds, k # r
      PROVE  Holders(k)' = Holders(k) /\ limiter'[k] = limiter[k]
  BY <1>1 DEF Holders, Drop, Give, DaemonTypeOK, Kinds
<1>2. CASE r \in Kinds
  <2>1. IsFiniteSet(Holders(r)) /\ c \in Holders(r)
    <3>1. Holders(r) \subseteq Clients /\ c \in Holders(r)
      BY DEF Holders
    <3> QED
      BY <3>1, FS_Subset, ConsoleAssumption
  <2>2. Holders(r)' = Holders(r) \ {c}
    BY DEF Holders, Drop, Give, DaemonTypeOK
  <2>3. /\ Cardinality(Holders(r)') = Cardinality(Holders(r)) - 1
        /\ Cardinality(Holders(r)) \in Nat
    BY <2>1, <2>2, FS_RemoveElement, FS_CardinalityType
  <2>4. /\ limiter[r] = Cardinality(Holders(r)) /\ limiter[r] <= Limit(r)
        /\ limiter[r] \in Nat
    BY <1>2 DEF PermitsMatchHolders, Kinds, DaemonTypeOK
  <2>5. limiter[r] # 0
    BY <2>1, <2>4, FS_EmptySet
  <2>6. /\ limiter'[r] = limiter[r] - 1
        /\ limiter' \in [Kinds -> Nat]
    BY <1>2, <2>4, <2>5, SMTT(60) DEF Drop, SaturatingDecrement, Kinds, DaemonTypeOK
  <2>7. Limit(r) \in Nat
    BY ConsoleAssumption DEF Limit
  <2>8. limiter'[r] = Cardinality(Holders(r)') /\ limiter'[r] <= Limit(r)
    BY <2>3, <2>4, <2>6, <2>7, SMTT(60)
  <2>9. \A k \in Kinds : limiter'[k] = Cardinality(Holders(k)') /\ limiter'[k] <= Limit(k)
    BY <1>1, <2>8 DEF PermitsMatchHolders, Kinds
  <2> QED
    BY <2>6, <2>9 DEF PermitsMatchHolders, Kinds, Limit
<1>3. CASE r \notin Kinds
  <2>1. limiter' \in [Kinds -> Nat]
    BY <1>3 DEF Drop, Kinds, DaemonTypeOK
  <2>2. \A k \in Kinds : limiter'[k] = Cardinality(Holders(k)') /\ limiter'[k] <= Limit(k)
    BY <1>1, <1>3 DEF PermitsMatchHolders, Kinds
  <2> QED
    BY <2>1, <2>2 DEF PermitsMatchHolders, Kinds, Limit
<1> QED
  BY <1>2, <1>3

(***************************************************************************)
(* Leases: whoever drops a value, the lease set stays the set of leased    *)
(* instances, because no two sessions lease the same one.                  *)
(***************************************************************************)
LEMMA DropKeepsLeases ==
  ASSUME DaemonTypeOK, LeasesMatchSessions,
         NEW c \in Clients, NEW r \in held[c], Drop(c, r), target' = target
  PROVE  LeasesMatchSessions'
<1>1. CASE r = "lease"
  <2>1. c \in Holders("lease") /\ Holders("lease")' = Holders("lease") \ {c}
    BY <1>1 DEF Holders, Drop, Give, DaemonTypeOK
  <2>2. attached' = attached \ {target[c]}
    BY <1>1 DEF Drop
  <2> QED
    BY <2>1, <2>2 DEF LeasesMatchSessions
<1>2. CASE r # "lease"
  <2>1. Holders("lease")' = Holders("lease") /\ attached' = attached
    BY <1>2 DEF Holders, Drop, Give, DaemonTypeOK
  <2> QED
    BY <2>1 DEF LeasesMatchSessions
<1> QED
  BY <1>1, <1>2

(***************************************************************************)
(* `ConsoleLease::acquire` of an instance nobody leases.                   *)
(***************************************************************************)
LEMMA TakeKeepsLeases ==
  ASSUME DaemonTypeOK, LeasesMatchSessions, NEW c \in Clients,
         target[c] \notin attached, attached' = attached \cup {target[c]},
         Take(c, "lease"), target' = target
  PROVE  LeasesMatchSessions'
<1>1. Holders("lease")' = Holders("lease") \cup {c}
  BY DEF Holders, Take, DaemonTypeOK
<1> QED
  BY <1>1 DEF LeasesMatchSessions

(***************************************************************************)
(* The books do not depend on anything else: a step that leaves owners and *)
(* counters alone keeps them, and so does one that only opens or names a   *)
(* device.                                                                 *)
(***************************************************************************)
LEMMA SameOwners ==
  ASSUME PermitsMatchHolders, LeasesMatchSessions, limiter' = limiter, attached' = attached,
         \A r \in Kinds \cup {"lease"} : Holders(r)' = Holders(r),
         \A c \in Holders("lease") : target'[c] = target[c]
  PROVE  PermitsMatchHolders' /\ LeasesMatchSessions'
<1>1. PermitsMatchHolders'
  BY DEF PermitsMatchHolders, Kinds, Limit
<1>2. Holders("lease")' = Holders("lease")
  OBVIOUS
<1>3. {target'[c] : c \in Holders("lease")} = {target[c] : c \in Holders("lease")}
  OBVIOUS
<1> QED
  BY <1>1, <1>2, <1>3 DEF LeasesMatchSessions

\* A step of one client leaves the others where they were.
OthersStay(c) ==
  \A d \in Clients \ {c} :
    stage'[d] = stage[d] /\ held'[d] = held[d] /\ closed'[d] = closed[d]

(***************************************************************************)
(* A step keeps the invariant if it keeps types and books and takes its    *)
(* own client to a stage that fits what it now owns.                       *)
(***************************************************************************)
LEMMA ClientStep ==
  ASSUME ResourcesMatchSessions, NEW c \in Clients, OthersStay(c),
         DaemonTypeOK', PermitsMatchHolders', LeasesMatchSessions', StageHolds(c)'
  PROVE  ResourcesMatchSessions'
<1>1. ASSUME NEW d \in Clients \ {c} PROVE StageHolds(d)'
  BY DEF ResourcesMatchSessions, OthersStay, StageHolds, Scoped
<1> QED
  BY <1>1 DEF ResourcesMatchSessions

(***************************************************************************)
(* A step that only moves its client to another stage.                     *)
(***************************************************************************)
LEMMA MoveStep ==
  ASSUME ResourcesMatchSessions, NEW c \in Clients, NEW s \in Stages, Goto(c, s),
         UNCHANGED <<limiter, attached, held, target, closed>>, StageHolds(c)'
  PROVE  ResourcesMatchSessions'
<1>1. DaemonTypeOK' /\ OthersStay(c)
  BY DEF ResourcesMatchSessions, DaemonTypeOK, OthersStay, Goto
<1>2. PermitsMatchHolders' /\ LeasesMatchSessions'
  BY SameOwners DEF ResourcesMatchSessions, Holders
<1> QED
  BY <1>1, <1>2, ClientStep

(***************************************************************************)
(* A step that drops one value its client owns.                            *)
(***************************************************************************)
LEMMA DropStep ==
  ASSUME ResourcesMatchSessions, NEW c \in Clients, NEW r \in held[c], Drop(c, r),
         NEW s \in Stages, Goto(c, s), target' = target,
         NEW reason \in Reasons \cup {None}, closed' = [closed EXCEPT ![c] = reason],
         StageHolds(c)'
  PROVE  ResourcesMatchSessions'
<1>1. PermitsMatchHolders' /\ LeasesMatchSessions' /\ limiter' \in [Kinds -> Nat]
  BY DropKeepsPermits, DropKeepsLeases DEF ResourcesMatchSessions
<1>2. held' \in [Clients -> SUBSET Resources]
  BY DEF ResourcesMatchSessions, DaemonTypeOK, Drop, Give
<1>3. DaemonTypeOK' /\ OthersStay(c)
  BY <1>1, <1>2
  DEF ResourcesMatchSessions, DaemonTypeOK, OthersStay, Goto, Drop, Give, Kinds
<1> QED
  BY <1>1, <1>3, ClientStep

-----------------------------------------------------------------------------
(* Each action of the daemon keeps the invariant.                          *)

(***************************************************************************)
(* A tab opens a console: the instance it names may change, and it can,    *)
(* because a client at stage "none" owns nothing.                          *)
(***************************************************************************)
LEMMA OpenConsoleKeeps ==
  ASSUME ResourcesMatchSessions, NEW c \in Clients, NEW i \in Instances, OpenConsole(c, i)
  PROVE  ResourcesMatchSessions'
<1>1. held[c] = {} /\ closed[c] = None
  BY DEF ResourcesMatchSessions, OpenConsole, StageHolds, Scoped, Preparing
<1>2. DaemonTypeOK' /\ OthersStay(c) /\ StageHolds(c)'
  BY <1>1 DEF ResourcesMatchSessions, DaemonTypeOK, OthersStay, OpenConsole, Goto,
              StageHolds, Scoped, Stages
<1>3. PermitsMatchHolders' /\ LeasesMatchSessions'
  <2>1. \A d \in Holders("lease") : target'[d] = target[d]
    BY <1>1 DEF Holders, OpenConsole, ResourcesMatchSessions, DaemonTypeOK
  <2> QED
    BY <2>1, SameOwners DEF ResourcesMatchSessions, Holders, OpenConsole
<1> QED
  BY <1>2, <1>3, ClientStep

(***************************************************************************)
(* Accepting takes a connection permit or drops the stream.                *)
(***************************************************************************)
LEMMA AcceptKeeps ==
  ASSUME ResourcesMatchSessions, NEW c \in Clients, Accept(c)
  PROVE  ResourcesMatchSessions'
<1>0. held[c] = {} /\ closed[c] = None /\ stage[c] = "backlog" /\ target' = target
  BY DEF ResourcesMatchSessions, Accept, StageHolds, Scoped, Preparing
<1>1. CASE Available("connection")
  <2>1. Acquire(c, "connection") /\ Goto(c, "request") /\ UNCHANGED <<attached, closed>>
    BY <1>1 DEF Accept
  <2>2. PermitsMatchHolders'
    BY <1>0, <1>1, <2>1, AcquireKeepsPermits DEF ResourcesMatchSessions, Kinds
  <2>3. Holders("lease")' = Holders("lease")
    BY <2>1 DEF Holders, Acquire, Take, ResourcesMatchSessions, DaemonTypeOK
  <2>4. LeasesMatchSessions'
    BY <1>0, <2>1, <2>3 DEF ResourcesMatchSessions, LeasesMatchSessions
  <2>5. DaemonTypeOK' /\ OthersStay(c) /\ StageHolds(c)'
    BY <1>0, <2>1, SMTT(60)
    DEF ResourcesMatchSessions, DaemonTypeOK, OthersStay, Goto, Acquire, Take,
        StageHolds, Scoped, Stages, Resources
  <2> QED
    BY <2>2, <2>4, <2>5, ClientStep
<1>2. CASE ~Available("connection")
  <2>1. Goto(c, "none") /\ UNCHANGED <<limiter, attached, held, target, closed>>
    BY <1>2 DEF Accept
  <2>2. StageHolds(c)'
    BY <1>0, <2>1 DEF Goto, StageHolds, Scoped, ResourcesMatchSessions, DaemonTypeOK
  <2> QED
    BY <2>1, <2>2, MoveStep DEF Stages
<1> QED
  BY <1>1, <1>2

(***************************************************************************)
(* Leaving prepare_upgrade with an error takes nothing along yet.          *)
(***************************************************************************)
LEMMA RejectKeeps ==
  ASSUME ResourcesMatchSessions, NEW c \in Clients, NEW answer, Reject(c, answer),
         stage[c] \in {"request"} \cup Preparing,
         UNCHANGED <<limiter, attached, held, target, closed>>
  PROVE  ResourcesMatchSessions'
<1>1. Goto(c, "rejecting") /\ closed[c] = None
  BY DEF Reject, ResourcesMatchSessions, StageHolds, Preparing
<1>2. StageHolds(c)'
  BY <1>1 DEF Goto, StageHolds, Scoped, ResourcesMatchSessions, DaemonTypeOK
<1> QED
  BY <1>1, <1>2, MoveStep DEF Stages

(***************************************************************************)
(* The checks of handle_upgrade_request, the snapshot and the selector     *)
(* move on or reject; none of them lends anything.                         *)
(***************************************************************************)
LEMMA ChecksKeep ==
  ASSUME ResourcesMatchSessions, NEW c \in Clients,
         HandleRequest(c) \/ Observe(c) \/ WriteSelector(c)
  PROVE  ResourcesMatchSessions'
<1>1. UNCHANGED <<limiter, attached, held, target, closed>>
  BY DEF HandleRequest, Observe, WriteSelector
<1>2. CASE \E answer : Reject(c, answer)
  BY <1>1, <1>2, RejectKeeps DEF HandleRequest, Observe, WriteSelector, Preparing
<1>3. ASSUME NEW s \in {"observing", "active", "prepared"}, Goto(c, s),
             s = "observing" => stage[c] = "request",
             s = "active" => stage[c] = "observing",
             s = "prepared" => stage[c] = "opened"
      PROVE  ResourcesMatchSessions'
  <2>1. StageHolds(c)'
    BY <1>1, <1>3
    DEF Goto, StageHolds, Scoped, ResourcesMatchSessions, DaemonTypeOK, Preparing
  <2> QED
    BY <1>1, <1>3, <2>1, MoveStep DEF Stages, Preparing
<1> QED
  BY <1>2, <1>3 DEF HandleRequest, Observe, WriteSelector

(***************************************************************************)
(* The console permit is taken or refused.                                 *)
(***************************************************************************)
LEMMA AcquireConsoleKeeps ==
  ASSUME ResourcesMatchSessions, NEW c \in Clients, AcquireConsole(c)
  PROVE  ResourcesMatchSessions'
<1>0. Scoped(c) = {} /\ closed[c] = None /\ stage[c] = "active"
  BY DEF ResourcesMatchSessions, AcquireConsole, StageHolds
<1>1. CASE Available("console")
  <2>1. /\ Acquire(c, "console") /\ Goto(c, "permitted")
        /\ UNCHANGED <<attached, target, closed>>
    BY <1>1 DEF AcquireConsole
  <2>2. PermitsMatchHolders'
    BY <1>0, <1>1, <2>1, AcquireKeepsPermits, SMTT(60) DEF ResourcesMatchSessions, Kinds, Scoped
  <2>3. Holders("lease")' = Holders("lease")
    BY <2>1 DEF Holders, Acquire, Take, ResourcesMatchSessions, DaemonTypeOK
  <2>4. LeasesMatchSessions'
    BY <2>1, <2>3 DEF ResourcesMatchSessions, LeasesMatchSessions
  <2>5. DaemonTypeOK' /\ OthersStay(c)
    BY <2>1, SMTT(60)
    DEF ResourcesMatchSessions, DaemonTypeOK, OthersStay, Goto, Acquire, Take,
        Stages, Preparing, Resources
  <2>6. held'[c] = held[c] \cup {"console"} /\ stage'[c] = "permitted"
    BY <2>1 DEF ResourcesMatchSessions, DaemonTypeOK, Goto, Acquire, Take
  <2>7. StageHolds(c)'
    BY <1>0, <2>1, <2>6, SMTT(60) DEF StageHolds, Scoped, Preparing
  <2> QED
    BY <2>2, <2>4, <2>5, <2>7, ClientStep
<1>2. CASE ~Available("console")
  BY <1>0, <1>2, RejectKeeps DEF AcquireConsole, Preparing
<1> QED
  BY <1>1, <1>2

(***************************************************************************)
(* The lease is taken only where the instance is free.                     *)
(***************************************************************************)
LEMMA AcquireLeaseKeeps ==
  ASSUME ResourcesMatchSessions, NEW c \in Clients, AcquireLease(c)
  PROVE  ResourcesMatchSessions'
<1>0. Scoped(c) = {"console"} /\ closed[c] = None /\ stage[c] = "permitted"
  BY DEF ResourcesMatchSessions, AcquireLease, StageHolds
<1>1. CASE target[c] \notin attached
  <2>1. /\ attached' = attached \cup {target[c]} /\ Take(c, "lease") /\ Goto(c, "leased")
        /\ UNCHANGED <<limiter, target, closed>>
    BY <1>1 DEF AcquireLease
  <2>2. LeasesMatchSessions'
    BY <1>1, <2>1, TakeKeepsLeases DEF ResourcesMatchSessions
  <2>3. \A r \in Kinds : Holders(r)' = Holders(r)
    BY <2>1 DEF Holders, Take, ResourcesMatchSessions, DaemonTypeOK, Kinds
  <2>4. PermitsMatchHolders'
    BY <2>1, <2>3 DEF ResourcesMatchSessions, PermitsMatchHolders, Kinds, Limit
  <2>5. DaemonTypeOK' /\ OthersStay(c)
    BY <2>1
    DEF ResourcesMatchSessions, DaemonTypeOK, OthersStay, Goto, Take, Stages,
        Preparing, Resources
  <2>6. held'[c] = held[c] \cup {"lease"} /\ stage'[c] = "leased"
    BY <2>1 DEF ResourcesMatchSessions, DaemonTypeOK, Goto, Take
  <2>7. StageHolds(c)'
    BY <1>0, <2>1, <2>6 DEF StageHolds, Scoped, Preparing
  <2> QED
    BY <2>2, <2>4, <2>5, <2>7, ClientStep
<1>2. CASE target[c] \in attached
  BY <1>0, <1>2, RejectKeeps DEF AcquireLease, Preparing
<1> QED
  BY <1>1, <1>2

(***************************************************************************)
(* The device is opened under the lease.                                   *)
(***************************************************************************)
LEMMA OpenDeviceKeeps ==
  ASSUME ResourcesMatchSessions, NEW c \in Clients, OpenDevice(c)
  PROVE  ResourcesMatchSessions'
<1>0. /\ Scoped(c) = {"console", "lease"} /\ closed[c] = None /\ stage[c] = "leased"
      /\ UNCHANGED <<limiter, attached, target, closed>>
  BY DEF ResourcesMatchSessions, OpenDevice, StageHolds
<1>1. CASE Take(c, "device") /\ Goto(c, "opened")
  <2>1. \A r \in Kinds \cup {"lease"} : Holders(r)' = Holders(r)
    BY <1>1 DEF Holders, Take, ResourcesMatchSessions, DaemonTypeOK, Kinds
  <2>2. PermitsMatchHolders' /\ LeasesMatchSessions'
    BY <1>0, <2>1, SameOwners DEF ResourcesMatchSessions
  <2>3. DaemonTypeOK' /\ OthersStay(c)
    BY <1>0, <1>1
    DEF ResourcesMatchSessions, DaemonTypeOK, OthersStay, Goto, Take, Stages,
        Preparing, Resources
  <2>4. held'[c] = held[c] \cup {"device"} /\ stage'[c] = "opened"
    BY <1>1 DEF ResourcesMatchSessions, DaemonTypeOK, Goto, Take
  <2>5. StageHolds(c)'
    BY <1>0, <2>4 DEF StageHolds, Scoped, Preparing
  <2> QED
    BY <2>2, <2>3, <2>5, ClientStep
<1>2. CASE Reject(c, "refused") /\ UNCHANGED held
  BY <1>0, <1>2, RejectKeeps DEF Preparing
<1> QED
  BY <1>1, <1>2 DEF OpenDevice

(***************************************************************************)
(* Values go out of scope one after the other, in either order of the      *)
(* code: the device always before the lease.                               *)
(***************************************************************************)
LEMMA DropNextKeeps ==
  ASSUME ResourcesMatchSessions, NEW c \in Clients,
         NEW order \in {RejectOrder, UpgradeOrder}, DropNext(c, order),
         stage[c] \in {"rejecting", "dropping"}, UNCHANGED <<stage, target, closed>>
  PROVE  ResourcesMatchSessions'
<1>1. PICK r \in Scoped(c) : /\ \A s \in Scoped(c) : order[r] <= order[s]
                             /\ Drop(c, r)
  BY DEF DropNext
<1>2. r \in held[c] /\ held'[c] = held[c] \ {r} /\ r \in Resources
  BY <1>1 DEF Scoped, Drop, Give, ResourcesMatchSessions, DaemonTypeOK
<1>3. r = "lease" => "device" \notin held[c]
  BY <1>1, <1>2, SMTT(60) DEF Scoped, RejectOrder, UpgradeOrder
<1>4. StageHolds(c)'
  BY <1>2, <1>3 DEF ResourcesMatchSessions, StageHolds, Scoped, Resources
<1>5. /\ Goto(c, stage[c]) /\ stage[c] \in Stages
      /\ closed' = [closed EXCEPT ![c] = closed[c]] /\ closed[c] \in Reasons \cup {None}
  BY DEF ResourcesMatchSessions, DaemonTypeOK, Goto
<1> QED
  BY <1>1, <1>2, <1>4, <1>5, DropStep

(***************************************************************************)
(* An error leaves prepare_upgrade.                                        *)
(***************************************************************************)
LEMMA RejectingKeeps ==
  ASSUME ResourcesMatchSessions, NEW c \in Clients, Rejecting(c)
  PROVE  ResourcesMatchSessions'
<1>1. CASE Scoped(c) # {}
  BY <1>1, DropNextKeeps DEF Rejecting
<1>2. CASE Scoped(c) = {}
  <2>1. PICK s \in {"answered", "none"} :
          /\ Goto(c, s) /\ ("connection" \in held[c] <=> s = "answered")
          /\ UNCHANGED <<limiter, attached, held, target, closed>>
    BY <1>2 DEF Rejecting
  <2>2. closed[c] = None /\ stage'[c] = s
    BY <2>1 DEF Rejecting, ResourcesMatchSessions, StageHolds, Goto, DaemonTypeOK
  <2>3. StageHolds(c)'
    BY <1>2, <2>1, <2>2, SMTT(60) DEF StageHolds, Scoped
  <2> QED
    BY <2>1, <2>3, MoveStep DEF Stages
<1> QED
  BY <1>1, <1>2

(***************************************************************************)
(* 101 is sent, or the prepared session is dropped for want of a reader.   *)
(***************************************************************************)
LEMMA AnswerUpgradeKeeps ==
  ASSUME ResourcesMatchSessions, NEW c \in Clients, AnswerUpgrade(c)
  PROVE  ResourcesMatchSessions'
<1>1. PICK s \in {"switching", "dropping"} :
        /\ Goto(c, s) /\ ("connection" \in held[c] <=> s = "switching")
        /\ UNCHANGED <<limiter, attached, held, target, closed>>
  BY DEF AnswerUpgrade
<1>2. /\ closed[c] = None /\ stage'[c] = s
      /\ Scoped(c) = {"console", "lease", "device"}
  BY <1>1 DEF AnswerUpgrade, ResourcesMatchSessions, StageHolds, Goto, DaemonTypeOK
<1>3. StageHolds(c)'
  BY <1>1, <1>2 DEF StageHolds, Scoped, Preparing
<1> QED
  BY <1>1, <1>3, MoveStep DEF Stages

(***************************************************************************)
(* hyper hands the socket over: the connection permit goes back, the       *)
(* session is served or dropped.                                           *)
(***************************************************************************)
LEMMA HandOverKeeps ==
  ASSUME ResourcesMatchSessions, NEW c \in Clients, HandOver(c)
  PROVE  ResourcesMatchSessions'
<1>1. PICK s \in {"replying", "dropping"} : Goto(c, s)
  BY DEF HandOver
<1>2. /\ stage[c] = "switching" /\ closed[c] = None
      /\ Scoped(c) = {"console", "lease", "device"}
      /\ "connection" \in held[c] /\ Drop(c, "connection") /\ UNCHANGED <<target, closed>>
  BY DEF HandOver, ResourcesMatchSessions, StageHolds
<1>3. /\ held'[c] = held[c] \ {"connection"} /\ stage'[c] = s
      /\ closed' = [closed EXCEPT ![c] = None]
  BY <1>1, <1>2 DEF ResourcesMatchSessions, DaemonTypeOK, Goto, Drop, Give
<1>4. StageHolds(c)'
  BY <1>1, <1>2, <1>3 DEF StageHolds, Scoped
<1> QED
  BY <1>1, <1>2, <1>3, <1>4, DropStep DEF Stages, Serving

(***************************************************************************)
(* The connection's task ends while the request is prepared or answered: a *)
(* blocking thread keeps what it owns and stays where it is.               *)
(***************************************************************************)
LEMMA ConnectionEndsKeeps ==
  ASSUME ResourcesMatchSessions, NEW c \in Clients, ConnectionEnds(c)
  PROVE  ResourcesMatchSessions'
<1> DEFINE s == CASE stage[c] \in {"request", "answered"} -> "none"
                  [] stage[c] = "switching" -> "dropping"
                  [] OTHER -> stage[c]
<1>1. /\ "connection" \in held[c] /\ Drop(c, "connection") /\ Goto(c, s)
      /\ UNCHANGED <<target, closed>>
  BY DEF ConnectionEnds
<1>2. /\ stage[c] \in {"request", "answered", "switching", "rejecting"} \cup Preparing
      /\ closed[c] = None
  BY <1>1 DEF ResourcesMatchSessions, StageHolds, Preparing
<1>3. /\ held'[c] = held[c] \ {"connection"} /\ stage'[c] = s /\ s \in Stages
      /\ closed' = [closed EXCEPT ![c] = None]
  BY <1>1, <1>2 DEF ResourcesMatchSessions, DaemonTypeOK, Goto, Drop, Give, Stages
<1>4. Scoped(c)' = Scoped(c) /\ closed'[c] = None /\ StageHolds(c)
  BY <1>1, <1>2, <1>3 DEF Scoped, ResourcesMatchSessions
<1>5. StageHolds(c)'
  <2>1. CASE stage[c] \in {"request", "answered", "switching"}
    BY <1>3, <1>4, <2>1 DEF StageHolds, Scoped
  <2>2. CASE stage[c] \in {"rejecting"} \cup Preparing
    <3>1. s = stage[c]
      BY <2>2 DEF Preparing
    <3> QED
      BY <1>3, <1>4, <2>2, <3>1 DEF StageHolds, Scoped, Preparing
  <2> QED
    BY <1>2, <2>1, <2>2
<1> QED
  BY <1>1, <1>3, <1>5, DropStep

(***************************************************************************)
(* `ConsoleSession::close` takes the device and keeps the lease for the    *)
(* step after it.                                                          *)
(***************************************************************************)
LEMMA CloseKeeps ==
  ASSUME ResourcesMatchSessions, NEW c \in Clients, NEW reason \in Reasons, NEW frame,
         stage[c] = "reading", Close(c, reason, frame), target' = target
  PROVE  ResourcesMatchSessions'
<1>1. /\ Scoped(c) = {"console", "lease", "device"} /\ "connection" \notin held[c]
      /\ Drop(c, "device") /\ Goto(c, "closing")
      /\ closed' = [closed EXCEPT ![c] = reason]
  BY DEF ResourcesMatchSessions, StageHolds, Close, Preparing
<1>2. /\ held'[c] = held[c] \ {"device"} /\ stage'[c] = "closing"
      /\ "device" \in held[c] /\ closed'[c] # None
  BY <1>1, ConsoleAssumption DEF ResourcesMatchSessions, DaemonTypeOK, Goto, Drop, Give, Scoped
<1>3. StageHolds(c)'
  BY <1>1, <1>2 DEF StageHolds, Scoped
<1> QED
  BY <1>1, <1>2, <1>3, DropStep DEF Stages, Serving

(***************************************************************************)
(* A frame is answered with the session left open.                         *)
(***************************************************************************)
LEMMA RespondKeeps ==
  ASSUME ResourcesMatchSessions, NEW c \in Clients, NEW s \in {"replying", "dropping"},
         stage[c] = "reading", Goto(c, s),
         UNCHANGED <<limiter, attached, held, target, closed>>
  PROVE  ResourcesMatchSessions'
<1>1. /\ Scoped(c) = {"console", "lease", "device"} /\ "connection" \notin held[c]
      /\ closed[c] = None /\ stage'[c] = s
  BY DEF ResourcesMatchSessions, StageHolds, Preparing, Goto, DaemonTypeOK
<1>2. StageHolds(c)'
  BY <1>1 DEF StageHolds, Scoped
<1> QED
  BY <1>2, MoveStep DEF Stages, Serving

(***************************************************************************)
(* The loop of serve_framed_console, whatever the frame and the device's   *)
(* answer, and its end of stream.                                          *)
(***************************************************************************)
LEMMA ServeKeeps ==
  ASSUME ResourcesMatchSessions, NEW c \in Clients, ServeFrame(c) \/ ServeEnd(c)
  PROVE  ResourcesMatchSessions'
<1>1. stage[c] = "reading" /\ target' = target
  BY DEF ServeFrame, ServeEnd
<1>2. \/ \E reason \in Reasons : \E frame : Close(c, reason, frame)
      \/ \E frame : Respond(c, frame)
      \/ Goto(c, "dropping") /\ UNCHANGED <<limiter, attached, held, closed>>
  <2>1. CASE ServeEnd(c)
    BY <2>1 DEF ServeEnd, Reasons
  <2>2. CASE ServeFrame(c)
    BY <2>2 DEF ServeFrame, ServeInput, ServeRead, Reasons
  <2> QED
    BY <2>1, <2>2
<1>3. CASE \E reason \in Reasons : \E frame : Close(c, reason, frame)
  BY <1>1, <1>3, CloseKeeps
<1>4. CASE \E frame : Respond(c, frame)
  BY <1>1, <1>4, RespondKeeps DEF Respond
<1>5. CASE Goto(c, "dropping") /\ UNCHANGED <<limiter, attached, held, closed>>
  BY <1>1, <1>5, RespondKeeps
<1> QED
  BY <1>2, <1>3, <1>4, <1>5

(***************************************************************************)
(* The second half of `close`: the lease goes back after the device.       *)
(***************************************************************************)
LEMMA CloseLeaseKeeps ==
  ASSUME ResourcesMatchSessions, NEW c \in Clients, CloseLease(c)
  PROVE  ResourcesMatchSessions'
<1>1. PICK s \in {"dropping", "replying"} : Goto(c, s) /\ (s = "dropping" <=> reply[c] = None)
  BY DEF CloseLease
<1>2. /\ Scoped(c) = {"console", "lease"} /\ "connection" \notin held[c]
      /\ Drop(c, "lease") /\ "lease" \in held[c] /\ UNCHANGED <<target, closed>>
  BY DEF CloseLease, ResourcesMatchSessions, StageHolds, Preparing, Scoped
<1>3. /\ held'[c] = held[c] \ {"lease"} /\ stage'[c] = s
      /\ closed' = [closed EXCEPT ![c] = closed[c]] /\ closed[c] \in Reasons \cup {None}
  BY <1>1, <1>2 DEF ResourcesMatchSessions, DaemonTypeOK, Goto, Drop, Give
<1>4. closed[c] # None
  BY DEF ResourcesMatchSessions, StageHolds, CloseLease
<1>5. StageHolds(c)'
  BY <1>1, <1>2, <1>3, <1>4 DEF StageHolds, Scoped
<1> QED
  BY <1>1, <1>2, <1>3, <1>5, DropStep DEF Stages, Serving

(***************************************************************************)
(* Writing a reply moves on to the next frame or to the end.               *)
(***************************************************************************)
LEMMA WriteFrameKeeps ==
  ASSUME ResourcesMatchSessions, NEW c \in Clients, WriteFrame(c)
  PROVE  ResourcesMatchSessions'
<1>1. PICK s \in {"reading", "dropping"} :
        Goto(c, s) /\ (s = "reading" => closed[c] = None)
  BY DEF WriteFrame
<1>2. /\ stage[c] = "replying" /\ "connection" \notin held[c] /\ StageHolds(c)
      /\ UNCHANGED <<limiter, attached, held, target, closed>> /\ stage'[c] = s
  BY <1>1
  DEF WriteFrame, ResourcesMatchSessions, StageHolds, Preparing, Goto, DaemonTypeOK
<1>3. StageHolds(c)'
  BY <1>1, <1>2 DEF StageHolds, Scoped
<1> QED
  BY <1>1, <1>2, <1>3, MoveStep DEF Stages, Serving

(***************************************************************************)
(* The closure of the upgrade ends: permit, device and lease go, and then  *)
(* the session itself.                                                     *)
(***************************************************************************)
LEMMA DroppingKeeps ==
  ASSUME ResourcesMatchSessions, NEW c \in Clients, Dropping(c)
  PROVE  ResourcesMatchSessions'
<1>1. CASE Scoped(c) # {}
  BY <1>1, DropNextKeeps DEF Dropping
<1>2. CASE Scoped(c) = {}
  <2>1. /\ Goto(c, "none") /\ closed' = [closed EXCEPT ![c] = None]
        /\ UNCHANGED <<limiter, attached, held, target>>
    BY <1>2 DEF Dropping
  <2>2. DaemonTypeOK' /\ OthersStay(c)
    BY <2>1 DEF ResourcesMatchSessions, DaemonTypeOK, OthersStay, Goto, Stages
  <2>3. PermitsMatchHolders' /\ LeasesMatchSessions'
    BY <2>1, SameOwners DEF ResourcesMatchSessions, Holders
  <2>4. "connection" \notin held[c] /\ "device" \notin held[c]
    BY <1>2 DEF Dropping, ResourcesMatchSessions, StageHolds, Preparing, Scoped
  <2>5. StageHolds(c)'
    BY <1>2, <2>1, <2>4 DEF StageHolds, Scoped, Goto, ResourcesMatchSessions, DaemonTypeOK
  <2> QED
    BY <2>2, <2>3, <2>5, ClientStep
<1> QED
  BY <1>1, <1>2

(***************************************************************************)
(* A connection still in the backlog owns nothing when the listener goes.  *)
(***************************************************************************)
LEMMA BacklogResetsKeeps ==
  ASSUME ResourcesMatchSessions, NEW c \in Clients, BacklogResets(c)
  PROVE  ResourcesMatchSessions'
<1>1. /\ stage[c] = "backlog" /\ Goto(c, "none")
      /\ UNCHANGED <<limiter, attached, held, target, closed>>
  BY DEF BacklogResets
<1>2. StageHolds(c)'
  BY <1>1 DEF Goto, StageHolds, Scoped, ResourcesMatchSessions, DaemonTypeOK, Preparing
<1> QED
  BY <1>1, <1>2, MoveStep DEF Stages

(***************************************************************************)
(* The gateway, the browsers and the daemon's life cycle own none of it.   *)
(***************************************************************************)
LEMMA OthersKeep ==
  ASSUME ResourcesMatchSessions, UNCHANGED daemonVars
  PROVE  ResourcesMatchSessions'
<1>1. UNCHANGED <<limiter, attached, stage, held, target, closed>>
  BY DEF daemonVars
<1>2. PermitsMatchHolders' /\ LeasesMatchSessions'
  BY <1>1, SameOwners DEF ResourcesMatchSessions, Holders
<1>3. DaemonTypeOK'
  BY <1>1 DEF ResourcesMatchSessions, DaemonTypeOK
<1>4. \A c \in Clients : StageHolds(c)'
  BY <1>1 DEF ResourcesMatchSessions, StageHolds, Scoped
<1> QED
  BY <1>2, <1>3, <1>4 DEF ResourcesMatchSessions

(***************************************************************************)
(* A freshly started daemon has lent nothing.                              *)
(***************************************************************************)
LEMMA InitMatches ==
  ASSUME Init
  PROVE  ResourcesMatchSessions
<1>1. DaemonTypeOK
  BY SMTT(60) DEF Init, DaemonTypeOK, Stages
<1>2. \A c \in Clients : StageHolds(c)
  BY DEF Init, StageHolds, Scoped
<1>3. \A r : Holders(r) = {}
  BY DEF Init, Holders
<1>4. PermitsMatchHolders
  <2>1. Limit("connection") >= 0 /\ Limit("console") >= 0
    BY ConsoleAssumption, SMTT(60) DEF Limit
  <2>2. Cardinality({}) = 0
    BY FS_EmptySet
  <2>3. limiter["connection"] = 0 /\ limiter["console"] = 0
    BY DEF Init
  <2> QED
    BY <1>3, <2>1, <2>2, <2>3 DEF PermitsMatchHolders
<1>5. LeasesMatchSessions
  BY <1>3 DEF Init, LeasesMatchSessions
<1> QED
  BY <1>1, <1>2, <1>4, <1>5 DEF ResourcesMatchSessions

(***************************************************************************)
(* Every step keeps the invariant.                                         *)
(***************************************************************************)
LEMMA StepMatches ==
  ASSUME ResourcesMatchSessions, [Next]_vars
  PROVE  ResourcesMatchSessions'
<1>1. ASSUME NEW c \in Clients, NEW i \in Instances, OpenConsole(c, i)
      PROVE  ResourcesMatchSessions'
  BY <1>1, OpenConsoleKeeps
<1>2. ASSUME NEW c \in Clients, PrepareStep(c)
      PROVE  ResourcesMatchSessions'
  BY <1>2, AcceptKeeps, ChecksKeep, AcquireConsoleKeeps, AcquireLeaseKeeps,
     OpenDeviceKeeps, RejectingKeeps DEF PrepareStep
<1>3. ASSUME NEW c \in Clients, ServeStep(c)
      PROVE  ResourcesMatchSessions'
  BY <1>3, AnswerUpgradeKeeps, HandOverKeeps, ServeKeeps, CloseLeaseKeeps,
     WriteFrameKeeps, DroppingKeeps DEF ServeStep
<1>4. ASSUME NEW c \in Clients, ConnectionEnds(c) \/ BacklogResets(c)
      PROVE  ResourcesMatchSessions'
  BY <1>4, ConnectionEndsKeeps, BacklogResetsKeeps
<1>5. ASSUME NEW c \in Clients,
             \/ \E m \in Requests : BridgeTakes(c, m)
             \/ BrowserLeaves(c) \/ HandshakeEnds(c) \/ GatewayStep(c)
      PROVE  UNCHANGED daemonVars
  BY <1>5 DEF BridgeTakes, BrowserLeaves, HandshakeEnds, GatewayStep, ReadAnswer,
     StartBridge, BridgeWrites, BridgeReads, BridgeEnds, HangUp
<1>6. Shutdown \/ Exit \/ Restart \/ UNCHANGED vars => UNCHANGED daemonVars
  BY DEF Shutdown, Exit, Restart, vars
<1> QED
  BY <1>1, <1>2, <1>3, <1>4, <1>5, <1>6, OthersKeep DEF Next

-----------------------------------------------------------------------------

(***************************************************************************)
(* Whatever mix of refusals, hang-ups, device errors and shutdowns ends    *)
(* the sessions, the counters of `ServiceLimiter` and the lease set of     *)
(* `ConsoleProxy` are exactly what live sessions own, and no limit is ever *)
(* exceeded.                                                               *)
(***************************************************************************)
THEOREM ResourcesMatch == Spec => []ResourcesMatchSessions
<1>1. Init => ResourcesMatchSessions
  BY InitMatches
<1>2. ResourcesMatchSessions /\ [Next]_vars => ResourcesMatchSessions'
  BY StepMatches
<1> QED
  BY <1>1, <1>2, PTL DEF Spec, Safety

(***************************************************************************)
(* Two open MKTTY devices are never selected to one instance: a device is  *)
(* only ever open under a lease, and leases are exclusive.                 *)
(***************************************************************************)
THEOREM OneReader == Spec => []OneReaderPerInstance
<1>1. ResourcesMatchSessions => OneReaderPerInstance
  <2> SUFFICES ASSUME ResourcesMatchSessions, NEW c \in Holders("device"),
                      NEW d \in Holders("device"), target[c] = target[d]
               PROVE  c = d
    BY DEF OneReaderPerInstance
  <2>1. c \in Holders("lease") /\ d \in Holders("lease")
    BY DEF ResourcesMatchSessions, StageHolds, Holders
  <2> QED
    BY <2>1 DEF ResourcesMatchSessions, LeasesMatchSessions
<1> QED
  BY <1>1, ResourcesMatch, PTL

-----------------------------------------------------------------------------
(* Request and reply streams.                                              *)

\* Gateway, browser and the two ends of the socket.
LinkInv(c) ==
  /\ gate[c] = "idle" <=> "gateway" \notin ends[c]
  /\ gate[c] = "idle" <=> browser[c] = "away"
  /\ gate[c] # "bridging" => carry[c] = None /\ asked[c] = <<>> /\ unacked[c] = 0
  /\ gate[c] \in {"connecting", "switched"} => up[c] = <<>>
  /\ "daemon" \notin ends[c] => up[c] = <<>>
  /\ ends[c] = {} => down[c] = <<>>

\* Stages before anything has been written to the gateway.
Early == {"backlog", "request", "rejecting"} \cup Preparing

\* Which stages have the daemon's end of the socket, and a reply to write.
ServiceInv(c) ==
  /\ stage[c] = "none" => "daemon" \notin ends[c]
  /\ stage[c] \in {"backlog", "request", "answered", "switching"} \cup Serving =>
       "daemon" \in ends[c]
  /\ stage[c] \in Preparing \cup {"rejecting"} =>
       ("daemon" \in ends[c] <=> "connection" \in held[c])
  /\ stage[c] \notin {"rejecting", "closing", "replying"} => reply[c] = None
  /\ stage[c] = "rejecting" => reply[c] \in {"conflict", "refused"}
  /\ stage[c] = "replying" => reply[c] \in Frames
  /\ stage[c] = "closing" => reply[c] \in (Frames \ {"attachment"}) \cup {None}
  /\ stage[c] \in Early => down[c] = <<>>

\* What a gateway that is not bridging yet finds in the socket: the daemon's
\* answer, and after 101 at most the attachment.
HandshakeInv(c) ==
  /\ gate[c] = "connecting" =>
       /\ stage[c] # "closing"
       /\ down[c] # <<>> /\ Head(down[c]) = "switching_protocols" =>
            Written(c) \in {<<"switching_protocols">>,
                            <<"switching_protocols", "attachment">>}
       /\ stage[c] = "answered" => down[c] # <<>> /\ Head(down[c]) # "switching_protocols"
       /\ stage[c] = "switching" => down[c] = <<"switching_protocols">>
       /\ stage[c] = "replying" =>
            down[c] = <<"switching_protocols">> /\ reply[c] = "attachment"
  /\ gate[c] = "switched" =>
       /\ stage[c] \in {"switching", "replying", "reading", "dropping", "none"}
       /\ Written(c) \in {<<>>, <<"attachment">>}
  /\ gate[c] = "bridging" =>
       stage[c] \in {"switching", "dropping", "none"} \cup Serving
  /\ gate[c] \in {"switched", "bridging"} /\ stage[c] = "switching" => down[c] = <<>>

\* The two streams while the bridge runs.
AlignInv(c) ==
  gate[c] = "bridging" =>
    /\ Answer(InFlight(c), asked[c])
    /\ ("daemon" \in ends[c] /\ stage[c] # "dropping") =>
         Await(Unserved(c), InFlight(c), asked[c])
    /\ unacked[c] = Cardinality(InputAcks(InFlight(c), asked[c]))

StreamRow(c) == LinkInv(c) /\ ServiceInv(c) /\ HandshakeInv(c) /\ AlignInv(c)

StreamInv == StreamTypeOK /\ \A c \in Clients : StreamRow(c)

(***************************************************************************)
(* Streams as such.  The browser sends one more request: it waits.         *)
(***************************************************************************)
LEMMA SendKeepsStreams ==
  ASSUME NEW F \in Seq(Frames \cup Answers), NEW A \in Seq(Requests),
         NEW U \in Seq(Requests), NEW m \in Requests, Answer(F, A)
  PROVE  /\ Answer(F, Append(A, m))
         /\ Await(U, F, A) => Await(Append(U, m), F, Append(A, m))
         /\ InputAcks(F, Append(A, m)) = InputAcks(F, A)
<1>1. /\ Len(F) \in Nat /\ Len(A) \in Nat /\ Len(F) <= Len(A)
      /\ Len(Append(A, m)) = Len(A) + 1
      /\ \A k \in 1..Len(A) : Append(A, m)[k] = A[k]
      /\ Append(A, m)[Len(A) + 1] = m
  BY SMTT(60) DEF Answer
<1>2. \A k \in 1..Len(F) : Append(A, m)[k] = A[k]
  BY <1>1, SMTT(60)
<1>3. Answer(F, Append(A, m))
  BY <1>1, <1>2, SMTT(60) DEF Answer
<1>4. InputAcks(F, Append(A, m)) = InputAcks(F, A)
  BY <1>2 DEF InputAcks
<1>5. ASSUME Await(U, F, A)
      PROVE  Await(Append(U, m), F, Append(A, m))
  <2>1. /\ Len(U) \in Nat /\ Len(Append(U, m)) = Len(U) + 1
        /\ \A k \in 1..Len(U) : Append(U, m)[k] = U[k]
        /\ Append(U, m)[Len(U) + 1] = m
    BY SMTT(60)
  <2>2. Len(A) = Len(F) + Len(U) /\ \A k \in 1..Len(U) : A[Len(F) + k] = U[k]
    BY <1>5 DEF Await
  <2>3. ASSUME NEW k \in 1..(Len(U) + 1)
        PROVE  Append(A, m)[Len(F) + k] = Append(U, m)[k]
    <3>1. CASE k \in 1..Len(U)
      <4>1. Len(F) + k \in 1..Len(A)
        BY <1>1, <2>1, <2>2, <3>1, SMTT(60)
      <4> QED
        BY <1>1, <2>1, <2>2, <3>1, <4>1
    <3>2. CASE k = Len(U) + 1
      BY <1>1, <2>1, <2>2, <3>2, SMTT(60)
    <3>3. k \in 1..Len(U) \/ k = Len(U) + 1
      BY <2>1, SMTT(60)
    <3> QED
      BY <3>1, <3>2, <3>3
  <2>4. Len(A) + 1 = Len(F) + (Len(U) + 1)
    BY <1>1, <2>1, <2>2, SMTT(60)
  <2>5. \A k \in 1..Len(Append(U, m)) : Append(A, m)[Len(F) + k] = Append(U, m)[k]
    BY <2>1, <2>3
  <2>6. Len(Append(A, m)) = Len(F) + Len(Append(U, m))
    BY <1>1, <2>1, <2>4
  <2> QED
    BY <2>5, <2>6 DEF Await
<1> QED
  BY <1>3, <1>4, <1>5

(***************************************************************************)
(* The daemon takes the oldest waiting request and answers it.             *)
(***************************************************************************)
LEMMA ServeKeepsStreams ==
  ASSUME NEW F \in Seq(Frames \cup Answers), NEW A \in Seq(Requests),
         NEW U \in Seq(Requests), Answer(F, A), Await(U, F, A), U # <<>>,
         NEW f \in RepliesTo(Head(U)), f \in Frames
  PROVE  /\ Answer(Append(F, f), A)
         /\ Await(Tail(U), Append(F, f), A)
         /\ InputAcks(Append(F, f), A) =
              InputAcks(F, A) \cup (IF f = "ack" /\ Head(U) = "input" THEN {Len(F) + 1} ELSE {})
<1>1. /\ Len(F) \in Nat /\ Len(A) \in Nat /\ Len(U) \in Nat /\ Len(U) >= 1
      /\ Len(Append(F, f)) = Len(F) + 1
      /\ \A k \in 1..Len(F) : Append(F, f)[k] = F[k]
      /\ Append(F, f)[Len(F) + 1] = f
      /\ Head(U) = U[1] /\ Len(Tail(U)) = Len(U) - 1
      /\ \A k \in 1..(Len(U) - 1) : Tail(U)[k] = U[k + 1]
  BY SMTT(60)
<1>2. Len(A) = Len(F) + Len(U) /\ \A k \in 1..Len(U) : A[Len(F) + k] = U[k]
  BY DEF Await
<1>3. A[Len(F) + 1] = Head(U)
  BY <1>1, <1>2, SMTT(60)
<1>4. \A k \in 1..(Len(F) + 1) : k \in 1..Len(F) \/ k = Len(F) + 1
  BY <1>1, SMTT(60)
<1>5. Answer(Append(F, f), A)
  BY <1>1, <1>2, <1>3, <1>4, SMTT(60) DEF Answer
<1>6. ASSUME NEW k \in 1..(Len(U) - 1)
      PROVE  A[(Len(F) + 1) + k] = Tail(U)[k]
  <2>1. k + 1 \in 1..Len(U) /\ (Len(F) + 1) + k = Len(F) + (k + 1)
    BY <1>1, SMTT(60)
  <2> QED
    BY <1>1, <1>2, <2>1
<1>7. Await(Tail(U), Append(F, f), A)
  BY <1>1, <1>2, <1>6, SMTT(60) DEF Await
<1>8. InputAcks(Append(F, f), A) =
        InputAcks(F, A) \cup (IF f = "ack" /\ Head(U) = "input" THEN {Len(F) + 1} ELSE {})
  BY <1>1, <1>3, <1>4, SMTT(60) DEF InputAcks
<1> QED
  BY <1>5, <1>7, <1>8

(***************************************************************************)
(* Leaving out the first of n positions removes one element if it was in.  *)
(***************************************************************************)
LEMMA ShiftCardinality ==
  ASSUME NEW n \in Nat, NEW S \in SUBSET (1..n), NEW T,
         T = {k \in 1..(n - 1) : k + 1 \in S}
  PROVE  /\ Cardinality(S) \in Nat /\ Cardinality(T) \in Nat
         /\ Cardinality(T) = IF 1 \in S THEN Cardinality(S) - 1 ELSE Cardinality(S)
<1>1. IsFiniteSet(S) /\ IsFiniteSet(T)
  <2>1. IsFiniteSet(1..n) /\ IsFiniteSet(1..(n - 1))
    BY FS_Interval, SMTT(60)
  <2> QED
    BY <2>1, FS_Subset
<1> DEFINE R == S \ {1}
           shift == [k \in T |-> k + 1]
<1>2. shift \in Bijection(T, R)
  <2>1. \A k \in T : k + 1 \in R
    BY SMTT(60)
  <2>2. shift \in [T -> R]
    BY <2>1
  <2>3. \A j, k \in T : shift[j] = shift[k] => j = k
    BY SMTT(60)
  <2>4. ASSUME NEW r \in R
        PROVE  r - 1 \in T /\ shift[r - 1] = r
    BY SMTT(60)
  <2> HIDE DEF shift
  <2>5. \A r \in R : \E k \in T : shift[k] = r
    BY <2>4
  <2> QED
    BY <2>2, <2>3, <2>5 DEF Bijection, Injection, Surjection, IsInjective
<1>3. IsFiniteSet(R)
  BY <1>1, FS_Subset
<1>4. Cardinality(T) = Cardinality(R)
  BY <1>1, <1>2, FS_Bijection, SMTT(60) DEF ExistsBijection
<1>5. Cardinality(S) \in Nat /\ Cardinality(T) \in Nat
  BY <1>1, FS_CardinalityType
<1>6. Cardinality(R) = IF 1 \in S THEN Cardinality(S) - 1 ELSE Cardinality(S)
  BY <1>1, FS_RemoveElement
<1> QED
  BY <1>4, <1>5, <1>6

(***************************************************************************)
(* The browser gets the oldest reply: its request is answered.             *)
(***************************************************************************)
LEMMA ReadKeepsStreams ==
  ASSUME NEW F \in Seq(Frames \cup Answers), NEW A \in Seq(Requests),
         NEW U \in Seq(Requests), Answer(F, A), F # <<>>
  PROVE  /\ Answer(Tail(F), Tail(A)) /\ A # <<>>
         /\ Await(U, F, A) => Await(U, Tail(F), Tail(A))
         /\ Cardinality(InputAcks(F, A)) \in Nat
         /\ Cardinality(InputAcks(Tail(F), Tail(A))) \in Nat
         /\ Cardinality(InputAcks(Tail(F), Tail(A))) =
              IF Head(F) = "ack" /\ Head(A) = "input"
              THEN Cardinality(InputAcks(F, A)) - 1 ELSE Cardinality(InputAcks(F, A))
<1>1. /\ Len(F) \in Nat /\ Len(A) \in Nat /\ Len(U) \in Nat
      /\ Len(F) >= 1 /\ Len(F) <= Len(A)
      /\ \A k \in 1..Len(F) : F[k] \in RepliesTo(A[k])
  BY SMTT(60) DEF Answer
<1>2. A # <<>>
  BY <1>1, SMTT(60)
<1>3. /\ Len(Tail(F)) = Len(F) - 1 /\ Len(Tail(A)) = Len(A) - 1
      /\ \A k \in 1..(Len(F) - 1) : Tail(F)[k] = F[k + 1]
      /\ \A k \in 1..(Len(A) - 1) : Tail(A)[k] = A[k + 1]
      /\ Head(F) = F[1] /\ Head(A) = A[1]
  BY <1>1, <1>2, SMTT(60)
<1>4. \A k \in 1..(Len(F) - 1) : /\ k + 1 \in 1..Len(F) /\ k \in 1..(Len(A) - 1)
                                 /\ Tail(F)[k] = F[k + 1] /\ Tail(A)[k] = A[k + 1]
  BY <1>1, <1>3, SMTT(60)
<1>5. Answer(Tail(F), Tail(A))
  BY <1>1, <1>3, <1>4, SMTT(60) DEF Answer
<1>6. ASSUME Await(U, F, A)
      PROVE  Await(U, Tail(F), Tail(A))
  <2>1. Len(A) = Len(F) + Len(U) /\ \A k \in 1..Len(U) : A[Len(F) + k] = U[k]
    BY <1>6 DEF Await
  <2>2. ASSUME NEW k \in 1..Len(U)
        PROVE  Tail(A)[(Len(F) - 1) + k] = U[k]
    <3>1. /\ (Len(F) - 1) + k \in 1..(Len(A) - 1)
          /\ ((Len(F) - 1) + k) + 1 = Len(F) + k
      BY <1>1, <2>1, SMTT(60)
    <3> QED
      BY <1>3, <2>1, <3>1
  <2> QED
    BY <1>1, <1>3, <2>1, <2>2, SMTT(60) DEF Await
<1>7. InputAcks(F, A) \in SUBSET (1..Len(F))
  BY DEF InputAcks
<1>8. InputAcks(Tail(F), Tail(A)) = {k \in 1..(Len(F) - 1) : k + 1 \in InputAcks(F, A)}
  BY <1>3, <1>4 DEF InputAcks
<1>9. 1 \in InputAcks(F, A) <=> Head(F) = "ack" /\ Head(A) = "input"
  BY <1>1, <1>3, SMTT(60) DEF InputAcks
<1>10. /\ Cardinality(InputAcks(F, A)) \in Nat
       /\ Cardinality(InputAcks(Tail(F), Tail(A))) \in Nat
       /\ Cardinality(InputAcks(Tail(F), Tail(A))) =
            IF 1 \in InputAcks(F, A) THEN Cardinality(InputAcks(F, A)) - 1
                                     ELSE Cardinality(InputAcks(F, A))
  <2> DEFINE n == Len(F)
             S == InputAcks(F, A)
             T == InputAcks(Tail(F), Tail(A))
  <2>1. n \in Nat /\ S \in SUBSET (1..n) /\ T = {k \in 1..(n - 1) : k + 1 \in S}
    BY <1>1, <1>7, <1>8
  <2> HIDE DEF n, S, T
  <2>2. /\ Cardinality(S) \in Nat /\ Cardinality(T) \in Nat
        /\ Cardinality(T) = IF 1 \in S THEN Cardinality(S) - 1 ELSE Cardinality(S)
    BY <2>1, ShiftCardinality
  <2> QED
    BY <2>2 DEF S, T
<1> QED
  BY <1>2, <1>5, <1>6, <1>9, <1>10

-----------------------------------------------------------------------------

\* A step for client c leaves the session of every other client alone.
OthersFlow(c) ==
  \A d \in Clients \ {c} :
    /\ stage'[d] = stage[d] /\ held'[d] = held[d] /\ reply'[d] = reply[d]
    /\ ends'[d] = ends[d] /\ up'[d] = up[d] /\ down'[d] = down[d]
    /\ gate'[d] = gate[d] /\ carry'[d] = carry[d] /\ browser'[d] = browser[d]
    /\ asked'[d] = asked[d] /\ unacked'[d] = unacked[d]

(***************************************************************************)
(* So a step has to be examined for its own client only.                   *)
(***************************************************************************)
LEMMA RowStep ==
  ASSUME StreamInv, NEW c \in Clients, OthersFlow(c), StreamTypeOK', StreamRow(c)'
  PROVE  StreamInv'
<1>1. ASSUME NEW d \in Clients \ {c}
      PROVE  StreamRow(d)'
  <2>1. /\ stage'[d] = stage[d] /\ held'[d] = held[d] /\ reply'[d] = reply[d]
        /\ ends'[d] = ends[d] /\ up'[d] = up[d] /\ down'[d] = down[d]
        /\ gate'[d] = gate[d] /\ carry'[d] = carry[d] /\ browser'[d] = browser[d]
        /\ asked'[d] = asked[d] /\ unacked'[d] = unacked[d]
    BY DEF OthersFlow
  <2>2. LinkInv(d) /\ ServiceInv(d) /\ HandshakeInv(d) /\ AlignInv(d)
    BY DEF StreamInv, StreamRow
  <2>3. LinkInv(d)'
    BY <2>1, <2>2 DEF LinkInv
  <2>4. ServiceInv(d)'
    BY <2>1, <2>2 DEF ServiceInv
  <2>5. Written(d)' = Written(d) /\ Unserved(d)' = Unserved(d)
    BY <2>1 DEF Written, Unserved
  <2>6. InFlight(d)' = InFlight(d)
    BY <2>5 DEF InFlight
  <2>7. HandshakeInv(d)'
    BY <2>1, <2>2, <2>5 DEF HandshakeInv
  <2>8. AlignInv(d)'
    BY <2>1, <2>2, <2>5, <2>6 DEF AlignInv
  <2> QED
    BY <2>3, <2>4, <2>7, <2>8 DEF StreamRow
<1> QED
  BY <1>1 DEF StreamInv

(***************************************************************************)
(* The streams of a client are sequences of frames and of requests.        *)
(***************************************************************************)
LEMMA StreamTypes ==
  ASSUME StreamTypeOK, NEW c \in Clients
  PROVE  /\ Written(c) \in Seq(Frames \cup Answers)
         /\ InFlight(c) \in Seq(Frames \cup Answers)
         /\ Unserved(c) \in Seq(Requests)
<1>1. /\ down[c] \in Seq(Frames \cup Answers) /\ up[c] \in Seq(Requests)
      /\ reply[c] # None => reply[c] \in Frames \cup Answers
      /\ carry[c] # None => carry[c] \in Requests
  BY DEF StreamTypeOK
<1>2. Written(c) \in Seq(Frames \cup Answers) /\ Unserved(c) \in Seq(Requests)
  BY <1>1, SMTT(60) DEF Written, Unserved
<1>3. InFlight(c) \in Seq(Frames \cup Answers)
  BY <1>2, SMTT(60) DEF InFlight
<1> QED
  BY <1>2, <1>3

(***************************************************************************)
(* Reading from one end of a queue and writing to the other commute.       *)
(***************************************************************************)
LEMMA TailOfAppend ==
  ASSUME NEW S, NEW s \in Seq(S), NEW x \in S, s # <<>>
  PROVE  Tail(Append(s, x)) = Append(Tail(s), x) /\ Head(Append(s, x)) = Head(s)
BY SMTT(60)

(***************************************************************************)
(* The gateway reads the oldest of what the daemon has written.            *)
(***************************************************************************)
LEMMA ReadAdvances ==
  ASSUME StreamTypeOK, NEW c \in Clients, down[c] # <<>>,
         down'[c] = Tail(down[c]), reply' = reply
  PROVE  /\ Written(c)' = Tail(Written(c))
         /\ Written(c) # <<>> /\ Head(Written(c)) = Head(down[c])
<1>1. /\ down[c] \in Seq(Frames \cup Answers)
      /\ reply[c] # None => reply[c] \in Frames \cup Answers
  BY DEF StreamTypeOK
<1>2. Written(c)' = IF reply[c] = None THEN Tail(down[c])
                                       ELSE Append(Tail(down[c]), reply[c])
  BY DEF Written
<1>3. CASE reply[c] = None
  BY <1>2, <1>3 DEF Written
<1>4. CASE reply[c] # None
  <2>1. /\ Tail(Append(down[c], reply[c])) = Append(Tail(down[c]), reply[c])
        /\ Head(Append(down[c], reply[c])) = Head(down[c])
        /\ Append(down[c], reply[c]) # <<>>
    BY <1>1, <1>4, TailOfAppend, SMTT(60)
  <2> QED
    BY <1>2, <1>4, <2>1 DEF Written
<1> QED
  BY <1>3, <1>4

(***************************************************************************)
(* A step that changes neither stream keeps them aligned.                  *)
(***************************************************************************)
LEMMA AlignStays ==
  ASSUME NEW c \in Clients, AlignInv(c), gate'[c] = gate[c],
         Written(c)' = Written(c), Unserved(c)' = Unserved(c),
         asked'[c] = asked[c], unacked'[c] = unacked[c],
         "daemon" \in ends'[c] /\ stage'[c] # "dropping" =>
           "daemon" \in ends[c] /\ stage[c] # "dropping"
  PROVE  AlignInv(c)'
<1>1. InFlight(c)' = InFlight(c)
  BY DEF InFlight
<1> QED
  BY <1>1 DEF AlignInv

(***************************************************************************)
(* The gateway's task ends: what matters of the streams ends with it.      *)
(***************************************************************************)
LEMMA HangUpFlows ==
  ASSUME ResourcesMatchSessions, StreamInv, NEW c \in Clients, HangUp(c)
  PROVE  StreamInv'
<1>1. /\ gate'[c] = "idle" /\ carry'[c] = None /\ browser'[c] = "away"
      /\ asked'[c] = <<>> /\ unacked'[c] = 0
      /\ ends'[c] = ends[c] \ {"gateway"} /\ up' = up
      /\ down'[c] \in {down[c], <<>>} /\ (ends'[c] = {} => down'[c] = <<>>)
      /\ UNCHANGED <<stage, held, reply>>
  BY DEF StreamInv, StreamTypeOK, HangUp, CloseEnd, daemonVars
<1>2. OthersFlow(c)
  BY DEF StreamInv, StreamTypeOK, HangUp, CloseEnd, OthersFlow, daemonVars
<1>3. StreamTypeOK'
  <2>1. down' \in [Clients -> Seq(Frames \cup Answers)]
    BY SMTT(60) DEF StreamInv, StreamTypeOK, HangUp, CloseEnd
  <2>2. asked' \in [Clients -> Seq(Requests)]
    BY SMTT(60) DEF StreamInv, StreamTypeOK, HangUp
  <2>3. \A d \in Clients : Len(down'[d]) <= Capacity
    BY ConsoleAssumption, SMTT(60) DEF StreamInv, StreamTypeOK, HangUp, CloseEnd
  <2>4. /\ gate' \in [Clients -> {"idle", "connecting", "switched", "bridging"}]
        /\ carry' \in [Clients -> Requests \cup {None}]
        /\ browser' \in [Clients -> {"away", "here", "left"}]
        /\ unacked' \in [Clients -> Nat]
        /\ ends' \in [Clients -> SUBSET {"gateway", "daemon"}]
    BY DEF StreamInv, StreamTypeOK, HangUp, CloseEnd
  <2> QED
    BY <1>1, <2>1, <2>2, <2>3, <2>4 DEF StreamInv, StreamTypeOK
<1>4. LinkInv(c) /\ ServiceInv(c)
  BY DEF StreamInv, StreamRow
<1>5. LinkInv(c)'
  BY <1>1, <1>4 DEF LinkInv
<1>6. ServiceInv(c)'
  BY <1>1, <1>4 DEF ServiceInv
<1>7. HandshakeInv(c)' /\ AlignInv(c)'
  BY <1>1 DEF HandshakeInv, AlignInv
<1> QED
  BY <1>2, <1>3, <1>5, <1>6, <1>7, RowStep DEF StreamRow

(***************************************************************************)
(* A browser opens a console: the socket is new, so both streams are       *)
(* empty.                                                                  *)
(***************************************************************************)
LEMMA OpenConsoleFlows ==
  ASSUME ResourcesMatchSessions, StreamInv, NEW c \in Clients, NEW i \in Instances,
         OpenConsole(c, i)
  PROVE  StreamInv'
<1>1. /\ browser[c] = "away" /\ stage[c] = "none"
      /\ browser'[c] = "here" /\ gate'[c] = "connecting" /\ stage'[c] = "backlog"
      /\ ends'[c] = {"gateway", "daemon"}
      /\ UNCHANGED <<held, reply, up, down, carry, asked, unacked>>
  BY DEF StreamInv, StreamTypeOK, OpenConsole, Goto, ResourcesMatchSessions, DaemonTypeOK
<1>2. OthersFlow(c)
  BY DEF StreamInv, StreamTypeOK, OpenConsole, Goto, OthersFlow, ResourcesMatchSessions,
         DaemonTypeOK
<1>3. StreamTypeOK'
  <2>1. /\ gate' \in [Clients -> {"idle", "connecting", "switched", "bridging"}]
        /\ browser' \in [Clients -> {"away", "here", "left"}]
        /\ ends' \in [Clients -> SUBSET {"gateway", "daemon"}]
    BY DEF StreamInv, StreamTypeOK, OpenConsole
  <2> QED
    BY <1>1, <2>1 DEF StreamInv, StreamTypeOK
<1>4. LinkInv(c) /\ ServiceInv(c) /\ ends[c] \subseteq {"gateway", "daemon"}
  BY DEF StreamInv, StreamRow, StreamTypeOK
<1>5. /\ ends[c] = {} /\ up[c] = <<>> /\ down[c] = <<>> /\ gate[c] = "idle"
      /\ carry[c] = None /\ asked[c] = <<>> /\ unacked[c] = 0 /\ reply[c] = None
  BY <1>1, <1>4 DEF LinkInv, ServiceInv
<1>6. LinkInv(c)'
  BY <1>1, <1>5 DEF LinkInv
<1>7. ServiceInv(c)'
  BY <1>1, <1>5 DEF ServiceInv, Preparing, Serving
<1>8. HandshakeInv(c)' /\ AlignInv(c)'
  BY <1>1, <1>5 DEF HandshakeInv, AlignInv
<1> QED
  BY <1>2, <1>3, <1>6, <1>7, <1>8, RowStep DEF StreamRow

(***************************************************************************)
(* A browser that leaves is only noticed later.                            *)
(***************************************************************************)
LEMMA BrowserLeavesFlows ==
  ASSUME StreamInv, NEW c \in Clients, BrowserLeaves(c)
  PROVE  StreamInv'
<1>1. /\ browser[c] = "here" /\ browser'[c] = "left"
      /\ browser' \in [Clients -> {"away", "here", "left"}]
      /\ UNCHANGED <<stage, held, reply, ends, up, down, gate, carry, asked, unacked>>
  BY DEF StreamInv, StreamTypeOK, BrowserLeaves, daemonVars, socketVars
<1>2. OthersFlow(c)
  BY <1>1 DEF StreamInv, StreamTypeOK, BrowserLeaves, OthersFlow
<1>3. StreamTypeOK'
  BY <1>1 DEF StreamInv, StreamTypeOK
<1>4. LinkInv(c) /\ ServiceInv(c) /\ HandshakeInv(c) /\ AlignInv(c)
  BY DEF StreamInv, StreamRow
<1>5. LinkInv(c)' /\ ServiceInv(c)'
  BY <1>1, <1>4 DEF LinkInv, ServiceInv
<1>6. Written(c)' = Written(c) /\ Unserved(c)' = Unserved(c)
  BY <1>1 DEF Written, Unserved
<1>7. HandshakeInv(c)'
  BY <1>1, <1>4, <1>6 DEF HandshakeInv
<1>8. AlignInv(c)'
  BY <1>1, <1>4, <1>6, AlignStays
<1> QED
  BY <1>2, <1>3, <1>5, <1>7, <1>8, RowStep DEF StreamRow

(***************************************************************************)
(* `connect_daemon` takes the answer out of the stream: after 101 only the *)
(* attachment can follow, because nothing has been sent to the daemon.     *)
(***************************************************************************)
LEMMA ReadAnswerFlows ==
  ASSUME ResourcesMatchSessions, StreamInv, NEW c \in Clients, ReadAnswer(c)
  PROVE  StreamInv'
<1>1. CASE HangUp(c)
  BY <1>1, HangUpFlows
<1>2. CASE ~HangUp(c)
  <2>1. /\ gate[c] = "connecting" /\ down[c] # <<>>
        /\ Head(down[c]) = "switching_protocols"
        /\ gate' = [gate EXCEPT ![c] = "switched"]
        /\ down' = [down EXCEPT ![c] = Tail(@)]
        /\ UNCHANGED <<stage, held, reply, ends, up, carry, browser, asked, unacked>>
    BY <1>2 DEF ReadAnswer, daemonVars
  <2>2. /\ gate'[c] = "switched" /\ down'[c] = Tail(down[c])
        /\ down[c] \in Seq(Frames \cup Answers) /\ Len(down[c]) <= Capacity
        /\ reply[c] \in Frames \cup Answers \cup {None}
    BY <2>1 DEF StreamInv, StreamTypeOK
  <2>3. OthersFlow(c)
    BY <2>1 DEF StreamInv, StreamTypeOK, OthersFlow
  <2>4. StreamTypeOK'
    <3>1. Tail(down[c]) \in Seq(Frames \cup Answers) /\ Len(Tail(down[c])) <= Capacity
      BY <2>1, <2>2, ConsoleAssumption, SMTT(60)
    <3>2. /\ down' \in [Clients -> Seq(Frames \cup Answers)]
          /\ \A d \in Clients : Len(down'[d]) <= Capacity
          /\ gate' \in [Clients -> {"idle", "connecting", "switched", "bridging"}]
      BY <2>1, <3>1 DEF StreamInv, StreamTypeOK
    <3> QED
      BY <2>1, <3>2 DEF StreamInv, StreamTypeOK
  <2>5. LinkInv(c) /\ ServiceInv(c) /\ HandshakeInv(c) /\ stage[c] \in Stages
    BY DEF StreamInv, StreamRow, ResourcesMatchSessions, DaemonTypeOK
  <2>6. /\ Written(c) \in {<<"switching_protocols">>, <<"switching_protocols", "attachment">>}
        /\ stage[c] \notin Early \cup {"closing", "answered"}
        /\ stage[c] = "switching" => down[c] = <<"switching_protocols">>
    BY <2>1, <2>5 DEF HandshakeInv, ServiceInv
  <2>7. Written(c)' = Tail(Written(c))
    BY <2>1, <2>2, ReadAdvances DEF StreamInv
  <2>8. Written(c)' \in {<<>>, <<"attachment">>}
    <3>1. /\ Tail(<<"switching_protocols">>) = <<>>
          /\ Tail(<<"switching_protocols", "attachment">>) = <<"attachment">>
      BY SMTT(60)
    <3> QED
      BY <2>6, <2>7, <3>1
  <2>9. stage[c] \in {"switching", "replying", "reading", "dropping", "none"}
    BY <2>5, <2>6 DEF Stages, Early, Serving
  <2>10. stage[c] = "switching" => down'[c] = <<>>
    <3>1. Tail(<<"switching_protocols">>) = <<>>
      BY SMTT(60)
    <3> QED
      BY <2>2, <2>6, <3>1
  <2>11. LinkInv(c)' /\ ServiceInv(c)'
    BY <2>1, <2>2, <2>5, <2>6 DEF LinkInv, ServiceInv
  <2>12. HandshakeInv(c)' /\ AlignInv(c)'
    BY <2>1, <2>2, <2>8, <2>9, <2>10, SMTT(60) DEF HandshakeInv, AlignInv
  <2> QED
    BY <2>3, <2>4, <2>11, <2>12, RowStep DEF StreamRow
<1> QED
  BY <1>1, <1>2

(***************************************************************************)
(* The bridge starts with nothing asked and at most the attachment under   *)
(* way: the streams start aligned.                                         *)
(***************************************************************************)
LEMMA StartBridgeFlows ==
  ASSUME ResourcesMatchSessions, StreamInv, NEW c \in Clients, StartBridge(c)
  PROVE  StreamInv'
<1>1. CASE HangUp(c)
  BY <1>1, HangUpFlows
<1>2. CASE ~HangUp(c)
  <2>1. /\ gate[c] = "switched" /\ browser[c] = "here"
        /\ gate' = [gate EXCEPT ![c] = "bridging"]
        /\ UNCHANGED <<stage, held, reply, ends, up, down, carry, browser, asked, unacked>>
    BY <1>2 DEF StartBridge, daemonVars, socketVars
  <2>2. /\ gate'[c] = "bridging"
        /\ gate' \in [Clients -> {"idle", "connecting", "switched", "bridging"}]
    BY <2>1 DEF StreamInv, StreamTypeOK
  <2>3. OthersFlow(c)
    BY <2>1 DEF StreamInv, StreamTypeOK, OthersFlow
  <2>4. StreamTypeOK'
    BY <2>1, <2>2 DEF StreamInv, StreamTypeOK
  <2>5. LinkInv(c) /\ ServiceInv(c) /\ HandshakeInv(c)
    BY DEF StreamInv, StreamRow
  <2>6. /\ Written(c) \in {<<>>, <<"attachment">>}
        /\ carry[c] = None /\ asked[c] = <<>> /\ unacked[c] = 0 /\ up[c] = <<>>
    BY <2>1, <2>5 DEF LinkInv, HandshakeInv
  <2>7. LinkInv(c)' /\ ServiceInv(c)'
    BY <2>1, <2>2, <2>5 DEF LinkInv, ServiceInv
  <2>8. HandshakeInv(c)'
    BY <2>1, <2>2, <2>5 DEF HandshakeInv, Serving
  <2>9. Written(c)' = Written(c) /\ Unserved(c)' = <<>>
    BY <2>1, <2>6 DEF Written, Unserved
  <2>10. InFlight(c)' = <<>>
    <3>1. Tail(<<"attachment">>) = <<>> /\ Head(<<"attachment">>) = "attachment"
      BY SMTT(60)
    <3>2. <<"attachment">> # <<>>
      OBVIOUS
    <3> QED
      BY <2>6, <2>9, <3>1, <3>2 DEF InFlight
  <2>11. InputAcks(<<>>, <<>>) = {} /\ Answer(<<>>, <<>>) /\ Await(<<>>, <<>>, <<>>)
    BY SMTT(60) DEF InputAcks, Answer, Await
  <2>12. AlignInv(c)'
    BY <2>1, <2>6, <2>9, <2>10, <2>11, FS_EmptySet DEF AlignInv
  <2> QED
    BY <2>3, <2>4, <2>7, <2>8, <2>12, RowStep DEF StreamRow
<1> QED
  BY <1>1, <1>2

(***************************************************************************)
(* A message of the browser joins the end of both streams of requests.     *)
(***************************************************************************)
LEMMA BridgeTakesFlows ==
  ASSUME StreamInv, NEW c \in Clients, NEW m \in Requests, BridgeTakes(c, m)
  PROVE  StreamInv'
<1>1. /\ gate[c] = "bridging" /\ carry[c] = None
      /\ carry' = [carry EXCEPT ![c] = m]
      /\ asked' = [asked EXCEPT ![c] = Append(@, m)]
      /\ UNCHANGED <<stage, held, reply, ends, up, down, gate, browser, unacked>>
  BY DEF BridgeTakes, daemonVars, socketVars
<1>2. /\ carry'[c] = m /\ asked'[c] = Append(asked[c], m)
      /\ asked[c] \in Seq(Requests) /\ m # None
      /\ carry' \in [Clients -> Requests \cup {None}]
      /\ asked' \in [Clients -> Seq(Requests)]
  BY <1>1, ConsoleAssumption, SMTT(60) DEF StreamInv, StreamTypeOK
<1>3. OthersFlow(c)
  BY <1>1 DEF StreamInv, StreamTypeOK, OthersFlow
<1>4. StreamTypeOK'
  BY <1>1, <1>2 DEF StreamInv, StreamTypeOK
<1>5. LinkInv(c) /\ ServiceInv(c) /\ HandshakeInv(c) /\ AlignInv(c)
  BY DEF StreamInv, StreamRow
<1>6. LinkInv(c)' /\ ServiceInv(c)'
  BY <1>1, <1>5 DEF LinkInv, ServiceInv
<1>7. Written(c)' = Written(c) /\ Unserved(c)' = Append(Unserved(c), m)
  BY <1>1, <1>2 DEF Written, Unserved
<1>8. InFlight(c)' = InFlight(c)
  BY <1>7 DEF InFlight
<1>9. HandshakeInv(c)'
  BY <1>1, <1>5, <1>7 DEF HandshakeInv
<1>10. InFlight(c) \in Seq(Frames \cup Answers) /\ Unserved(c) \in Seq(Requests)
  BY StreamTypes DEF StreamInv
<1>11. Answer(InFlight(c), asked[c])
  BY <1>1, <1>5 DEF AlignInv
<1>12. /\ Answer(InFlight(c), Append(asked[c], m))
       /\ Await(Unserved(c), InFlight(c), asked[c]) =>
            Await(Append(Unserved(c), m), InFlight(c), Append(asked[c], m))
       /\ InputAcks(InFlight(c), Append(asked[c], m)) = InputAcks(InFlight(c), asked[c])
  BY <1>2, <1>10, <1>11, SendKeepsStreams
<1>13. AlignInv(c)'
  BY <1>1, <1>2, <1>5, <1>7, <1>8, <1>12, SMTT(60) DEF AlignInv
<1> QED
  BY <1>3, <1>4, <1>6, <1>9, <1>13, RowStep DEF StreamRow

(***************************************************************************)
(* Writing it to the socket changes neither stream.                        *)
(***************************************************************************)
LEMMA BridgeWritesFlows ==
  ASSUME ResourcesMatchSessions, StreamInv, NEW c \in Clients, BridgeWrites(c)
  PROVE  StreamInv'
<1>1. CASE HangUp(c)
  BY <1>1, HangUpFlows
<1>2. CASE ~HangUp(c)
  <2>1. /\ carry[c] # None /\ "daemon" \in ends[c] /\ Len(up[c]) < Capacity
        /\ up' = [up EXCEPT ![c] = Append(@, carry[c])]
        /\ carry' = [carry EXCEPT ![c] = None]
        /\ UNCHANGED <<stage, held, reply, ends, down, gate, browser, asked, unacked>>
    BY <1>2 DEF BridgeWrites, daemonVars
  <2>2. /\ up'[c] = Append(up[c], carry[c]) /\ carry'[c] = None
        /\ up[c] \in Seq(Requests) /\ carry[c] \in Requests
        /\ carry' \in [Clients -> Requests \cup {None}]
    BY <2>1 DEF StreamInv, StreamTypeOK
  <2>3. OthersFlow(c)
    BY <2>1 DEF StreamInv, StreamTypeOK, OthersFlow
  <2>4. StreamTypeOK'
    <3>1. /\ Append(up[c], carry[c]) \in Seq(Requests)
          /\ Len(Append(up[c], carry[c])) <= Capacity
      BY <2>1, <2>2, ConsoleAssumption, SMTT(60)
    <3>2. up' \in [Clients -> Seq(Requests)] /\ \A d \in Clients : Len(up'[d]) <= Capacity
      BY <2>1, <3>1 DEF StreamInv, StreamTypeOK
    <3> QED
      BY <2>1, <2>2, <3>2 DEF StreamInv, StreamTypeOK
  <2>5. LinkInv(c) /\ ServiceInv(c) /\ HandshakeInv(c) /\ AlignInv(c)
    BY DEF StreamInv, StreamRow
  <2>6. LinkInv(c)' /\ ServiceInv(c)'
    BY <2>1, <2>5 DEF LinkInv, ServiceInv
  <2>7. Written(c)' = Written(c) /\ Unserved(c)' = Unserved(c)
    BY <2>1, <2>2 DEF Written, Unserved
  <2>8. HandshakeInv(c)'
    BY <2>1, <2>5, <2>7 DEF HandshakeInv
  <2>9. AlignInv(c)'
    BY <2>1, <2>5, <2>7, AlignStays
  <2> QED
    BY <2>3, <2>4, <2>6, <2>8, <2>9, RowStep DEF StreamRow
<1> QED
  BY <1>1, <1>2

(***************************************************************************)
(* What answers a request is never the attachment.                         *)
(***************************************************************************)
LEMMA RepliesAreNoAttachment ==
  ASSUME NEW F \in Seq(Frames \cup Answers), NEW A, Answer(F, A), F # <<>>
  PROVE  Head(F) # "attachment"
<1>1. 1 \in 1..Len(F) /\ Head(F) = F[1]
  BY SMTT(60)
<1>2. F[1] \in RepliesTo(A[1])
  BY <1>1 DEF Answer
<1> QED
  BY <1>1, <1>2 DEF RepliesTo

(***************************************************************************)
(* The bridge hands a frame to the browser: the attachment answers         *)
(* nothing, and any other frame the oldest request.                        *)
(***************************************************************************)
LEMMA BridgeReadsFlows ==
  ASSUME StreamInv, NEW c \in Clients, BridgeReads(c)
  PROVE  StreamInv'
<1>1. /\ gate[c] = "bridging" /\ carry[c] = None /\ down[c] # <<>>
      /\ down' = [down EXCEPT ![c] = Tail(@)]
      /\ UNCHANGED <<stage, held, reply, ends, up, gate, carry, browser>>
  BY DEF BridgeReads, daemonVars
<1>2. /\ down'[c] = Tail(down[c])
      /\ down[c] \in Seq(Frames \cup Answers) /\ Len(down[c]) <= Capacity
      /\ asked[c] \in Seq(Requests) /\ unacked[c] \in Nat
  BY <1>1 DEF StreamInv, StreamTypeOK
<1>3. OthersFlow(c)
  BY <1>1, SMTT(60) DEF StreamInv, StreamTypeOK, OthersFlow, BridgeReads
<1>4. LinkInv(c) /\ ServiceInv(c) /\ HandshakeInv(c) /\ AlignInv(c)
  BY DEF StreamInv, StreamRow
<1>5. /\ Written(c)' = Tail(Written(c)) /\ Written(c) # <<>>
      /\ Head(Written(c)) = Head(down[c]) /\ Unserved(c)' = Unserved(c)
  BY <1>1, <1>2, ReadAdvances DEF StreamInv, Unserved
<1>6. /\ Written(c) \in Seq(Frames \cup Answers)
      /\ InFlight(c) \in Seq(Frames \cup Answers) /\ Unserved(c) \in Seq(Requests)
  BY StreamTypes DEF StreamInv
<1>7. Answer(InFlight(c), asked[c])
  BY <1>1, <1>4 DEF AlignInv
<1>8. LinkInv(c)'
  BY <1>1, <1>4, <1>2 DEF LinkInv
<1>9. ServiceInv(c)' /\ HandshakeInv(c)'
  <2>1. stage[c] \notin Early \cup {"switching"}
    BY <1>1, <1>4 DEF ServiceInv, HandshakeInv, Early, Preparing, Serving
  <2> QED
    BY <1>1, <1>4, <2>1 DEF ServiceInv, HandshakeInv
<1>10. down' \in [Clients -> Seq(Frames \cup Answers)]
       /\ \A d \in Clients : Len(down'[d]) <= Capacity
  <2>1. Tail(down[c]) \in Seq(Frames \cup Answers) /\ Len(Tail(down[c])) <= Capacity
    BY <1>1, <1>2, ConsoleAssumption, SMTT(60)
  <2> QED
    BY <1>1, <2>1 DEF StreamInv, StreamTypeOK
<1>11. CASE Head(down[c]) = "attachment"
  <2>1. UNCHANGED <<asked, unacked>>
    BY <1>11 DEF BridgeReads
  <2>2. StreamTypeOK'
    BY <1>1, <1>10, <2>1 DEF StreamInv, StreamTypeOK
  <2>3. InFlight(c) = Written(c)'
    BY <1>5, <1>11 DEF InFlight
  <2>4. InFlight(c)' = InFlight(c)
    BY <1>6, <1>7, <2>3, RepliesAreNoAttachment DEF InFlight
  <2>5. AlignInv(c)'
    BY <1>1, <1>4, <1>5, <2>1, <2>4 DEF AlignInv
  <2> QED
    BY <1>3, <1>8, <1>9, <2>2, <2>5, RowStep DEF StreamRow
<1>12. CASE Head(down[c]) # "attachment"
  <2>1. /\ asked' = [asked EXCEPT ![c] = Tail(@)]
        /\ unacked' = IF Head(down[c]) = "ack" /\ Head(asked[c]) = "input"
                      THEN [unacked EXCEPT ![c] = @ - 1] ELSE unacked
    BY <1>12 DEF BridgeReads
  <2>2. InFlight(c) = Written(c) /\ InFlight(c) # <<>>
    BY <1>5, <1>12 DEF InFlight
  <2>3. /\ Answer(Tail(InFlight(c)), Tail(asked[c])) /\ asked[c] # <<>>
        /\ Await(Unserved(c), InFlight(c), asked[c]) =>
             Await(Unserved(c), Tail(InFlight(c)), Tail(asked[c]))
        /\ Cardinality(InputAcks(InFlight(c), asked[c])) \in Nat
        /\ Cardinality(InputAcks(Tail(InFlight(c)), Tail(asked[c]))) \in Nat
        /\ Cardinality(InputAcks(Tail(InFlight(c)), Tail(asked[c]))) =
              IF Head(InFlight(c)) = "ack" /\ Head(asked[c]) = "input"
              THEN Cardinality(InputAcks(InFlight(c), asked[c])) - 1
              ELSE Cardinality(InputAcks(InFlight(c), asked[c]))
    BY <1>2, <1>6, <1>7, <2>2, ReadKeepsStreams
  <2>4. Tail(InFlight(c)) \in Seq(Frames \cup Answers) /\ Tail(asked[c]) \in Seq(Requests)
    BY <1>2, <1>6, <2>2, <2>3, SMTT(60)
  <2>5. InFlight(c)' = Tail(InFlight(c))
    BY <1>5, <2>2, <2>3, <2>4, RepliesAreNoAttachment DEF InFlight
  <2>6. unacked[c] = Cardinality(InputAcks(InFlight(c), asked[c]))
    BY <1>1, <1>4 DEF AlignInv
  <2>7. Head(InFlight(c)) = Head(down[c])
    BY <1>5, <2>2
  <2>8. unacked'[c] = Cardinality(InputAcks(Tail(InFlight(c)), Tail(asked[c])))
        /\ asked'[c] = Tail(asked[c])
    BY <2>1, <2>3, <2>6, <2>7 DEF StreamInv, StreamTypeOK
  <2>9. asked' \in [Clients -> Seq(Requests)]
    BY <2>1, <2>4 DEF StreamInv, StreamTypeOK
  <2>10. unacked' \in [Clients -> Nat]
    <3>1. unacked'[c] \in Nat
      BY <2>3, <2>8
    <3> QED
      BY <2>1, <3>1 DEF StreamInv, StreamTypeOK
  <2>11. StreamTypeOK'
    BY <1>1, <1>10, <2>9, <2>10 DEF StreamInv, StreamTypeOK
  <2>12. AlignInv(c)'
    BY <1>1, <1>4, <1>5, <2>3, <2>5, <2>8 DEF AlignInv
  <2> QED
    BY <1>3, <1>8, <1>9, <2>11, <2>12, RowStep DEF StreamRow
<1> QED
  BY <1>11, <1>12

-----------------------------------------------------------------------------

(***************************************************************************)
(* The daemon prepares an upgrade or refuses it without touching the       *)
(* socket, in stages no bridge can have seen.                              *)
(***************************************************************************)
LEMMA PreparingFlows ==
  ASSUME ResourcesMatchSessions, StreamInv, NEW c \in Clients, NEW s,
         stage[c] \in {"request"} \cup Preparing, Goto(c, s),
         \/ s \in Preparing /\ UNCHANGED reply
         \/ /\ s = "rejecting"
            /\ \E answer \in {"conflict", "refused"} :
                 reply' = [reply EXCEPT ![c] = answer],
         \A d \in Clients \ {c} : held'[d] = held[d],
         "connection" \in held'[c] <=> "connection" \in held[c],
         UNCHANGED <<socketVars, gatewayVars, unacked>>
  PROVE  StreamInv'
<1>1. UNCHANGED <<ends, up, down, gate, carry, browser, asked, unacked>>
  BY DEF socketVars, gatewayVars
<1>2. /\ stage'[c] = s /\ s \in Preparing \cup {"rejecting"}
      /\ s \in Preparing => reply'[c] = reply[c]
      /\ s = "rejecting" => reply'[c] \in {"conflict", "refused"}
      /\ reply' \in [Clients -> Frames \cup Answers \cup {None}]
      /\ StageHolds(c)
  <2>1. /\ reply \in [Clients -> Frames \cup Answers \cup {None}]
        /\ stage \in [Clients -> Stages] /\ StageHolds(c)
    BY DEF StreamInv, StreamTypeOK, ResourcesMatchSessions, DaemonTypeOK
  <2>2. stage'[c] = s /\ s \in Preparing \cup {"rejecting"}
    BY <2>1 DEF Goto
  <2>3. CASE s \in Preparing /\ UNCHANGED reply
    BY <2>1, <2>2, <2>3 DEF Preparing
  <2>4. ASSUME NEW answer \in {"conflict", "refused"}, s = "rejecting",
               reply' = [reply EXCEPT ![c] = answer]
        PROVE  /\ reply'[c] \in {"conflict", "refused"} /\ s \notin Preparing
               /\ reply' \in [Clients -> Frames \cup Answers \cup {None}]
    BY <2>1, <2>4 DEF Answers, Preparing
  <2> QED
    BY <2>1, <2>2, <2>3, <2>4
<1>3. OthersFlow(c)
  BY <1>1, SMTT(60) DEF StreamInv, StreamTypeOK, Goto, ResourcesMatchSessions, DaemonTypeOK, OthersFlow
<1>4. StreamTypeOK'
  BY <1>1, <1>2 DEF StreamInv, StreamTypeOK
<1>5. LinkInv(c) /\ ServiceInv(c) /\ HandshakeInv(c)
  BY DEF StreamInv, StreamRow
<1>6. gate[c] \notin {"switched", "bridging"}
  BY <1>5 DEF HandshakeInv, Preparing, Serving
<1>7. /\ down[c] = <<>> /\ reply[c] = None
      /\ "daemon" \in ends[c] <=> "connection" \in held[c]
  BY <1>2, <1>5 DEF ServiceInv, StageHolds, Early, Preparing
<1>8. LinkInv(c)'
  BY <1>1, <1>5 DEF LinkInv
<1>9. ServiceInv(c)'
  BY <1>1, <1>2, <1>7 DEF ServiceInv, Preparing, Serving
<1>10. HandshakeInv(c)' /\ AlignInv(c)'
  BY <1>1, <1>2, <1>6, <1>7 DEF HandshakeInv, AlignInv, Preparing
<1> QED
  BY <1>3, <1>4, <1>8, <1>9, <1>10, RowStep DEF StreamRow

(***************************************************************************)
(* The stages of prepare_upgrade are such steps.                           *)
(***************************************************************************)
LEMMA PrepareStepFlows ==
  ASSUME ResourcesMatchSessions, StreamInv, NEW c \in Clients,
         \/ HandleRequest(c) \/ Observe(c) \/ AcquireConsole(c)
         \/ AcquireLease(c) \/ OpenDevice(c) \/ WriteSelector(c)
  PROVE  StreamInv'
<1>1. /\ stage[c] \in {"request"} \cup Preparing
      /\ UNCHANGED <<socketVars, gatewayVars, unacked>>
  BY DEF HandleRequest, Observe, AcquireConsole, AcquireLease, OpenDevice, WriteSelector,
         Preparing
<1>2. /\ \A d \in Clients \ {c} : held'[d] = held[d]
      /\ "connection" \in held'[c] <=> "connection" \in held[c]
  BY SMTT(60) DEF HandleRequest, Observe, AcquireConsole, AcquireLease, OpenDevice, WriteSelector,
         Acquire, Take, ResourcesMatchSessions, DaemonTypeOK
<1>3. \/ \E s \in Preparing : Goto(c, s) /\ UNCHANGED reply
      \/ /\ Goto(c, "rejecting")
         /\ \E answer \in {"conflict", "refused"} : reply' = [reply EXCEPT ![c] = answer]
  BY DEF HandleRequest, Observe, AcquireConsole, AcquireLease, OpenDevice, WriteSelector,
         Reject, Preparing
<1> QED
  BY <1>1, <1>2, <1>3, PreparingFlows

(***************************************************************************)
(* One end of the socket closes: the frames it had not read go.            *)
(***************************************************************************)
LEMMA DaemonCloses ==
  ASSUME StreamInv, NEW c \in Clients, CloseEnd(c, "daemon")
  PROVE  /\ ends'[c] = ends[c] \ {"daemon"} /\ up'[c] = <<>>
         /\ down'[c] \in {down[c], <<>>}
         /\ gate[c] # "idle" => down'[c] = down[c]
         /\ ends'[c] = {} => down'[c] = <<>>
         /\ \A d \in Clients \ {c} :
              ends'[d] = ends[d] /\ up'[d] = up[d] /\ down'[d] = down[d]
         /\ ends' \in [Clients -> SUBSET {"gateway", "daemon"}]
         /\ up' \in [Clients -> Seq(Requests)]
         /\ down' \in [Clients -> Seq(Frames \cup Answers)]
         /\ \A d \in Clients : Len(up'[d]) <= Capacity /\ Len(down'[d]) <= Capacity
<1>1. /\ ends' = [ends EXCEPT ![c] = @ \ {"daemon"}]
      /\ up' = [up EXCEPT ![c] = <<>>]
      /\ down' = IF ends[c] \subseteq {"daemon"} THEN [down EXCEPT ![c] = <<>>] ELSE down
  BY DEF CloseEnd
<1>2. /\ ends'[c] = ends[c] \ {"daemon"} /\ up'[c] = <<>>
      /\ down'[c] \in {down[c], <<>>}
      /\ ends'[c] = {} => down'[c] = <<>>
      /\ \A d \in Clients \ {c} :
           ends'[d] = ends[d] /\ up'[d] = up[d] /\ down'[d] = down[d]
  BY <1>1 DEF StreamInv, StreamTypeOK
<1>3. gate[c] # "idle" => down'[c] = down[c]
  <2>1. gate[c] # "idle" => "gateway" \in ends[c]
    BY DEF StreamInv, StreamRow, LinkInv
  <2> QED
    BY <1>1, <2>1
<1>4. /\ ends' \in [Clients -> SUBSET {"gateway", "daemon"}]
      /\ up' \in [Clients -> Seq(Requests)]
      /\ down' \in [Clients -> Seq(Frames \cup Answers)]
  BY <1>1, SMTT(60) DEF StreamInv, StreamTypeOK
<1>5. \A d \in Clients : Len(up'[d]) <= Capacity /\ Len(down'[d]) <= Capacity
  <2>1. Len(<<>>) <= Capacity
    BY ConsoleAssumption, SMTT(60)
  <2> QED
    BY <1>2, <2>1 DEF StreamInv, StreamTypeOK
<1> QED
  BY <1>2, <1>3, <1>4, <1>5

(***************************************************************************)
(* The daemon closes its end, and its handling of the client is over,      *)
(* being dropped, or still preparing what nobody waits for.                *)
(***************************************************************************)
LEMMA ClosingFlows ==
  ASSUME ResourcesMatchSessions, StreamInv, NEW c \in Clients, NEW s,
         CloseEnd(c, "daemon"), Goto(c, s),
         \/ s \in {"none", "dropping"} /\ reply[c] = None
         \/ s = stage[c] /\ s \in Preparing \cup {"rejecting"} /\ "connection" \notin held'[c],
         \A d \in Clients \ {c} : held'[d] = held[d],
         UNCHANGED <<reply, gatewayVars, unacked>>
  PROVE  StreamInv'
<1>1. UNCHANGED <<reply, gate, carry, browser, asked, unacked>> /\ stage'[c] = s
  BY DEF gatewayVars, Goto, ResourcesMatchSessions, DaemonTypeOK
<1>2. /\ ends'[c] = ends[c] \ {"daemon"} /\ up'[c] = <<>>
      /\ down'[c] \in {down[c], <<>>}
      /\ gate[c] # "idle" => down'[c] = down[c]
      /\ ends'[c] = {} => down'[c] = <<>>
  BY DaemonCloses
<1>3. OthersFlow(c)
  BY <1>1, DaemonCloses, SMTT(60) DEF OthersFlow, Goto, ResourcesMatchSessions, DaemonTypeOK
<1>4. StreamTypeOK'
  BY <1>1, DaemonCloses DEF StreamInv, StreamTypeOK
<1>5. LinkInv(c) /\ ServiceInv(c) /\ HandshakeInv(c) /\ AlignInv(c)
  BY DEF StreamInv, StreamRow
<1>6. LinkInv(c)'
  BY <1>1, <1>2, <1>5 DEF LinkInv
<1>7. ServiceInv(c)'
  BY <1>1, <1>2, <1>5 DEF ServiceInv, Early, Preparing, Serving
<1>8. gate[c] # "idle" => Written(c)' = Written(c)
  BY <1>1, <1>2 DEF Written
<1>9. HandshakeInv(c)'
  BY <1>1, <1>2, <1>5, <1>8 DEF HandshakeInv, Preparing, Serving
<1>10. AlignInv(c)'
  <2>1. gate[c] # "idle" => InFlight(c)' = InFlight(c)
    BY <1>8 DEF InFlight
  <2> QED
    BY <1>1, <1>2, <1>5, <2>1 DEF AlignInv
<1> QED
  BY <1>3, <1>4, <1>6, <1>7, <1>9, <1>10, RowStep DEF StreamRow

(***************************************************************************)
(* The listener accepts a connection, turns it away or resets it.          *)
(***************************************************************************)
LEMMA AcceptFlows ==
  ASSUME ResourcesMatchSessions, StreamInv, NEW c \in Clients,
         Accept(c) \/ BacklogResets(c)
  PROVE  StreamInv'
<1>1. LinkInv(c) /\ ServiceInv(c) /\ HandshakeInv(c) /\ stage[c] = "backlog"
  BY DEF StreamInv, StreamRow, Accept, BacklogResets
<1>2. reply[c] = None /\ down[c] = <<>> /\ "daemon" \in ends[c]
  BY <1>1 DEF ServiceInv, Early
<1>3. CASE Goto(c, "none") /\ CloseEnd(c, "daemon")
  <2>1. UNCHANGED <<held, reply, gatewayVars, unacked>>
    <3>1. ~Goto(c, "request")
      BY <1>3 DEF Goto, ResourcesMatchSessions, DaemonTypeOK
    <3> QED
      BY <3>1 DEF Accept, BacklogResets
  <2> QED
    BY <1>2, <1>3, <2>1, ClosingFlows
<1>4. CASE Acquire(c, "connection") /\ Goto(c, "request") /\ UNCHANGED socketVars
  <2>1. /\ stage'[c] = "request"
        /\ UNCHANGED <<reply, ends, up, down, gate, carry, browser, asked, unacked>>
    BY <1>4 DEF Accept, BacklogResets, Goto, socketVars, gatewayVars,
                ResourcesMatchSessions, DaemonTypeOK
  <2>2. OthersFlow(c)
    BY <1>4, <2>1 DEF OthersFlow, Goto, Acquire, Take, ResourcesMatchSessions, DaemonTypeOK
  <2>3. StreamTypeOK'
    BY <2>1 DEF StreamInv, StreamTypeOK
  <2>4. LinkInv(c)'
    BY <1>1, <2>1 DEF LinkInv
  <2>5. ServiceInv(c)'
    BY <1>2, <2>1 DEF ServiceInv, Preparing, Serving
  <2>6. HandshakeInv(c)' /\ AlignInv(c)'
    BY <1>1, <1>2, <2>1 DEF HandshakeInv, AlignInv, Serving
  <2> QED
    BY <2>2, <2>3, <2>4, <2>5, <2>6, RowStep DEF StreamRow
<1> QED
  BY <1>3, <1>4 DEF Accept, BacklogResets

(***************************************************************************)
(* The connection's task ends: whatever thread is still preparing finds no *)
(* connection to answer.                                                   *)
(***************************************************************************)
LEMMA ConnectionEndsFlows ==
  ASSUME ResourcesMatchSessions, StreamInv, NEW c \in Clients, ConnectionEnds(c)
  PROVE  StreamInv'
<1>1. /\ CloseEnd(c, "daemon") /\ "connection" \in held[c]
      /\ Drop(c, "connection") /\ UNCHANGED <<reply, gatewayVars, unacked>>
      /\ Goto(c, CASE stage[c] \in {"request", "answered"} -> "none"
                   [] stage[c] = "switching" -> "dropping"
                   [] OTHER -> stage[c])
  BY DEF ConnectionEnds
<1>2. /\ "connection" \notin held'[c]
      /\ \A d \in Clients \ {c} : held'[d] = held[d]
  BY <1>1 DEF Drop, Give, ResourcesMatchSessions, DaemonTypeOK
<1>3. ServiceInv(c) /\ StageHolds(c)
  BY DEF StreamInv, StreamRow, ResourcesMatchSessions
<1>4. CASE stage[c] \in {"request", "answered"}
  <2>1. Goto(c, "none") /\ reply[c] = None
    BY <1>1, <1>3, <1>4 DEF ServiceInv
  <2> QED
    BY <1>1, <1>2, <2>1, ClosingFlows
<1>5. CASE stage[c] = "switching"
  <2>1. Goto(c, "dropping") /\ reply[c] = None
    BY <1>1, <1>3, <1>5 DEF ServiceInv
  <2> QED
    BY <1>1, <1>2, <2>1, ClosingFlows
<1>6. CASE stage[c] \notin {"request", "answered", "switching"}
  <2>1. Goto(c, stage[c]) /\ stage[c] \in Preparing \cup {"rejecting"}
    BY <1>1, <1>3, <1>6 DEF StageHolds
  <2> QED
    BY <1>1, <1>2, <2>1, ClosingFlows
<1> QED
  BY <1>4, <1>5, <1>6

(***************************************************************************)
(* A step inside the daemon that leaves the socket and the reply alone.    *)
(***************************************************************************)
LEMMA QuietFlows ==
  ASSUME ResourcesMatchSessions, StreamInv, NEW c \in Clients,
         \A d \in Clients \ {c} : stage'[d] = stage[d] /\ held'[d] = held[d],
         UNCHANGED <<reply, socketVars, gatewayVars, unacked>>,
         ServiceInv(c)',
         \/ stage'[c] \in {stage[c], "none", "dropping"}
         \/ stage[c] \in Serving /\ stage'[c] \in Serving /\ gate[c] \in {"idle", "bridging"}
  PROVE  StreamInv'
<1>1. UNCHANGED <<reply, ends, up, down, gate, carry, browser, asked, unacked>>
  BY DEF socketVars, gatewayVars
<1>2. OthersFlow(c)
  BY <1>1 DEF OthersFlow
<1>3. StreamTypeOK'
  BY <1>1 DEF StreamInv, StreamTypeOK
<1>4. LinkInv(c) /\ HandshakeInv(c) /\ AlignInv(c)
  BY DEF StreamInv, StreamRow
<1>5. LinkInv(c)'
  BY <1>1, <1>4 DEF LinkInv
<1>6. Written(c)' = Written(c) /\ Unserved(c)' = Unserved(c)
  BY <1>1 DEF Written, Unserved
<1>7. HandshakeInv(c)'
  BY <1>1, <1>4, <1>6 DEF HandshakeInv, Serving
<1>8. AlignInv(c)'
  <2>1. "daemon" \in ends'[c] /\ stage'[c] # "dropping" =>
           "daemon" \in ends[c] /\ stage[c] # "dropping"
    BY <1>1 DEF ServiceInv, Serving
  <2> QED
    BY <1>1, <1>4, <1>6, <2>1, AlignStays
<1> QED
  BY <1>2, <1>3, <1>5, <1>7, <1>8, RowStep DEF StreamRow

\* The daemon, in possession of the connection, answers a and goes on to s.
FirstAnswer(c, a, s) ==
  /\ stage[c] \in {"rejecting", "prepared"} /\ "connection" \in held[c] /\ Goto(c, s)
  /\ \/ s = "answered" /\ a # "switching_protocols"
     \/ s = "switching" /\ a = "switching_protocols"
  /\ down' = [down EXCEPT ![c] = Append(@, a)]
  /\ reply'[c] = None /\ \A d \in Clients \ {c} : reply'[d] = reply[d]
  /\ reply' \in [Clients -> Frames \cup Answers \cup {None}]
  /\ UNCHANGED <<held, ends, up, gatewayVars, unacked>>

(***************************************************************************)
(* The daemon's first words go into an empty socket, and while it had not  *)
(* answered there was no bridge.                                           *)
(***************************************************************************)
LEMMA FirstAnswerFlows ==
  ASSUME ResourcesMatchSessions, StreamInv, NEW c \in Clients, NEW a \in Answers, NEW s,
         FirstAnswer(c, a, s)
  PROVE  StreamInv'
<1> USE DEF FirstAnswer
<1>1. /\ stage'[c] = s
      /\ UNCHANGED <<held, ends, up, gate, carry, browser, asked, unacked>>
  BY DEF gatewayVars, Goto, ResourcesMatchSessions, DaemonTypeOK
<1>2. LinkInv(c) /\ ServiceInv(c) /\ HandshakeInv(c)
  BY DEF StreamInv, StreamRow
<1>3. down[c] = <<>> /\ "daemon" \in ends[c]
  BY <1>2 DEF ServiceInv, Early, Preparing
<1>4. gate[c] \notin {"switched", "bridging"}
  BY <1>2 DEF HandshakeInv, Serving
<1>5. down'[c] = Append(<<>>, a)
  BY <1>3 DEF StreamInv, StreamTypeOK
<1>6. Append(<<>>, a) = <<a>> /\ Head(<<a>>) = a /\ <<a>> # <<>> /\ Len(<<a>>) = 1
  BY SMTT(60)
<1>7. down'[c] = <<a>> /\ Written(c)' = <<a>>
  BY <1>5, <1>6 DEF Written
<1>8. OthersFlow(c)
  BY <1>1 DEF OthersFlow, Goto, ResourcesMatchSessions, DaemonTypeOK, StreamInv, StreamTypeOK
<1>9. StreamTypeOK'
  <2>1. <<a>> \in Seq(Frames \cup Answers) /\ Len(<<a>>) <= Capacity
    BY <1>6, ConsoleAssumption, SMTT(60)
  <2>2. /\ down' \in [Clients -> Seq(Frames \cup Answers)]
        /\ \A d \in Clients : Len(down'[d]) <= Capacity
    BY <1>3, <1>6, <2>1 DEF StreamInv, StreamTypeOK
  <2> QED
    BY <1>1, <2>2 DEF StreamInv, StreamTypeOK
<1>10. LinkInv(c)'
  BY <1>1, <1>2, <1>3 DEF LinkInv
<1>11. ServiceInv(c)'
  BY <1>1, <1>3 DEF ServiceInv, Early, Preparing, Serving
<1>12. HandshakeInv(c)' /\ AlignInv(c)'
  BY <1>1, <1>4, <1>6, <1>7 DEF HandshakeInv, AlignInv
<1> QED
  BY <1>8, <1>9, <1>10, <1>11, <1>12, RowStep DEF StreamRow

(***************************************************************************)
(* A refusal: what was taken goes first, and then the answer is written.   *)
(***************************************************************************)
LEMMA RejectingFlows ==
  ASSUME ResourcesMatchSessions, StreamInv, NEW c \in Clients, Rejecting(c)
  PROVE  StreamInv'
<1>1. /\ stage[c] = "rejecting" /\ UNCHANGED <<ends, up, gatewayVars, unacked>>
      /\ ServiceInv(c)
  BY DEF Rejecting, StreamInv, StreamRow
<1>2. CASE Scoped(c) # {}
  <2>1. UNCHANGED <<stage, reply, down>> /\ DropNext(c, RejectOrder)
    BY <1>2 DEF Rejecting
  <2>2. PICK r \in Scoped(c) : Drop(c, r)
    BY <2>1 DEF DropNext
  <2>3. /\ \A d \in Clients \ {c} : held'[d] = held[d]
        /\ "connection" \in held'[c] <=> "connection" \in held[c]
    BY <2>2 DEF Drop, Give, Scoped, ResourcesMatchSessions, DaemonTypeOK
  <2>4. ServiceInv(c)'
    BY <1>1, <2>1, <2>3 DEF ServiceInv
  <2> QED
    BY <1>1, <2>1, <2>3, <2>4, QuietFlows DEF socketVars
<1>3. CASE Scoped(c) = {} /\ "connection" \in held[c]
  <2>1. /\ reply' = [reply EXCEPT ![c] = None] /\ Goto(c, "answered")
        /\ down' = [down EXCEPT ![c] = Append(@, reply[c])] /\ UNCHANGED held
    BY <1>3 DEF Rejecting
  <2>2. reply[c] \in Answers /\ reply[c] # "switching_protocols"
    BY <1>1 DEF ServiceInv, Answers
  <2>3. /\ reply'[c] = None /\ \A d \in Clients \ {c} : reply'[d] = reply[d]
        /\ reply' \in [Clients -> Frames \cup Answers \cup {None}]
    BY <2>1 DEF StreamInv, StreamTypeOK
  <2>4. FirstAnswer(c, reply[c], "answered")
    BY <1>1, <1>3, <2>1, <2>2, <2>3, SMTT(60) DEF FirstAnswer
  <2> QED
    BY <2>2, <2>4, FirstAnswerFlows
<1>4. CASE Scoped(c) = {} /\ "connection" \notin held[c]
  <2>1. /\ reply' = [reply EXCEPT ![c] = None] /\ Goto(c, "none")
        /\ UNCHANGED <<held, down>>
    BY <1>4 DEF Rejecting
  <2>2. /\ stage'[c] = "none" /\ reply'[c] = None
        /\ reply' \in [Clients -> Frames \cup Answers \cup {None}]
        /\ UNCHANGED <<ends, up, down, gate, carry, browser, asked, unacked>>
    BY <1>1, <2>1 DEF gatewayVars, Goto, ResourcesMatchSessions, DaemonTypeOK, StreamInv,
                      StreamTypeOK
  <2>3. LinkInv(c) /\ HandshakeInv(c) /\ down[c] = <<>> /\ "daemon" \notin ends[c]
    BY <1>1, <1>4 DEF ServiceInv, StreamInv, StreamRow, Early
  <2>4. gate[c] \notin {"switched", "bridging"}
    BY <1>1, <2>3 DEF HandshakeInv, Serving
  <2>5. OthersFlow(c)
    BY <1>1, <2>1, <2>2 DEF OthersFlow, Goto, ResourcesMatchSessions, DaemonTypeOK, StreamInv,
                      StreamTypeOK
  <2>6. StreamTypeOK'
    BY <2>2 DEF StreamInv, StreamTypeOK
  <2>7. LinkInv(c)'
    BY <2>2, <2>3 DEF LinkInv
  <2>8. ServiceInv(c)'
    BY <2>2, <2>3 DEF ServiceInv, Early, Preparing, Serving
  <2>9. HandshakeInv(c)' /\ AlignInv(c)'
    BY <2>2, <2>3, <2>4 DEF HandshakeInv, AlignInv
  <2> QED
    BY <2>5, <2>6, <2>7, <2>8, <2>9, RowStep DEF StreamRow
<1> QED
  BY <1>2, <1>3, <1>4

(***************************************************************************)
(* `handle_upgrade_request` answers 101, or finds its connection gone.     *)
(***************************************************************************)
LEMMA AnswerUpgradeFlows ==
  ASSUME ResourcesMatchSessions, StreamInv, NEW c \in Clients, AnswerUpgrade(c)
  PROVE  StreamInv'
<1>1. /\ stage[c] = "prepared" /\ UNCHANGED <<held, reply, ends, up, gatewayVars, unacked>>
      /\ ServiceInv(c)
  BY DEF AnswerUpgrade, StreamInv, StreamRow
<1>2. reply[c] = None
  BY <1>1 DEF ServiceInv
<1>3. CASE "connection" \in held[c]
  <2>1. /\ Goto(c, "switching")
        /\ down' = [down EXCEPT ![c] = Append(@, "switching_protocols")]
    BY <1>3 DEF AnswerUpgrade
  <2>2. FirstAnswer(c, "switching_protocols", "switching")
    BY <1>1, <1>2, <1>3, <2>1 DEF FirstAnswer, StreamInv, StreamTypeOK
  <2> QED
    BY <2>2, FirstAnswerFlows DEF Answers
<1>4. CASE "connection" \notin held[c]
  <2>1. Goto(c, "dropping") /\ UNCHANGED down
    BY <1>4 DEF AnswerUpgrade
  <2>2. /\ stage'[c] = "dropping"
        /\ \A d \in Clients \ {c} : stage'[d] = stage[d] /\ held'[d] = held[d]
    BY <1>1, <2>1 DEF Goto, ResourcesMatchSessions, DaemonTypeOK
  <2>3. ServiceInv(c)'
    BY <1>1, <1>2, <2>2 DEF ServiceInv, Early, Preparing, Serving
  <2> QED
    BY <1>1, <2>1, <2>2, <2>3, QuietFlows DEF socketVars
<1> QED
  BY <1>3, <1>4

(***************************************************************************)
(* The shortest streams, spelled out.                                      *)
(***************************************************************************)
LEMMA ShortStreams ==
  /\ Append(<<>>, "attachment") = <<"attachment">>
  /\ <<"switching_protocols", "attachment">> = Append(<<"switching_protocols">>, "attachment")
  /\ Tail(<<"attachment">>) = <<>> /\ Head(<<"attachment">>) = "attachment"
  /\ <<"attachment">> # <<>>
<1>1. <<"switching_protocols", "attachment">> = Append(<<"switching_protocols">>, "attachment")
  BY SMTT(60)
<1>2. Append(<<>>, "attachment") = <<"attachment">>
  BY SMTT(60)
<1>3. Tail(<<"attachment">>) = <<>> /\ Head(<<"attachment">>) = "attachment"
  BY SMTT(60)
<1>4. <<"attachment">> # <<>>
  OBVIOUS
<1> QED
  BY <1>1, <1>2, <1>3, <1>4

(***************************************************************************)
(* The socket is handed over: the attachment is the first frame, and it    *)
(* answers nothing.                                                        *)
(***************************************************************************)
LEMMA HandOverFlows ==
  ASSUME ResourcesMatchSessions, StreamInv, NEW c \in Clients, HandOver(c)
  PROVE  StreamInv'
<1>1. /\ stage[c] = "switching" /\ UNCHANGED <<gatewayVars, unacked>>
      /\ LinkInv(c) /\ ServiceInv(c) /\ HandshakeInv(c) /\ AlignInv(c)
  BY DEF HandOver, StreamInv, StreamRow
<1>2. reply[c] = None /\ "daemon" \in ends[c]
  BY <1>1 DEF ServiceInv
<1>3. \A d \in Clients \ {c} : held'[d] = held[d]
  BY DEF HandOver, Drop, Give, ResourcesMatchSessions, DaemonTypeOK
<1>4. CASE Goto(c, "dropping") /\ CloseEnd(c, "daemon") /\ UNCHANGED reply
  BY <1>1, <1>2, <1>3, <1>4, ClosingFlows, SMTT(60)
<1>5. CASE /\ Goto(c, "replying") /\ reply' = [reply EXCEPT ![c] = "attachment"]
           /\ UNCHANGED socketVars
  <2>1. /\ stage'[c] = "replying" /\ reply'[c] = "attachment"
        /\ reply' \in [Clients -> Frames \cup Answers \cup {None}]
        /\ UNCHANGED <<ends, up, down, gate, carry, browser, asked, unacked>>
    BY <1>1, <1>5 DEF Goto, socketVars, gatewayVars, ResourcesMatchSessions, DaemonTypeOK,
                      StreamInv, StreamTypeOK, Frames
  <2>2. OthersFlow(c)
    BY <1>3, <1>5, <2>1 DEF OthersFlow, Goto, ResourcesMatchSessions, DaemonTypeOK, StreamInv,
                            StreamTypeOK
  <2>3. StreamTypeOK'
    BY <2>1 DEF StreamInv, StreamTypeOK
  <2>4. LinkInv(c)'
    BY <1>1, <2>1 DEF LinkInv
  <2>5. ServiceInv(c)'
    BY <1>2, <2>1 DEF ServiceInv, Early, Preparing, Serving, Frames
  <2>6. "attachment" # None
    BY ConsoleAssumption DEF Frames
  <2>7. Written(c) = down[c] /\ Written(c)' = Append(down[c], "attachment")
    BY <1>2, <2>1, <2>6 DEF Written
  <2>8. HandshakeInv(c)'
    BY <1>1, <2>1, <2>7, ShortStreams DEF HandshakeInv, Serving
  <2>9. AlignInv(c)'
    <3>1. CASE gate[c] # "bridging"
      BY <2>1, <3>1 DEF AlignInv
    <3>2. CASE gate[c] = "bridging"
      <4>1. down[c] = <<>>
        BY <1>1, <3>2 DEF HandshakeInv
      <4>2. InFlight(c) = <<>> /\ InFlight(c)' = <<>>
        BY <2>7, <4>1, ShortStreams DEF InFlight
      <4>3. Unserved(c)' = Unserved(c)
        BY <2>1 DEF Unserved
      <4> QED
        BY <1>1, <1>2, <2>1, <3>2, <4>2, <4>3 DEF AlignInv
    <3> QED
      BY <3>1, <3>2
  <2> QED
    BY <2>2, <2>3, <2>4, <2>5, <2>8, <2>9, RowStep DEF StreamRow
<1> QED
  BY <1>4, <1>5 DEF HandOver

(***************************************************************************)
(* `write_protocol_frame` moves the reply into the socket.                 *)
(***************************************************************************)
LEMMA WriteFrameFlows ==
  ASSUME ResourcesMatchSessions, StreamInv, NEW c \in Clients, WriteFrame(c)
  PROVE  StreamInv'
<1>1. /\ stage[c] = "replying" /\ UNCHANGED <<held, ends, up, gate, carry, browser, asked, unacked>>
      /\ reply' = [reply EXCEPT ![c] = None]
      /\ LinkInv(c) /\ ServiceInv(c) /\ HandshakeInv(c) /\ AlignInv(c)
  BY DEF WriteFrame, gatewayVars, StreamInv, StreamRow
<1>2. PICK s \in {"reading", "dropping"} : Goto(c, s)
  BY DEF WriteFrame
<1>3. /\ stage'[c] = s /\ reply'[c] = None /\ reply[c] \in Frames /\ "daemon" \in ends[c]
      /\ reply' \in [Clients -> Frames \cup Answers \cup {None}] /\ reply[c] # None
  BY <1>1, <1>2, ConsoleAssumption, SMTT(60)
  DEF Goto, ResourcesMatchSessions, DaemonTypeOK, StreamInv, StreamTypeOK, ServiceInv, Serving
<1>4. LinkInv(c)' /\ down' \in [Clients -> Seq(Frames \cup Answers)]
      /\ \A d \in Clients : Len(down'[d]) <= Capacity
  <2>1. CASE UNCHANGED down
    BY <1>1, <2>1 DEF LinkInv, StreamInv, StreamTypeOK
  <2>2. CASE /\ "gateway" \in ends[c] /\ Len(down[c]) < Capacity
             /\ down' = [down EXCEPT ![c] = Append(@, reply[c])]
    <3>1. /\ Append(down[c], reply[c]) \in Seq(Frames \cup Answers)
          /\ Len(Append(down[c], reply[c])) <= Capacity
      BY <1>3, <2>2, ConsoleAssumption, SMTT(60) DEF StreamInv, StreamTypeOK
    <3>2. LinkInv(c)'
      BY <1>1, <2>2 DEF LinkInv
    <3> QED
      BY <2>2, <3>1, <3>2 DEF StreamInv, StreamTypeOK
  <2> QED
    BY <2>1, <2>2 DEF WriteFrame
<1>5. OthersFlow(c)
  <2>1. \A d \in Clients \ {c} : down'[d] = down[d]
    BY DEF WriteFrame, StreamInv, StreamTypeOK
  <2> QED
    BY <1>1, <1>2, <2>1 DEF OthersFlow, Goto, ResourcesMatchSessions, DaemonTypeOK, StreamInv,
                            StreamTypeOK
<1>6. StreamTypeOK'
  BY <1>1, <1>3, <1>4 DEF StreamInv, StreamTypeOK
<1>7. ServiceInv(c)'
  BY <1>1, <1>3 DEF ServiceInv, Early, Preparing, Serving
<1>8. gate[c] # "idle" => down'[c] = Append(down[c], reply[c])
  BY <1>1 DEF WriteFrame, LinkInv, StreamInv, StreamTypeOK
<1>9. gate[c] # "idle" => Written(c)' = Written(c)
  BY <1>3, <1>8 DEF Written
<1>10. HandshakeInv(c)'
  <2>1. CASE gate[c] \in {"idle", "bridging"}
    BY <1>1, <1>3, <2>1 DEF HandshakeInv, Serving
  <2>2. CASE gate[c] = "switched"
    BY <1>1, <1>3, <1>9, <2>2 DEF HandshakeInv
  <2>3. CASE gate[c] = "connecting"
    <3>1. down[c] = <<"switching_protocols">> /\ reply[c] = "attachment"
      BY <1>1, <2>3 DEF HandshakeInv
    <3>2. Written(c)' = <<"switching_protocols", "attachment">>
      BY <1>3, <1>9, <2>3, <3>1, ShortStreams DEF Written
    <3> QED
      BY <1>1, <1>3, <2>3, <3>2 DEF HandshakeInv
  <2> QED
    BY <2>1, <2>2, <2>3 DEF StreamInv, StreamTypeOK
<1>11. AlignInv(c)'
  <2>1. CASE gate[c] = "bridging"
    <3>1. Written(c)' = Written(c) /\ Unserved(c)' = Unserved(c)
      BY <1>1, <1>9, <2>1 DEF Unserved
    <3> QED
      BY <1>1, <1>3, <3>1, AlignStays
  <2>2. CASE gate[c] # "bridging"
    BY <1>1, <2>2 DEF AlignInv
  <2> QED
    BY <2>1, <2>2
<1> QED
  BY <1>4, <1>5, <1>6, <1>7, <1>10, <1>11, RowStep DEF StreamRow

(***************************************************************************)
(* One more reply is one more ACK for input exactly when it is one.        *)
(***************************************************************************)
LEMMA AcksCounted ==
  ASSUME NEW F \in Seq(Frames \cup Answers), NEW A, NEW more,
         more = InputAcks(F, A) \/ more = InputAcks(F, A) \cup {Len(F) + 1}
  PROVE  /\ Cardinality(InputAcks(F, A)) \in Nat
         /\ Cardinality(more) = IF more = InputAcks(F, A)
                                THEN Cardinality(InputAcks(F, A))
                                ELSE Cardinality(InputAcks(F, A)) + 1
<1>1. Len(F) \in Nat /\ Len(F) + 1 \notin 1..Len(F) /\ InputAcks(F, A) \subseteq 1..Len(F)
  BY SMTT(60) DEF InputAcks
<1>2. IsFiniteSet(InputAcks(F, A))
  <2>1. IsFiniteSet(1..Len(F))
    BY <1>1, FS_Interval, SMTT(60)
  <2> QED
    BY <1>1, <2>1, FS_Subset
<1>3. Cardinality(InputAcks(F, A)) \in Nat
  BY <1>2, FS_CardinalityType
<1>4. Cardinality(InputAcks(F, A) \cup {Len(F) + 1}) = Cardinality(InputAcks(F, A)) + 1
  <2>1. Len(F) + 1 \notin InputAcks(F, A)
    BY <1>1
  <2> QED
    BY <1>2, <2>1, FS_AddElement
<1> QED
  BY <1>3, <1>4

\* The daemon takes the oldest frame of the socket and answers f, going on to s.
Serves(c, f, s) ==
  /\ stage[c] = "reading" /\ up[c] # <<>> /\ up' = [up EXCEPT ![c] = Tail(@)]
  /\ Goto(c, s) /\ s \in {"replying", "closing"}
  /\ f \in RepliesTo(Head(up[c])) /\ f \in Frames \ {"attachment"}
  /\ reply' = [reply EXCEPT ![c] = f]
  /\ unacked' = IF gate[c] = "bridging" /\ f = "ack" /\ Head(up[c]) = "input"
                THEN [unacked EXCEPT ![c] = @ + 1] ELSE unacked
  /\ \A d \in Clients \ {c} : held'[d] = held[d]
  /\ UNCHANGED <<ends, down, gatewayVars>>

(***************************************************************************)
(* The streams after an answer: one reply more, one waiting request less.  *)
(***************************************************************************)
LEMMA ServesStreams ==
  ASSUME StreamInv, NEW c \in Clients, NEW f, NEW s, Serves(c, f, s)
  PROVE  /\ InFlight(c)' = Append(InFlight(c), f)
         /\ Unserved(c) # <<>> /\ Unserved(c)' = Tail(Unserved(c))
         /\ Head(Unserved(c)) = Head(up[c])
<1>1. /\ up[c] # <<>> /\ up'[c] = Tail(up[c]) /\ up[c] \in Seq(Requests)
      /\ down[c] \in Seq(Frames \cup Answers) /\ down' = down /\ carry' = carry
      /\ carry[c] # None => carry[c] \in Requests
      /\ reply'[c] = f /\ f \in Frames \ {"attachment"}
  BY DEF Serves, gatewayVars, StreamInv, StreamTypeOK
<1>2. f # None /\ reply[c] = None
  BY <1>1, ConsoleAssumption DEF Serves, StreamInv, StreamRow, ServiceInv
<1>3. Written(c) = down[c] /\ Written(c)' = Append(down[c], f)
  BY <1>1, <1>2 DEF Written
<1>4. InFlight(c)' = Append(InFlight(c), f)
  <2>1. CASE down[c] = <<>>
    <3>1. InFlight(c) = <<>>
      BY <1>3, <2>1 DEF InFlight
    <3>2. Head(Append(<<>>, f)) = f
      BY SMTT(60)
    <3>3. InFlight(c)' = Append(<<>>, f)
      BY <1>1, <1>3, <2>1, <3>2 DEF InFlight
    <3> QED
      BY <3>1, <3>3
  <2>2. CASE down[c] # <<>>
    <3>1. /\ Tail(Append(down[c], f)) = Append(Tail(down[c]), f)
          /\ Head(Append(down[c], f)) = Head(down[c])
      BY <1>1, <2>2, TailOfAppend, SMTT(60)
    <3>2. Append(down[c], f) # <<>>
      BY <1>1, SMTT(60)
    <3> QED
      BY <1>3, <2>2, <3>1, <3>2 DEF InFlight
  <2> QED
    BY <2>1, <2>2
<1>5. CASE carry[c] = None
  BY <1>1, <1>4, <1>5 DEF Unserved
<1>6. CASE carry[c] # None
  <2>1. /\ Tail(Append(up[c], carry[c])) = Append(Tail(up[c]), carry[c])
        /\ Head(Append(up[c], carry[c])) = Head(up[c])
        /\ Append(up[c], carry[c]) # <<>>
    BY <1>1, <1>6, TailOfAppend, SMTT(60)
  <2> QED
    BY <1>1, <1>4, <1>6, <2>1 DEF Unserved
<1> QED
  BY <1>5, <1>6

(***************************************************************************)
(* Answering the oldest request keeps the streams aligned.                 *)
(***************************************************************************)
LEMMA ServesFlows ==
  ASSUME ResourcesMatchSessions, StreamInv, NEW c \in Clients, NEW f, NEW s, Serves(c, f, s)
  PROVE  StreamInv'
<1>1. /\ stage[c] = "reading" /\ up[c] # <<>>
      /\ LinkInv(c) /\ ServiceInv(c) /\ HandshakeInv(c) /\ AlignInv(c)
  BY DEF Serves, StreamInv, StreamRow
<1>2. UNCHANGED <<ends, down, gate, carry, browser, asked>>
  BY DEF Serves, gatewayVars
<1>3. /\ stage'[c] = s /\ s \in {"replying", "closing"} /\ reply'[c] = f
      /\ f \in Frames \ {"attachment"} /\ f \in RepliesTo(Head(up[c]))
      /\ reply' \in [Clients -> Frames \cup Answers \cup {None}]
  BY DEF Serves, Goto, ResourcesMatchSessions, DaemonTypeOK, StreamInv, StreamTypeOK
<1>4. gate[c] \notin {"connecting", "switched"} /\ "daemon" \in ends[c]
  BY <1>1 DEF LinkInv, ServiceInv, Serving
<1>5. up' \in [Clients -> Seq(Requests)] /\ \A d \in Clients : Len(up'[d]) <= Capacity
  <2>1. Tail(up[c]) \in Seq(Requests) /\ Len(Tail(up[c])) <= Capacity
    BY <1>1, ConsoleAssumption, SMTT(60) DEF StreamInv, StreamTypeOK
  <2> QED
    BY <2>1 DEF Serves, StreamInv, StreamTypeOK
<1>6. unacked' \in [Clients -> Nat]
  BY SMTT(60) DEF Serves, StreamInv, StreamTypeOK
<1>7. StreamTypeOK'
  BY <1>2, <1>3, <1>5, <1>6 DEF StreamInv, StreamTypeOK
<1>8. OthersFlow(c)
  BY <1>2 DEF OthersFlow, Serves, Goto, ResourcesMatchSessions, DaemonTypeOK, StreamInv,
              StreamTypeOK
<1>9. LinkInv(c)'
  <2>1. gate[c] # "bridging" => unacked' = unacked
    BY DEF Serves
  <2> QED
    BY <1>1, <1>2, <1>4, <2>1 DEF LinkInv
<1>10. ServiceInv(c)' /\ HandshakeInv(c)'
  BY <1>2, <1>3, <1>4 DEF ServiceInv, HandshakeInv, Early, Preparing, Serving
<1>11. AlignInv(c)'
  <2>1. CASE gate[c] # "bridging"
    BY <1>2, <2>1 DEF AlignInv
  <2>2. CASE gate[c] = "bridging"
    <3>1. /\ InFlight(c)' = Append(InFlight(c), f)
          /\ Unserved(c) # <<>> /\ Unserved(c)' = Tail(Unserved(c))
          /\ Head(Unserved(c)) = Head(up[c])
      BY ServesStreams
    <3>2. /\ InFlight(c) \in Seq(Frames \cup Answers) /\ Unserved(c) \in Seq(Requests)
          /\ asked[c] \in Seq(Requests)
      BY StreamTypes DEF StreamInv, StreamTypeOK
    <3>3. /\ Answer(InFlight(c), asked[c]) /\ Await(Unserved(c), InFlight(c), asked[c])
          /\ unacked[c] = Cardinality(InputAcks(InFlight(c), asked[c]))
      BY <1>1, <1>4, <2>2 DEF AlignInv
    <3>4. f \in RepliesTo(Head(Unserved(c))) /\ f \in Frames
      BY <1>3, <3>1
    <3>5. /\ Answer(Append(InFlight(c), f), asked[c])
          /\ Await(Tail(Unserved(c)), Append(InFlight(c), f), asked[c])
          /\ InputAcks(Append(InFlight(c), f), asked[c]) =
               InputAcks(InFlight(c), asked[c]) \cup
                 (IF f = "ack" /\ Head(Unserved(c)) = "input" THEN {Len(InFlight(c)) + 1} ELSE {})
      BY <3>1, <3>2, <3>3, <3>4, ServeKeepsStreams
    <3>6. unacked'[c] = IF f = "ack" /\ Head(up[c]) = "input" THEN unacked[c] + 1
                                                             ELSE unacked[c]
      BY <2>2 DEF Serves, StreamInv, StreamTypeOK
    <3>7. unacked'[c] = Cardinality(InputAcks(Append(InFlight(c), f), asked[c]))
      <4>1. Len(InFlight(c)) + 1 \notin InputAcks(InFlight(c), asked[c])
        BY <3>2, SMTT(60) DEF InputAcks
      <4>2. CASE f = "ack" /\ Head(up[c]) = "input"
        <5>1. InputAcks(Append(InFlight(c), f), asked[c]) =
                InputAcks(InFlight(c), asked[c]) \cup {Len(InFlight(c)) + 1}
          BY <3>1, <3>5, <4>2
        <5>2. InputAcks(Append(InFlight(c), f), asked[c]) # InputAcks(InFlight(c), asked[c])
          BY <4>1, <5>1
        <5>3. Cardinality(InputAcks(Append(InFlight(c), f), asked[c])) =
                Cardinality(InputAcks(InFlight(c), asked[c])) + 1
          BY <3>2, <5>1, <5>2, AcksCounted
        <5> QED
          BY <3>3, <3>6, <4>2, <5>3
      <4>3. CASE ~(f = "ack" /\ Head(up[c]) = "input")
        <5>1. InputAcks(Append(InFlight(c), f), asked[c]) = InputAcks(InFlight(c), asked[c])
          BY <3>1, <3>5, <4>3
        <5> QED
          BY <3>3, <3>6, <4>3, <5>1
      <4> QED
        BY <4>2, <4>3
    <3> QED
      BY <1>2, <3>1, <3>5, <3>7 DEF AlignInv
  <2> QED
    BY <2>1, <2>2
<1> QED
  BY <1>7, <1>8, <1>9, <1>10, <1>11, RowStep DEF StreamRow

(***************************************************************************)
(* The loop of `serve_framed_console`: every request it understands is     *)
(* answered by the frame its kind allows; on another it gives up.          *)
(***************************************************************************)
LEMMA ServeFrameFlows ==
  ASSUME ResourcesMatchSessions, StreamInv, NEW c \in Clients, ServeFrame(c)
  PROVE  StreamInv'
<1>1. /\ stage[c] = "reading" /\ up[c] # <<>> /\ up' = [up EXCEPT ![c] = Tail(@)]
      /\ UNCHANGED <<ends, down, gatewayVars>> /\ Head(up[c]) \in Requests
  BY SMTT(60) DEF ServeFrame, StreamInv, StreamTypeOK
<1>2. \/ Head(up[c]) = "input" /\ ServeInput(c)
      \/ Head(up[c]) = "read" /\ ServeRead(c)
      \/ /\ Head(up[c]) = "detach" /\ Close(c, "ClientDetached", "closed")
         /\ UNCHANGED unacked
      \/ Head(up[c]) = "resize" /\ Respond(c, "error") /\ UNCHANGED unacked
      \/ /\ Head(up[c]) = "bad" /\ Goto(c, "dropping")
         /\ UNCHANGED <<limiter, attached, held, closed, reply, unacked>>
  BY <1>1 DEF ServeFrame, Requests
<1>3. ASSUME NEW f \in Frames, NEW reason, Close(c, reason, f) \/ Respond(c, f)
      PROVE  /\ \E s \in {"replying", "closing"} : Goto(c, s)
             /\ reply' = [reply EXCEPT ![c] = f]
             /\ \A d \in Clients \ {c} : held'[d] = held[d]
  BY <1>3 DEF Close, Respond, Drop, Give, ResourcesMatchSessions, DaemonTypeOK
<1>4. ASSUME NEW f \in Frames \ {"attachment"}, f \in RepliesTo(Head(up[c])), NEW reason,
             Close(c, reason, f) \/ Respond(c, f),
             unacked' = IF gate[c] = "bridging" /\ f = "ack" /\ Head(up[c]) = "input"
                        THEN [unacked EXCEPT ![c] = @ + 1] ELSE unacked
      PROVE  StreamInv'
  <2>1. PICK s \in {"replying", "closing"} : Goto(c, s)
    BY <1>3, <1>4
  <2>2. Serves(c, f, s)
    BY <1>1, <1>3, <1>4, <2>1 DEF Serves
  <2> QED
    BY <2>2, ServesFlows
<1>5. CASE Head(up[c]) = "input" /\ ServeInput(c)
  BY <1>4, <1>5 DEF ServeInput, RepliesTo, Frames
<1>6. CASE Head(up[c]) = "read" /\ ServeRead(c)
  BY <1>4, <1>6 DEF ServeRead, RepliesTo, Frames
<1>7. CASE /\ Head(up[c]) = "detach" /\ Close(c, "ClientDetached", "closed")
           /\ UNCHANGED unacked
  BY <1>4, <1>7 DEF RepliesTo, Frames
<1>8. CASE Head(up[c]) = "resize" /\ Respond(c, "error") /\ UNCHANGED unacked
  BY <1>4, <1>8 DEF RepliesTo, Frames
<1>9. CASE /\ Head(up[c]) = "bad" /\ Goto(c, "dropping")
           /\ UNCHANGED <<limiter, attached, held, closed, reply, unacked>>
  <2>1. /\ stage'[c] = "dropping" /\ up'[c] = Tail(up[c])
        /\ UNCHANGED <<held, reply, ends, down, gate, carry, browser, asked, unacked>>
    BY <1>1, <1>9 DEF gatewayVars, Goto, ResourcesMatchSessions, DaemonTypeOK, StreamInv,
                      StreamTypeOK
  <2>2. LinkInv(c) /\ ServiceInv(c) /\ HandshakeInv(c) /\ AlignInv(c)
    BY DEF StreamInv, StreamRow
  <2>3. /\ gate[c] \notin {"connecting", "switched"} /\ "daemon" \in ends[c]
        /\ reply[c] = None
    BY <1>1, <2>2 DEF LinkInv, ServiceInv, Serving
  <2>4. OthersFlow(c)
    BY <1>1, <1>9, <2>1 DEF OthersFlow, Goto, ResourcesMatchSessions, DaemonTypeOK, StreamInv,
                            StreamTypeOK
  <2>5. StreamTypeOK'
    <3>1. Tail(up[c]) \in Seq(Requests) /\ Len(Tail(up[c])) <= Capacity
      BY <1>1, ConsoleAssumption, SMTT(60) DEF StreamInv, StreamTypeOK
    <3>2. up' \in [Clients -> Seq(Requests)] /\ \A d \in Clients : Len(up'[d]) <= Capacity
      BY <1>1, <3>1 DEF StreamInv, StreamTypeOK
    <3> QED
      BY <2>1, <3>2 DEF StreamInv, StreamTypeOK
  <2>6. LinkInv(c)'
    BY <2>1, <2>2, <2>3 DEF LinkInv
  <2>7. ServiceInv(c)' /\ HandshakeInv(c)'
    BY <2>1, <2>3 DEF ServiceInv, HandshakeInv, Early, Preparing, Serving
  <2>8. AlignInv(c)'
    <3>1. Written(c)' = Written(c)
      BY <2>1 DEF Written
    <3>2. InFlight(c)' = InFlight(c)
      BY <3>1 DEF InFlight
    <3> QED
      BY <2>1, <2>2, <3>2 DEF AlignInv
  <2> QED
    BY <2>4, <2>5, <2>6, <2>7, <2>8, RowStep, SMTT(60) DEF StreamRow
<1> QED
  BY <1>2, <1>5, <1>6, <1>7, <1>8, <1>9

(***************************************************************************)
(* The rest of a session writes nothing: the gateway is gone, the lease    *)
(* goes, or everything does.                                               *)
(***************************************************************************)
LEMMA SessionEndFlows ==
  ASSUME ResourcesMatchSessions, StreamInv, NEW c \in Clients,
         ServeEnd(c) \/ CloseLease(c) \/ Dropping(c)
  PROVE  StreamInv'
<1>1. LinkInv(c) /\ ServiceInv(c) /\ HandshakeInv(c) /\ StageHolds(c)
  BY DEF StreamInv, StreamRow, ResourcesMatchSessions
<1>2. CASE ServeEnd(c)
  <2>1. /\ stage[c] = "reading" /\ "gateway" \notin ends[c]
        /\ UNCHANGED <<socketVars, gatewayVars, unacked>>
    BY <1>2 DEF ServeEnd
  <2>2. gate[c] = "idle" /\ reply[c] = None /\ "daemon" \in ends[c]
    BY <1>1, <2>1 DEF LinkInv, ServiceInv, Serving
  <2>3. /\ stage'[c] \in {"closing", "dropping"} /\ reply'[c] = None
        /\ reply' = reply
        /\ \A d \in Clients \ {c} : stage'[d] = stage[d] /\ held'[d] = held[d]
    BY <1>2, <2>2, SMTT(60) DEF ServeEnd, Close, Drop, Give, Goto, ResourcesMatchSessions, DaemonTypeOK,
                      StreamInv, StreamTypeOK
  <2>4. ServiceInv(c)'
    BY <2>1, <2>2, <2>3 DEF ServiceInv, Early, Preparing, Serving, socketVars
  <2> QED
    BY <2>1, <2>2, <2>3, <2>4, QuietFlows DEF Serving
<1>3. CASE CloseLease(c)
  <2>1. /\ stage[c] = "closing" /\ UNCHANGED <<reply, socketVars, gatewayVars, unacked>>
        /\ stage'[c] = IF reply[c] = None THEN "dropping" ELSE "replying"
        /\ \A d \in Clients \ {c} : stage'[d] = stage[d] /\ held'[d] = held[d]
    BY <1>3 DEF CloseLease, Drop, Give, Goto, ResourcesMatchSessions, DaemonTypeOK
  <2>2. /\ gate[c] \in {"idle", "bridging"} /\ "daemon" \in ends[c]
        /\ reply[c] \in (Frames \ {"attachment"}) \cup {None}
    BY <1>1, <2>1 DEF HandshakeInv, ServiceInv, Serving, StreamInv, StreamTypeOK
  <2>3. ServiceInv(c)'
    BY <2>1, <2>2 DEF ServiceInv, Early, Preparing, Serving, socketVars
  <2> QED
    BY <2>1, <2>2, <2>3, QuietFlows DEF Serving
<1>4. CASE Dropping(c)
  <2>1. /\ stage[c] = "dropping" /\ UNCHANGED <<reply, gatewayVars, unacked>>
        /\ reply[c] = None
    BY <1>1, <1>4 DEF Dropping, ServiceInv
  <2>2. PICK s \in {"none", "dropping"} : Goto(c, s)
    <3>1. UNCHANGED stage => Goto(c, "dropping")
      BY <2>1 DEF Goto, ResourcesMatchSessions, DaemonTypeOK
    <3> QED
      BY <1>4, <3>1 DEF Dropping
  <2>3. \A d \in Clients \ {c} : held'[d] = held[d]
    BY <1>4 DEF Dropping, DropNext, Drop, Give, ResourcesMatchSessions, DaemonTypeOK
  <2>4. CASE "daemon" \in ends[c]
    <3>1. CloseEnd(c, "daemon")
      BY <1>4, <2>4 DEF Dropping
    <3> QED
      BY <2>1, <2>2, <2>3, <3>1, ClosingFlows
  <2>5. CASE "daemon" \notin ends[c]
    <3>1. UNCHANGED socketVars
      BY <1>4, <2>5 DEF Dropping
    <3>2. stage'[c] = s /\ \A d \in Clients \ {c} : stage'[d] = stage[d]
      BY <2>2 DEF Goto, ResourcesMatchSessions, DaemonTypeOK
    <3>3. ServiceInv(c)'
      BY <2>1, <2>5, <3>1, <3>2 DEF ServiceInv, Early, Preparing, Serving, socketVars
    <3> QED
      BY <2>1, <2>3, <3>1, <3>2, <3>3, QuietFlows
  <2> QED
    BY <2>4, <2>5
<1> QED
  BY <1>2, <1>3, <1>4

(***************************************************************************)
(* Before the first console is opened all streams are empty.               *)
(***************************************************************************)
LEMMA InitFlows ==
  ASSUME Init
  PROVE  StreamInv
<1>1. StreamTypeOK
  <2>1. <<>> \in Seq(Requests) /\ <<>> \in Seq(Frames \cup Answers) /\ Len(<<>>) <= Capacity
    BY ConsoleAssumption, SMTT(60)
  <2> QED
    BY <2>1 DEF Init, StreamTypeOK
<1>2. ASSUME NEW c \in Clients
      PROVE  StreamRow(c)
  <2>1. LinkInv(c)
    BY DEF Init, LinkInv
  <2>2. ServiceInv(c)
    BY DEF Init, ServiceInv, Early, Preparing, Serving
  <2>3. HandshakeInv(c) /\ AlignInv(c)
    BY DEF Init, HandshakeInv, AlignInv
  <2> QED
    BY <2>1, <2>2, <2>3 DEF StreamRow
<1> QED
  BY <1>1, <1>2 DEF StreamInv

(***************************************************************************)
(* Every step keeps the streams in order.                                  *)
(***************************************************************************)
LEMMA StepFlows ==
  ASSUME ResourcesMatchSessions, StreamInv, [Next]_vars
  PROVE  StreamInv'
<1>1. ASSUME NEW c \in Clients, NEW i \in Instances, OpenConsole(c, i)
      PROVE  StreamInv'
  BY <1>1, OpenConsoleFlows
<1>2. ASSUME NEW c \in Clients, NEW m \in Requests, BridgeTakes(c, m)
      PROVE  StreamInv'
  BY <1>2, BridgeTakesFlows
<1>3. ASSUME NEW c \in Clients, BrowserLeaves(c) \/ HandshakeEnds(c)
      PROVE  StreamInv'
  BY <1>3, BrowserLeavesFlows, HangUpFlows DEF HandshakeEnds
<1>4. ASSUME NEW c \in Clients, GatewayStep(c)
      PROVE  StreamInv'
  <2>1. BridgeEnds(c) => HangUp(c)
    BY DEF BridgeEnds
  <2> QED
    BY <1>4, <2>1, ReadAnswerFlows, StartBridgeFlows, BridgeWritesFlows, BridgeReadsFlows,
       HangUpFlows DEF GatewayStep
<1>5. ASSUME NEW c \in Clients, PrepareStep(c)
      PROVE  StreamInv'
  BY <1>5, AcceptFlows, PrepareStepFlows, RejectingFlows, SMTT(60) DEF PrepareStep
<1>6. ASSUME NEW c \in Clients, ServeStep(c)
      PROVE  StreamInv'
  BY <1>6, AnswerUpgradeFlows, HandOverFlows, ServeFrameFlows, SessionEndFlows,
     WriteFrameFlows DEF ServeStep
<1>7. ASSUME NEW c \in Clients, ConnectionEnds(c) \/ BacklogResets(c)
      PROVE  StreamInv'
  BY <1>7, ConnectionEndsFlows, AcceptFlows
<1>8. CASE Shutdown \/ Exit \/ Restart \/ UNCHANGED vars
  <2>1. UNCHANGED <<stage, held, reply, ends, up, down, gate, carry, browser, asked, unacked>>
    BY <1>8 DEF Shutdown, Exit, Restart, vars, daemonVars, socketVars, gatewayVars
  <2>2. StreamTypeOK'
    BY <2>1 DEF StreamInv, StreamTypeOK
  <2>3. ASSUME NEW c \in Clients
        PROVE  StreamRow(c)'
    <3>1. LinkInv(c) /\ ServiceInv(c) /\ HandshakeInv(c) /\ AlignInv(c)
      BY DEF StreamInv, StreamRow
    <3>2. LinkInv(c)' /\ ServiceInv(c)'
      <4>1. LinkInv(c)'
        BY <2>1, <3>1 DEF LinkInv
      <4>2. ServiceInv(c)'
        BY <2>1, <3>1 DEF ServiceInv
      <4> QED
        BY <4>1, <4>2
    <3>3. Written(c)' = Written(c) /\ Unserved(c)' = Unserved(c)
      BY <2>1 DEF Written, Unserved
    <3>4. HandshakeInv(c)'
      BY <2>1, <3>1, <3>3 DEF HandshakeInv
    <3>5. AlignInv(c)'
      BY <2>1, <3>1, <3>3, AlignStays
    <3> QED
      BY <3>2, <3>4, <3>5 DEF StreamRow
  <2> QED
    BY <2>2, <2>3 DEF StreamInv
<1> QED
  BY <1>1, <1>2, <1>3, <1>4, <1>5, <1>6, <1>7, <1>8 DEF Next

(***************************************************************************)
(* Whatever the browser sends ahead, however the device answers and        *)
(* whenever either side closes, `bridge` and `serve_framed_console` never  *)
(* get out of step: the k-th reply on its way answers the browser's k-th   *)
(* open request, and each ACK for input stands for one write to the        *)
(* device.  For any buffer size, window and number of clients.             *)
(***************************************************************************)
THEOREM RepliesMatch == Spec => []RepliesMatchRequests
<1>1. Init => StreamInv
  BY InitFlows
<1>2. ResourcesMatchSessions /\ StreamInv /\ [Next]_vars => StreamInv'
  BY StepFlows
<1>3. StreamInv => RepliesMatchRequests
  BY DEF StreamInv, StreamRow, AlignInv, RepliesMatchRequests
<1> QED
  BY <1>1, <1>2, <1>3, ResourcesMatch, PTL DEF Spec, Safety

-----------------------------------------------------------------------------
(* Why sessions end: the safety half of SessionsEnd.                       *)

\* The browser is gone and the daemon still holds something for the session.
Draining(c) == browser[c] # "here" /\ held[c] # {}

\* The guards of the gateway's task, of prepare_upgrade, of the thread that
\* serves the upgrade and of the connection's task.
GatewayReady(c) ==
  \/ gate[c] \in {"connecting", "switched"}
  \/ carry[c] # None /\ ("daemon" \notin ends[c] \/ Len(up[c]) < Capacity)
  \/ /\ gate[c] = "bridging" /\ carry[c] = None
     /\ browser[c] = "left" \/ down[c] # <<>> \/ "daemon" \notin ends[c]

PrepareReady(c) ==
  \/ stage[c] = "backlog" /\ phase = "running"
  \/ stage[c] \in {"request", "rejecting"} \cup (Preparing \ {"prepared"})

ServeReady(c) ==
  \/ stage[c] \in {"prepared", "switching", "closing", "dropping"}
  \/ stage[c] = "reading" /\ (up[c] # <<>> \/ "gateway" \notin ends[c])
  \/ stage[c] = "replying" /\ ("gateway" \notin ends[c] \/ Len(down[c]) < Capacity)

ConnectionReady(c) ==
  "connection" \in held[c] /\ ("gateway" \notin ends[c] \/ phase = "stopping")

Ready(c) == GatewayReady(c) \/ PrepareReady(c) \/ ServeReady(c) \/ ConnectionReady(c)

(***************************************************************************)
(* A session whose browser is gone can go on at the gateway or in the      *)
(* daemon, unless bridge and daemon wait for each other: the mutual wait   *)
(* is the one way to get stuck, and it is stuck.                           *)
(***************************************************************************)
OnlyMutualWaitSticks == \A c \in Clients : Draining(c) => (Ready(c) <=> ~MutualWait(c))

(***************************************************************************)
(* Nothing ends a mutual wait: `write_all` in the bridge and               *)
(* `write_protocol_frame` in the daemon have no deadline, so neither a     *)
(* browser that leaves nor a shutdown of the daemon gets through to them.  *)
(***************************************************************************)
MutualWaitLasts == [][\A c \in Clients : MutualWait(c) => MutualWait(c)']_vars

\* An upper bound on the steps a session without a browser can still take:
\* those of the daemon at its stage, one for each value to drop, those of the
\* gateway, and those that each frame on its way can cause.
StageSteps(s, reason) ==
  CASE s = "none" -> 0 [] s \in {"dropping", "answered"} -> 1
    [] s = "rejecting" -> 3 [] s = "closing" -> 4 [] s = "reading" -> 5
    [] s = "replying" -> IF reason = None THEN 7 ELSE 3
    [] s = "switching" -> 8 [] s = "prepared" -> 10 [] s = "opened" -> 11
    [] s = "leased" -> 13 [] s = "permitted" -> 15 [] s = "active" -> 17
    [] s = "observing" -> 18 [] s = "request" -> 19 [] OTHER -> 21

HeldSteps(h) ==
  (IF "connection" \in h THEN 1 ELSE 0) + (IF "console" \in h THEN 1 ELSE 0)
    + (IF "device" \in h THEN 1 ELSE 0) + (IF "lease" \in h THEN 1 ELSE 0)

GateSteps(g, message) ==
  (CASE g = "connecting" -> 3 [] g = "switched" -> 2 [] g = "bridging" -> 1 [] OTHER -> 0)
    + (IF message = None THEN 0 ELSE 4)

StepsLeft(c) ==
  StageSteps(stage[c], closed[c]) + HeldSteps(held[c]) + GateSteps(gate[c], carry[c])
    + Len(down[c]) + 3 * Len(up[c])

SessionStep(c) ==
  \/ GatewayStep(c) \/ HandshakeEnds(c) \/ PrepareStep(c) \/ ServeStep(c)
  \/ ConnectionEnds(c)

\* Each of them takes from the bound, and no other step adds to it.
Drains(c) ==
  Draining(c) => /\ StepsLeft(c)' <= StepsLeft(c)
                 /\ SessionStep(c) => StepsLeft(c)' < StepsLeft(c)

SessionsDrain == [][\A c \in Clients : Drains(c)]_vars

StepsBounded == \A c \in Clients : StepsLeft(c) \in 0..(4 * Capacity + 32)

(***************************************************************************)
(* The parts of the bound are natural numbers.                             *)
(***************************************************************************)
LEMMA StepTypes ==
  /\ \A s, reason : StageSteps(s, reason) \in 0..21
  /\ \A h : HeldSteps(h) \in 0..4
  /\ \A g, message : GateSteps(g, message) \in 0..7
<1>1. \A s, reason : StageSteps(s, reason) \in 0..21
  BY SMTT(60) DEF StageSteps
<1>2. \A h : HeldSteps(h) \in 0..4
  BY SMTT(60) DEF HeldSteps
<1>3. \A g, message : GateSteps(g, message) \in 0..7
  BY SMTT(60) DEF GateSteps
<1> QED
  BY <1>1, <1>2, <1>3

(***************************************************************************)
(* Taking a value adds one drop, dropping it takes one away.               *)
(***************************************************************************)
LEMMA HeldChanges ==
  ASSUME NEW h, NEW r \in Resources
  PROVE  /\ HeldSteps(h \cup {r}) <= HeldSteps(h) + 1
         /\ r \in h => HeldSteps(h \ {r}) = HeldSteps(h) - 1
<1>1. CASE r = "connection"
  BY <1>1, SMTT(60) DEF HeldSteps
<1>2. CASE r = "console"
  BY <1>2, SMTT(60) DEF HeldSteps
<1>3. CASE r = "device"
  BY <1>3, SMTT(60) DEF HeldSteps
<1>4. CASE r = "lease"
  BY <1>4, SMTT(60) DEF HeldSteps
<1> QED
  BY <1>1, <1>2, <1>3, <1>4 DEF Resources

(***************************************************************************)
(* The bound falls when what one part of it gains the others lose.         *)
(***************************************************************************)
LEMMA Fewer ==
  ASSUME NEW c \in Clients,
         NEW a \in Int, NEW b \in Int, NEW g \in Int, NEW d \in Int, NEW u \in Int,
         StreamTypeOK,
         StageSteps(stage'[c], closed'[c]) <= StageSteps(stage[c], closed[c]) + a,
         HeldSteps(held'[c]) <= HeldSteps(held[c]) + b,
         GateSteps(gate'[c], carry'[c]) <= GateSteps(gate[c], carry[c]) + g,
         Len(down'[c]) \in Nat, Len(down'[c]) <= Len(down[c]) + d,
         Len(up'[c]) \in Nat, Len(up'[c]) <= Len(up[c]) + u,
         a + b + g + d + 3 * u < 0
  PROVE  StepsLeft(c)' < StepsLeft(c)
<1>1. PICK m \in Nat, n \in Nat, m1 \in Nat, n1 \in Nat :
        m = Len(down[c]) /\ n = Len(up[c]) /\ m1 = Len(down'[c]) /\ n1 = Len(up'[c])
  <2>1. Len(down[c]) \in Nat /\ Len(up[c]) \in Nat
    BY SMTT(60) DEF StreamTypeOK
  <2> QED
    BY <2>1
<1>2. PICK s \in Nat, s1 \in Nat, h \in Nat, h1 \in Nat, k \in Nat, k1 \in Nat :
        /\ s = StageSteps(stage[c], closed[c]) /\ s1 = StageSteps(stage'[c], closed'[c])
        /\ h = HeldSteps(held[c]) /\ h1 = HeldSteps(held'[c])
        /\ k = GateSteps(gate[c], carry[c]) /\ k1 = GateSteps(gate'[c], carry'[c])
  <2>1. \A x \in 0..21 : x \in Nat
    BY SMTT(60)
  <2>2. (\A x \in 0..4 : x \in Nat) /\ (\A x \in 0..7 : x \in Nat)
    BY SMTT(60)
  <2> QED
    BY <2>1, <2>2, StepTypes
<1>3. s1 + h1 + k1 + m1 + 3 * n1 < s + h + k + m + 3 * n
  <2>1. s1 <= s + a /\ h1 <= h + b /\ k1 <= k + g
    BY <1>2
  <2>2. m1 <= m + d /\ n1 <= n + u
    BY <1>1
  <2>3. a + b + g + d + 3 * u < 0
    OBVIOUS
  <2> QED
    BY <2>1, <2>2, <2>3, SMTT(60)
<1> QED
  BY <1>1, <1>2, <1>3 DEF StepsLeft

(***************************************************************************)
(* The gateway's task ends.                                                *)
(***************************************************************************)
LEMMA HangUpDrains ==
  ASSUME StreamInv, NEW c \in Clients, gate[c] # "idle", HangUp(c)
  PROVE  StepsLeft(c)' < StepsLeft(c)
<1>0. StreamTypeOK
  BY DEF StreamInv
<1>1. /\ gate'[c] = "idle" /\ carry'[c] = None /\ up' = up
      /\ down'[c] \in {down[c], <<>>}
      /\ UNCHANGED <<stage, held, closed>>
  BY <1>0 DEF StreamTypeOK, HangUp, CloseEnd, daemonVars
<1>2. GateSteps(gate'[c], carry'[c]) <= GateSteps(gate[c], carry[c]) + (-1)
  <2>1. gate[c] \in {"idle", "connecting", "switched", "bridging"}
    BY <1>0 DEF StreamTypeOK
  <2> QED
    BY <1>1, <2>1, SMTT(60) DEF GateSteps
<1>3. /\ Len(down'[c]) \in Nat /\ Len(down'[c]) <= Len(down[c]) + 0
      /\ Len(up'[c]) \in Nat /\ Len(up'[c]) <= Len(up[c]) + 0
  BY <1>0, <1>1, SMTT(60) DEF StreamTypeOK
<1>4. /\ StageSteps(stage'[c], closed'[c]) <= StageSteps(stage[c], closed[c]) + 0
      /\ HeldSteps(held'[c]) <= HeldSteps(held[c]) + 0
  BY <1>1, StepTypes, SMTT(60)
<1>5. 0 + 0 + (-1) + 0 + 3 * 0 < 0 /\ 0 \in Int /\ -1 \in Int
  BY SMTT(60)
<1> QED
  BY <1>0, <1>2, <1>3, <1>4, <1>5, Fewer

(***************************************************************************)
(* Reading from a queue shortens it, writing to it lengthens it.           *)
(***************************************************************************)
LEMMA QueueLengths ==
  ASSUME NEW S, NEW q \in Seq(S)
  PROVE  /\ Len(q) \in Nat
         /\ q # <<>> => Len(Tail(q)) \in Nat /\ Len(Tail(q)) <= Len(q) + (-1)
         /\ \A e \in S : Len(Append(q, e)) \in Nat /\ Len(Append(q, e)) <= Len(q) + 1
  BY SMTT(60)

(***************************************************************************)
(* What does not change costs nothing.                                     *)
(***************************************************************************)
LEMMA NoChange ==
  ASSUME StreamTypeOK, NEW c \in Clients
  PROVE  /\ stage'[c] = stage[c] /\ closed'[c] = closed[c] =>
              StageSteps(stage'[c], closed'[c]) <= StageSteps(stage[c], closed[c]) + 0
         /\ held'[c] = held[c] => HeldSteps(held'[c]) <= HeldSteps(held[c]) + 0
         /\ gate'[c] = gate[c] /\ carry'[c] = carry[c] =>
              GateSteps(gate'[c], carry'[c]) <= GateSteps(gate[c], carry[c]) + 0
         /\ down'[c] = down[c] => Len(down'[c]) \in Nat /\ Len(down'[c]) <= Len(down[c]) + 0
         /\ up'[c] = up[c] => Len(up'[c]) \in Nat /\ Len(up'[c]) <= Len(up[c]) + 0
<1>1. \A n \in Nat : n <= n + 0
  BY SMTT(60)
<1>2. (0..21) \subseteq Nat /\ (0..4) \subseteq Nat /\ (0..7) \subseteq Nat
  BY SMTT(60)
<1>3. /\ StageSteps(stage[c], closed[c]) \in Nat /\ HeldSteps(held[c]) \in Nat
      /\ GateSteps(gate[c], carry[c]) \in Nat
  BY <1>2, StepTypes
<1>4. Len(down[c]) \in Nat /\ Len(up[c]) \in Nat
  BY QueueLengths DEF StreamTypeOK
<1> QED
  BY <1>1, <1>3, <1>4

(***************************************************************************)
(* A step of the gateway for a browser that has left.                      *)
(***************************************************************************)
LEMMA GatewayDrains ==
  ASSUME StreamInv, NEW c \in Clients, browser[c] # "here",
         GatewayStep(c) \/ HandshakeEnds(c)
  PROVE  StepsLeft(c)' < StepsLeft(c)
<1>0. StreamTypeOK /\ LinkInv(c)
  BY DEF StreamInv, StreamRow
<1>1. /\ gate[c] \in {"idle", "connecting", "switched", "bridging"}
      /\ down[c] \in Seq(Frames \cup Answers) /\ up[c] \in Seq(Requests)
      /\ carry[c] \in Requests \cup {None}
  BY <1>0 DEF StreamTypeOK
<1>2. ASSUME gate[c] # "idle", HangUp(c)
      PROVE  StepsLeft(c)' < StepsLeft(c)
  BY <1>2, HangUpDrains
<1>3. 0 \in Int /\ 1 \in Int /\ -1 \in Int /\ -4 \in Int
  BY SMTT(60)
<1>4. CASE ReadAnswer(c) \/ HandshakeEnds(c)
  <2>1. gate[c] = "connecting"
    BY <1>4 DEF ReadAnswer, HandshakeEnds
  <2>2. CASE HangUp(c)
    BY <1>2, <2>1, <2>2
  <2>3. CASE /\ down[c] # <<>> /\ gate' = [gate EXCEPT ![c] = "switched"]
             /\ down' = [down EXCEPT ![c] = Tail(@)]
             /\ UNCHANGED <<world, daemonVars, ends, up, carry, browser, asked, unacked>>
    <3>1. /\ gate'[c] = "switched" /\ down'[c] = Tail(down[c]) /\ carry' = carry /\ up' = up
          /\ UNCHANGED <<stage, held, closed>>
      BY <1>0, <2>3 DEF StreamTypeOK, daemonVars
    <3>2. GateSteps(gate'[c], carry'[c]) <= GateSteps(gate[c], carry[c]) + (-1)
      BY <2>1, <3>1, SMTT(60) DEF GateSteps
    <3>3. Len(down'[c]) \in Nat /\ Len(down'[c]) <= Len(down[c]) + (-1)
      BY <1>1, <2>3, <3>1, QueueLengths
    <3>4. 0 + 0 + (-1) + (-1) + 3 * 0 < 0
      BY SMTT(60)
    <3> QED
      BY <1>0, <1>3, <3>1, <3>2, <3>3, <3>4, NoChange, Fewer
  <2> QED
    BY <1>4, <2>2, <2>3 DEF ReadAnswer, HandshakeEnds
<1>5. CASE StartBridge(c)
  BY <1>2, <1>5 DEF StartBridge
<1>6. CASE BridgeWrites(c)
  <2>1. carry[c] # None /\ gate[c] = "bridging"
    BY <1>0, <1>6 DEF BridgeWrites, LinkInv
  <2>2. CASE HangUp(c)
    BY <1>2, <2>1, <2>2
  <2>3. CASE /\ up' = [up EXCEPT ![c] = Append(@, carry[c])]
             /\ carry' = [carry EXCEPT ![c] = None]
             /\ UNCHANGED <<world, daemonVars, ends, down, gate, browser, asked, unacked>>
    <3>1. /\ carry'[c] = None /\ up'[c] = Append(up[c], carry[c])
          /\ gate' = gate /\ down' = down /\ UNCHANGED <<stage, held, closed>>
      BY <1>0, <2>3 DEF StreamTypeOK, daemonVars
    <3>2. GateSteps(gate'[c], carry'[c]) <= GateSteps(gate[c], carry[c]) + (-4)
      BY <2>1, <3>1, SMTT(60) DEF GateSteps
    <3>3. Len(up'[c]) \in Nat /\ Len(up'[c]) <= Len(up[c]) + 1
      BY <1>1, <2>1, <3>1, QueueLengths
    <3>4. 0 + 0 + (-4) + 0 + 3 * 1 < 0
      BY SMTT(60)
    <3> QED
      BY <1>0, <1>3, <3>1, <3>2, <3>3, <3>4, NoChange, Fewer
  <2> QED
    BY <1>6, <2>2, <2>3 DEF BridgeWrites
<1>7. CASE BridgeReads(c)
  <2>1. /\ down[c] # <<>> /\ down'[c] = Tail(down[c])
        /\ UNCHANGED <<stage, held, closed, up, gate, carry>>
    BY <1>0, <1>7 DEF BridgeReads, StreamTypeOK, daemonVars
  <2>2. Len(down'[c]) \in Nat /\ Len(down'[c]) <= Len(down[c]) + (-1)
    BY <1>1, <2>1, QueueLengths
  <2>3. 0 + 0 + 0 + (-1) + 3 * 0 < 0
    BY SMTT(60)
  <2> QED
    BY <1>0, <1>3, <2>1, <2>2, <2>3, NoChange, Fewer
<1>8. CASE BridgeEnds(c)
  BY <1>2, <1>8 DEF BridgeEnds
<1> QED
  BY <1>4, <1>5, <1>6, <1>7, <1>8 DEF GatewayStep

(***************************************************************************)
(* What a step of the daemon does to the values a session holds, and to    *)
(* the two queues when it closes its end of the socket or leaves it alone. *)
(***************************************************************************)
LEMMA HeldMoves ==
  ASSUME DaemonTypeOK, NEW c \in Clients, NEW r \in Resources
  PROVE  /\ Take(c, r) => HeldSteps(held'[c]) <= HeldSteps(held[c]) + 1
         /\ r \in held[c] /\ Give(c, r) => HeldSteps(held'[c]) <= HeldSteps(held[c]) + (-1)
<1>1. ASSUME Take(c, r) PROVE HeldSteps(held'[c]) <= HeldSteps(held[c]) + 1
  <2>1. held'[c] = held[c] \cup {r}
    BY <1>1 DEF Take, DaemonTypeOK
  <2> QED
    BY <2>1, HeldChanges
<1>2. ASSUME r \in held[c], Give(c, r)
      PROVE  HeldSteps(held'[c]) <= HeldSteps(held[c]) + (-1)
  <2>1. held'[c] = held[c] \ {r}
    BY <1>2 DEF Give, DaemonTypeOK
  <2>2. \A n \in 0..4 : n - 1 <= n + (-1)
    BY SMTT(60)
  <2> QED
    BY <1>2, <2>1, <2>2, HeldChanges, StepTypes
<1> QED
  BY <1>1, <1>2

LEMMA SocketShrinks ==
  ASSUME StreamTypeOK, NEW c \in Clients, CloseEnd(c, "daemon") \/ UNCHANGED socketVars
  PROVE  /\ Len(down'[c]) \in Nat /\ Len(down'[c]) <= Len(down[c]) + 0
         /\ Len(up'[c]) \in Nat /\ Len(up'[c]) <= Len(up[c]) + 0
<1>1. down'[c] \in {down[c], <<>>} /\ up'[c] \in {up[c], <<>>}
  BY DEF StreamTypeOK, CloseEnd, socketVars
<1> QED
  BY <1>1, SMTT(60) DEF StreamTypeOK

(***************************************************************************)
(* A step of handle_upgrade_request and prepare_upgrade.                   *)
(***************************************************************************)
LEMMA PrepareDrains ==
  ASSUME ResourcesMatchSessions, StreamInv, NEW c \in Clients, held[c] # {}, PrepareStep(c)
  PROVE  StepsLeft(c)' < StepsLeft(c)
<1>0. StreamTypeOK /\ DaemonTypeOK /\ StageHolds(c) /\ ServiceInv(c)
  BY DEF StreamInv, StreamRow, ResourcesMatchSessions
<1>1. /\ {0, 1, 2, -1, -2, -3} \subseteq Int
      /\ "console" \in Resources /\ "lease" \in Resources /\ "device" \in Resources
      /\ down[c] \in Seq(Frames \cup Answers)
  <2>1. {0, 1, 2, -1, -2, -3} \subseteq Int
    BY SMTT(60)
  <2> QED
    BY <1>0, <2>1 DEF Resources, StreamTypeOK
<1>2. CASE Accept(c)
  BY <1>0, <1>2 DEF Accept, StageHolds, Scoped, Preparing
<1>3. CASE HandleRequest(c) \/ Observe(c) \/ WriteSelector(c)
  <2>1. /\ UNCHANGED <<held, closed, up, down, gate, carry>>
        /\ \/ stage[c] = "request" /\ stage'[c] \in {"observing", "rejecting"}
           \/ stage[c] = "observing" /\ stage'[c] \in {"active", "rejecting"}
           \/ stage[c] = "opened" /\ stage'[c] \in {"prepared", "rejecting"}
    BY <1>0, <1>3
    DEF HandleRequest, Observe, WriteSelector, Reject, Goto, DaemonTypeOK, socketVars,
        gatewayVars
  <2>2. StageSteps(stage'[c], closed'[c]) <= StageSteps(stage[c], closed[c]) + (-1)
    BY <2>1, SMTT(60) DEF StageSteps
  <2>3. (-1) + 0 + 0 + 0 + 3 * 0 < 0
    BY SMTT(60)
  <2> QED
    BY <1>0, <1>1, <2>1, <2>2, <2>3, NoChange, Fewer
<1>4. CASE AcquireConsole(c) \/ AcquireLease(c) \/ OpenDevice(c)
  <2>1. /\ UNCHANGED <<closed, up, down, gate, carry>>
        /\ \/ stage[c] = "active" /\ stage'[c] \in {"permitted", "rejecting"}
           \/ stage[c] = "permitted" /\ stage'[c] \in {"leased", "rejecting"}
           \/ stage[c] = "leased" /\ stage'[c] \in {"opened", "rejecting"}
        /\ \/ held' = held
           \/ \E r \in {"console", "lease", "device"} : Take(c, r)
    BY <1>0, <1>4
    DEF AcquireConsole, AcquireLease, OpenDevice, Acquire, Reject, Goto, DaemonTypeOK,
        socketVars, gatewayVars
  <2>2. StageSteps(stage'[c], closed'[c]) <= StageSteps(stage[c], closed[c]) + (-2)
    BY <2>1, SMTT(60) DEF StageSteps
  <2>3. HeldSteps(held'[c]) <= HeldSteps(held[c]) + 1
    <3>1. \A n \in 0..4 : n <= n + 1
      BY SMTT(60)
    <3> QED
      BY <1>0, <1>1, <2>1, <3>1, StepTypes, HeldMoves
  <2>4. (-2) + 1 + 0 + 0 + 3 * 0 < 0
    BY SMTT(60)
  <2> QED
    BY <1>0, <1>1, <2>1, <2>2, <2>3, <2>4, NoChange, Fewer
<1>5. CASE Rejecting(c) /\ Scoped(c) # {}
  <2>1. UNCHANGED <<stage, closed, up, down, gate, carry>> /\ DropNext(c, RejectOrder)
    BY <1>5 DEF Rejecting, gatewayVars
  <2>2. PICK r \in Scoped(c) : Give(c, r)
    BY <2>1 DEF DropNext, Drop
  <2>3. r \in held[c] /\ r \in Resources
    BY <1>0 DEF Scoped, DaemonTypeOK
  <2>4. HeldSteps(held'[c]) <= HeldSteps(held[c]) + (-1)
    BY <1>0, <2>2, <2>3, HeldMoves
  <2>5. 0 + (-1) + 0 + 0 + 3 * 0 < 0
    BY SMTT(60)
  <2> QED
    BY <1>0, <1>1, <2>1, <2>4, <2>5, NoChange, Fewer
<1>6. CASE Rejecting(c) /\ Scoped(c) = {}
  <2>1. /\ UNCHANGED <<held, closed, up, gate, carry>> /\ stage[c] = "rejecting"
        /\ stage'[c] \in {"answered", "none"}
        /\ down'[c] \in {down[c], Append(down[c], reply[c])}
    BY <1>0, <1>6 DEF Rejecting, Goto, DaemonTypeOK, StreamTypeOK, gatewayVars
  <2>2. StageSteps(stage'[c], closed'[c]) <= StageSteps(stage[c], closed[c]) + (-2)
    BY <2>1, SMTT(60) DEF StageSteps
  <2>3. reply[c] \in Frames \cup Answers
    BY <1>0, <2>1 DEF ServiceInv, Answers
  <2>4. Len(down'[c]) \in Nat /\ Len(down'[c]) <= Len(down[c]) + 1
    <3>1. \A n \in Nat : n <= n + 1
      BY SMTT(60)
    <3> QED
      BY <1>1, <2>1, <2>3, <3>1, QueueLengths
  <2>5. (-2) + 0 + 0 + 1 + 3 * 0 < 0
    BY SMTT(60)
  <2> QED
    BY <1>0, <1>1, <2>1, <2>2, <2>4, <2>5, NoChange, Fewer
<1> QED
  BY <1>2, <1>3, <1>4, <1>5, <1>6 DEF PrepareStep

(***************************************************************************)
(* A session is closed: the device goes, the lease and the permit are left.*)
(***************************************************************************)
LEMMA CloseDrains ==
  ASSUME ResourcesMatchSessions, StreamInv, NEW c \in Clients, stage[c] = "reading",
         NEW reason \in Reasons, NEW frame, Close(c, reason, frame)
  PROVE  /\ StageSteps(stage'[c], closed'[c]) <= StageSteps(stage[c], closed[c]) + (-1)
         /\ HeldSteps(held'[c]) <= HeldSteps(held[c]) + (-1)
<1>0. DaemonTypeOK /\ "device" \in held[c] /\ "device" \in Resources
  BY DEF ResourcesMatchSessions, StageHolds, Scoped, Resources
<1>1. stage'[c] = "closing" /\ Give(c, "device")
  BY <1>0 DEF Close, Drop, Goto, DaemonTypeOK
<1>2. StageSteps(stage'[c], closed'[c]) <= StageSteps(stage[c], closed[c]) + (-1)
  BY <1>1, SMTT(60) DEF StageSteps
<1> QED
  BY <1>0, <1>1, <1>2, HeldMoves

(***************************************************************************)
(* A request served from the socket is replied to, closes the session or   *)
(* ends it.                                                                *)
(***************************************************************************)
LEMMA ServeFrameDrains ==
  ASSUME ResourcesMatchSessions, StreamInv, NEW c \in Clients, ServeFrame(c)
  PROVE  StepsLeft(c)' < StepsLeft(c)
<1>0. StreamTypeOK /\ DaemonTypeOK
  BY DEF StreamInv, ResourcesMatchSessions
<1>1. {0, 2, -1, -4} \subseteq Int
  BY SMTT(60)
<1>2. /\ stage[c] = "reading" /\ up[c] # <<>> /\ up'[c] = Tail(up[c])
      /\ UNCHANGED <<down, gate, carry>>
  BY <1>0 DEF ServeFrame, StreamTypeOK, gatewayVars
<1>3. Len(up'[c]) \in Nat /\ Len(up'[c]) <= Len(up[c]) + (-1)
  BY <1>0, <1>2, QueueLengths DEF StreamTypeOK
<1>4. \/ \E frame \in Frames : Respond(c, frame)
      \/ \E reason \in Reasons, frame \in Frames : Close(c, reason, frame)
      \/ Goto(c, "dropping") /\ UNCHANGED <<held, closed>>
  BY DEF ServeFrame, ServeInput, ServeRead, Frames, Reasons
<1>5. CASE \E frame \in Frames : Respond(c, frame)
  <2>1. stage'[c] = "replying" /\ UNCHANGED <<held, closed>>
    BY <1>0, <1>5 DEF Respond, Goto, DaemonTypeOK
  <2>2. StageSteps(stage'[c], closed'[c]) <= StageSteps(stage[c], closed[c]) + 2
    BY <1>2, <2>1, SMTT(60) DEF StageSteps
  <2>3. 2 + 0 + 0 + 0 + 3 * (-1) < 0
    BY SMTT(60)
  <2> QED
    BY <1>0, <1>1, <1>2, <1>3, <2>1, <2>2, <2>3, NoChange, Fewer
<1>6. CASE \E reason \in Reasons, frame \in Frames : Close(c, reason, frame)
  <2>1. (-1) + (-1) + 0 + 0 + 3 * (-1) < 0
    BY SMTT(60)
  <2> QED
    BY <1>0, <1>1, <1>2, <1>3, <1>6, <2>1, CloseDrains, NoChange, Fewer
<1>7. CASE Goto(c, "dropping") /\ UNCHANGED <<held, closed>>
  <2>1. stage'[c] = "dropping"
    BY <1>0, <1>7 DEF Goto, DaemonTypeOK
  <2>2. StageSteps(stage'[c], closed'[c]) <= StageSteps(stage[c], closed[c]) + (-4)
    BY <1>2, <2>1, SMTT(60) DEF StageSteps
  <2>3. (-4) + 0 + 0 + 0 + 3 * (-1) < 0
    BY SMTT(60)
  <2> QED
    BY <1>0, <1>1, <1>2, <1>3, <1>7, <2>2, <2>3, NoChange, Fewer
<1> QED
  BY <1>4, <1>5, <1>6, <1>7

(***************************************************************************)
(* The connection's task ends or hands its socket over.                    *)
(***************************************************************************)
LEMMA ConnectionDrains ==
  ASSUME ResourcesMatchSessions, StreamInv, NEW c \in Clients, HandOver(c) \/ ConnectionEnds(c)
  PROVE  StepsLeft(c)' < StepsLeft(c)
<1>0. StreamTypeOK /\ DaemonTypeOK /\ StageHolds(c)
  BY DEF StreamInv, ResourcesMatchSessions
<1>1. 0 \in Int /\ -1 \in Int /\ 0 + (-1) + 0 + 0 + 3 * 0 < 0
  BY SMTT(60)
<1>2. /\ "connection" \in held[c] /\ "connection" \in Resources /\ Give(c, "connection")
      /\ CloseEnd(c, "daemon") \/ UNCHANGED socketVars
      /\ UNCHANGED <<closed, gate, carry>>
  BY <1>0 DEF HandOver, ConnectionEnds, StageHolds, Drop, Resources, gatewayVars
<1>3. \/ stage'[c] = stage[c]
      \/ stage[c] = "switching" /\ stage'[c] \in {"replying", "dropping"}
      \/ stage[c] \in {"request", "answered"} /\ stage'[c] = "none"
  <2>1. CASE HandOver(c)
    BY <1>0, <2>1 DEF HandOver, Goto, DaemonTypeOK
  <2>2. CASE ConnectionEnds(c)
    <3>1. stage'[c] = CASE stage[c] \in {"request", "answered"} -> "none"
                        [] stage[c] = "switching" -> "dropping"
                        [] OTHER -> stage[c]
      BY <1>0, <2>2 DEF ConnectionEnds, Goto, DaemonTypeOK
    <3> QED
      BY <3>1
  <2> QED
    BY <2>1, <2>2
<1>4. StageSteps(stage'[c], closed'[c]) <= StageSteps(stage[c], closed[c]) + 0
  <2>1. CASE stage'[c] = stage[c]
    BY <1>0, <1>2, <2>1, NoChange
  <2>2. CASE stage'[c] # stage[c]
    BY <1>2, <1>3, <2>2, SMTT(60) DEF StageSteps
  <2> QED
    BY <2>1, <2>2
<1> QED
  BY <1>0, <1>1, <1>2, <1>4, HeldMoves, SocketShrinks, NoChange, Fewer

(***************************************************************************)
(* A step of the thread that serves the upgrade.                           *)
(***************************************************************************)
LEMMA ServeDrains ==
  ASSUME ResourcesMatchSessions, StreamInv, NEW c \in Clients, ServeStep(c)
  PROVE  StepsLeft(c)' < StepsLeft(c)
<1>0. StreamTypeOK /\ DaemonTypeOK /\ StageHolds(c) /\ ServiceInv(c)
  BY DEF StreamInv, StreamRow, ResourcesMatchSessions
<1>1. {0, 1, -1, -2, -4} \subseteq Int
  BY SMTT(60)
<1>2. /\ down[c] \in Seq(Frames \cup Answers) /\ \A n \in Nat : n <= n + 1
      /\ closed[c] \in Reasons \cup {None}
  <2>1. \A n \in Nat : n <= n + 1
    BY SMTT(60)
  <2> QED
    BY <1>0, <2>1 DEF StreamTypeOK, DaemonTypeOK
<1>3. CASE AnswerUpgrade(c)
  <2>1. /\ UNCHANGED <<held, closed, up, gate, carry>> /\ stage[c] = "prepared"
        /\ stage'[c] \in {"switching", "dropping"}
        /\ down'[c] \in {down[c], Append(down[c], "switching_protocols")}
    BY <1>0, <1>3 DEF AnswerUpgrade, Goto, DaemonTypeOK, StreamTypeOK, gatewayVars
  <2>2. StageSteps(stage'[c], closed'[c]) <= StageSteps(stage[c], closed[c]) + (-2)
    BY <2>1, SMTT(60) DEF StageSteps
  <2>3. Len(down'[c]) \in Nat /\ Len(down'[c]) <= Len(down[c]) + 1
    BY <1>2, <2>1, QueueLengths DEF Answers
  <2>4. (-2) + 0 + 0 + 1 + 3 * 0 < 0
    BY SMTT(60)
  <2> QED
    BY <1>0, <1>1, <2>1, <2>2, <2>3, <2>4, NoChange, Fewer
<1>4. CASE ServeEnd(c) /\ down[c] = <<>>
  <2>1. /\ UNCHANGED <<up, down, gate, carry>> /\ stage[c] = "reading"
        /\ Close(c, "ClientDetached", None) /\ "ClientDetached" \in Reasons
    BY <1>4 DEF ServeEnd, socketVars, gatewayVars, Reasons
  <2>2. (-1) + (-1) + 0 + 0 + 3 * 0 < 0
    BY SMTT(60)
  <2> QED
    BY <1>0, <1>1, <2>1, <2>2, CloseDrains, NoChange, Fewer
<1>5. CASE ServeEnd(c) /\ down[c] # <<>>
  <2>1. /\ UNCHANGED <<held, closed, up, down, gate, carry>> /\ stage[c] = "reading"
        /\ stage'[c] = "dropping"
    BY <1>0, <1>5 DEF ServeEnd, Goto, DaemonTypeOK, socketVars, gatewayVars
  <2>2. StageSteps(stage'[c], closed'[c]) <= StageSteps(stage[c], closed[c]) + (-4)
    BY <2>1, SMTT(60) DEF StageSteps
  <2>3. (-4) + 0 + 0 + 0 + 3 * 0 < 0
    BY SMTT(60)
  <2> QED
    BY <1>0, <1>1, <2>1, <2>2, <2>3, NoChange, Fewer
<1>6. CASE CloseLease(c)
  <2>1. /\ UNCHANGED <<closed, up, down, gate, carry>> /\ stage[c] = "closing"
        /\ stage'[c] \in {"dropping", "replying"} /\ closed[c] # None
        /\ Give(c, "lease") /\ "lease" \in held[c] /\ "lease" \in Resources
    BY <1>0, <1>6 DEF CloseLease, Drop, Goto, StageHolds, Scoped, DaemonTypeOK, Resources,
                      socketVars, gatewayVars
  <2>2. StageSteps(stage'[c], closed'[c]) <= StageSteps(stage[c], closed[c]) + (-1)
    BY <2>1, SMTT(60) DEF StageSteps
  <2>3. (-1) + (-1) + 0 + 0 + 3 * 0 < 0
    BY SMTT(60)
  <2> QED
    BY <1>0, <1>1, <2>1, <2>2, <2>3, HeldMoves, NoChange, Fewer
<1>7. CASE WriteFrame(c)
  <2>1. /\ UNCHANGED <<held, closed, up, gate, carry>> /\ stage[c] = "replying"
        /\ \/ stage'[c] = "reading" /\ closed[c] = None
           \/ stage'[c] = "dropping"
        /\ down'[c] \in {down[c], Append(down[c], reply[c])}
    BY <1>0, <1>7 DEF WriteFrame, Goto, DaemonTypeOK, StreamTypeOK, gatewayVars
  <2>2. StageSteps(stage'[c], closed'[c]) <= StageSteps(stage[c], closed[c]) + (-2)
    BY <2>1, SMTT(60) DEF StageSteps
  <2>3. reply[c] \in Frames \cup Answers
    BY <1>0, <2>1 DEF ServiceInv
  <2>4. Len(down'[c]) \in Nat /\ Len(down'[c]) <= Len(down[c]) + 1
    BY <1>2, <2>1, <2>3, QueueLengths
  <2>5. (-2) + 0 + 0 + 1 + 3 * 0 < 0
    BY SMTT(60)
  <2> QED
    BY <1>0, <1>1, <2>1, <2>2, <2>4, <2>5, NoChange, Fewer
<1>8. CASE Dropping(c)
  <2>1. (CloseEnd(c, "daemon") \/ UNCHANGED socketVars) /\ UNCHANGED <<gate, carry>>
    BY <1>8 DEF Dropping, gatewayVars
  <2>2. CASE Scoped(c) # {}
    <3>1. UNCHANGED <<stage, closed>> /\ DropNext(c, UpgradeOrder)
      BY <1>8, <2>2 DEF Dropping
    <3>2. PICK r \in Scoped(c) : Give(c, r)
      BY <3>1 DEF DropNext, Drop
    <3>3. r \in held[c] /\ r \in Resources
      BY <1>0 DEF Scoped, DaemonTypeOK
    <3>4. HeldSteps(held'[c]) <= HeldSteps(held[c]) + (-1)
      BY <1>0, <3>2, <3>3, HeldMoves
    <3>5. 0 + (-1) + 0 + 0 + 3 * 0 < 0
      BY SMTT(60)
    <3> QED
      BY <1>0, <1>1, <2>1, <3>1, <3>4, <3>5, SocketShrinks, NoChange, Fewer
  <2>3. CASE Scoped(c) = {}
    <3>1. stage[c] = "dropping" /\ stage'[c] = "none" /\ held' = held
      BY <1>0, <1>8, <2>3 DEF Dropping, Goto, DaemonTypeOK
    <3>2. StageSteps(stage'[c], closed'[c]) <= StageSteps(stage[c], closed[c]) + (-1)
      BY <3>1, SMTT(60) DEF StageSteps
    <3>3. (-1) + 0 + 0 + 0 + 3 * 0 < 0
      BY SMTT(60)
    <3> QED
      BY <1>0, <1>1, <2>1, <3>1, <3>2, <3>3, SocketShrinks, NoChange, Fewer
  <2> QED
    BY <2>2, <2>3
<1> QED
  BY <1>3, <1>4, <1>5, <1>6, <1>7, <1>8, ConnectionDrains, ServeFrameDrains DEF ServeStep

(***************************************************************************)
(* The bound is a natural number, before and after a step.                 *)
(***************************************************************************)
LEMMA StepsLeftTypes ==
  ASSUME StreamTypeOK, StreamTypeOK', NEW c \in Clients
  PROVE  StepsLeft(c) \in Nat /\ StepsLeft(c)' \in Nat
<1>1. \A s \in 0..21, h \in 0..4, k \in 0..7, m \in Nat, n \in Nat :
        s + h + k + m + 3 * n \in Nat
  BY SMTT(60)
<1>2. Len(down[c]) \in Nat /\ Len(up[c]) \in Nat
  BY QueueLengths DEF StreamTypeOK
<1>3. Len(down'[c]) \in Nat /\ Len(up'[c]) \in Nat
  BY QueueLengths DEF StreamTypeOK
<1> QED
  BY <1>1, <1>2, <1>3, StepTypes DEF StepsLeft

(***************************************************************************)
(* No step of one client, of its gateway's task or of its session in the   *)
(* daemon reaches the state of another client's session.                   *)
(***************************************************************************)
LEMMA OthersUntouched ==
  ASSUME StreamTypeOK, DaemonTypeOK, NEW d \in Clients, NEW c \in Clients, c # d,
         \/ \E i \in Instances : OpenConsole(d, i)
         \/ \E m \in Requests : BridgeTakes(d, m)
         \/ BrowserLeaves(d) \/ SessionStep(d) \/ BacklogResets(d)
  PROVE  /\ stage'[c] = stage[c] /\ held'[c] = held[c] /\ closed'[c] = closed[c]
         /\ gate'[c] = gate[c] /\ carry'[c] = carry[c]
         /\ up'[c] = up[c] /\ down'[c] = down[c]
<1> DEFINE Same == /\ stage'[c] = stage[c] /\ held'[c] = held[c] /\ closed'[c] = closed[c]
                   /\ gate'[c] = gate[c] /\ carry'[c] = carry[c]
                   /\ up'[c] = up[c] /\ down'[c] = down[c]
<1>0. /\ \A e : CloseEnd(d, e) => up'[c] = up[c] /\ down'[c] = down[c]
      /\ \A s : Goto(d, s) => stage'[c] = stage[c]
      /\ \A r : (Take(d, r) \/ Drop(d, r)) => held'[c] = held[c]
      /\ \A order : DropNext(d, order) => held'[c] = held[c]
  BY DEF CloseEnd, Goto, Take, Drop, Give, DropNext, StreamTypeOK, DaemonTypeOK
<1>1. ASSUME NEW i \in Instances, OpenConsole(d, i) PROVE Same
  BY <1>0, <1>1 DEF OpenConsole, StreamTypeOK
<1>2. ASSUME NEW m \in Requests, BridgeTakes(d, m) PROVE Same
  BY <1>2 DEF BridgeTakes, StreamTypeOK, daemonVars, socketVars
<1>3. CASE BrowserLeaves(d)
  BY <1>3 DEF BrowserLeaves, daemonVars, socketVars
<1>4. ASSUME HangUp(d) PROVE Same
  BY <1>0, <1>4 DEF HangUp, StreamTypeOK, daemonVars
<1>5. CASE GatewayStep(d) \/ HandshakeEnds(d)
  <2>1. CASE ReadAnswer(d)
    BY <1>4, <2>1 DEF ReadAnswer, StreamTypeOK, daemonVars
  <2>2. CASE StartBridge(d)
    BY <1>4, <2>2 DEF StartBridge, StreamTypeOK, daemonVars, socketVars
  <2>3. CASE BridgeWrites(d)
    BY <1>4, <2>3 DEF BridgeWrites, StreamTypeOK, daemonVars
  <2>4. CASE BridgeReads(d)
    BY <2>4 DEF BridgeReads, StreamTypeOK, daemonVars
  <2> QED
    BY <1>4, <1>5, <2>1, <2>2, <2>3, <2>4 DEF GatewayStep, BridgeEnds, HandshakeEnds
<1>6. CASE PrepareStep(d)
  <2>1. CASE Accept(d)
    BY <1>0, <2>1 DEF Accept, Acquire, gatewayVars, socketVars
  <2>2. CASE HandleRequest(d) \/ Observe(d) \/ WriteSelector(d)
    BY <1>0, <2>2 DEF HandleRequest, Observe, WriteSelector, Reject, gatewayVars, socketVars
  <2>3. CASE AcquireConsole(d) \/ AcquireLease(d) \/ OpenDevice(d)
    BY <1>0, <2>3
    DEF AcquireConsole, AcquireLease, OpenDevice, Acquire, Reject, gatewayVars, socketVars
  <2>4. CASE Rejecting(d)
    BY <1>0, <2>4 DEF Rejecting, StreamTypeOK, gatewayVars
  <2> QED
    BY <1>6, <2>1, <2>2, <2>3, <2>4 DEF PrepareStep
<1>7. CASE ServeStep(d) \/ ConnectionEnds(d)
  <2>0. ASSUME NEW reason, NEW frame, Close(d, reason, frame)
        PROVE  stage'[c] = stage[c] /\ held'[c] = held[c] /\ closed'[c] = closed[c]
    BY <1>0, <2>0 DEF Close, DaemonTypeOK
  <2>1. CASE AnswerUpgrade(d) \/ WriteFrame(d)
    BY <1>0, <2>1 DEF AnswerUpgrade, WriteFrame, StreamTypeOK, gatewayVars
  <2>2. CASE HandOver(d) \/ ConnectionEnds(d)
    BY <1>0, <2>2 DEF HandOver, ConnectionEnds, gatewayVars, socketVars
  <2>3. CASE ServeFrame(d)
    <3>1. /\ up'[c] = up[c] /\ UNCHANGED <<down, gate, carry>>
          /\ \/ \E reason, frame : Close(d, reason, frame)
             \/ Goto(d, "dropping") /\ UNCHANGED <<held, closed>>
             \/ \E frame : Respond(d, frame)
      BY <2>3 DEF ServeFrame, ServeInput, ServeRead, StreamTypeOK, gatewayVars
    <3> QED
      BY <1>0, <2>0, <3>1 DEF Respond
  <2>4. CASE ServeEnd(d)
    BY <1>0, <2>0, <2>4 DEF ServeEnd, gatewayVars, socketVars
  <2>5. CASE CloseLease(d)
    BY <1>0, <2>5 DEF CloseLease, gatewayVars, socketVars
  <2>6. CASE Dropping(d)
    BY <1>0, <2>6 DEF Dropping, DaemonTypeOK, gatewayVars, socketVars
  <2> QED
    BY <1>7, <2>1, <2>2, <2>3, <2>4, <2>5, <2>6 DEF ServeStep
<1>8. CASE BacklogResets(d)
  BY <1>0, <1>8 DEF BacklogResets, gatewayVars
<1> QED
  BY <1>1, <1>2, <1>3, <1>5, <1>6, <1>7, <1>8 DEF SessionStep

LEMMA ReadyIffNoMutualWait ==
  ASSUME ResourcesMatchSessions, StreamInv, NEW c \in Clients, Draining(c)
  PROVE  Ready(c) <=> ~MutualWait(c)
<1>0. /\ StreamTypeOK /\ LinkInv(c) /\ ServiceInv(c) /\ HandshakeInv(c) /\ StageHolds(c)
      /\ stage[c] \in Stages
  BY DEF StreamInv, StreamRow, ResourcesMatchSessions, DaemonTypeOK
<1>1. /\ gate[c] \in {"idle", "connecting", "switched", "bridging"}
      /\ browser[c] \in {"away", "left"} /\ ends[c] \subseteq {"gateway", "daemon"}
  BY <1>0 DEF StreamTypeOK, Draining
<1>2. stage[c] \notin {"none", "backlog"}
  BY <1>0 DEF Draining, StageHolds, Scoped, Preparing
<1>3. /\ ~(Len(up[c]) < Capacity) <=> Len(up[c]) = Capacity
      /\ ~(Len(down[c]) < Capacity) <=> Len(down[c]) = Capacity
      /\ up[c] = <<>> => Len(up[c]) < Capacity
  BY <1>0, ConsoleAssumption, SMTT(60) DEF StreamTypeOK
<1>4. ASSUME MutualWait(c)
      PROVE  ~Ready(c)
  <2>1. "daemon" \in ends[c] /\ "gateway" \in ends[c] /\ "connection" \notin held[c]
    BY <1>0, <1>4 DEF MutualWait, LinkInv, ServiceInv, StageHolds, Serving, Preparing
  <2>2. ~GatewayReady(c)
    BY <1>3, <1>4, <2>1 DEF MutualWait, GatewayReady
  <2>3. ~PrepareReady(c) /\ ~ConnectionReady(c)
    BY <1>4, <2>1 DEF MutualWait, PrepareReady, ConnectionReady, Preparing
  <2>4. ~ServeReady(c)
    BY <1>3, <1>4, <2>1 DEF MutualWait, ServeReady
  <2> QED
    BY <2>2, <2>3, <2>4 DEF Ready
<1>5. ASSUME ~MutualWait(c)
      PROVE  Ready(c)
  <2>1. CASE gate[c] \in {"connecting", "switched"}
    BY <2>1 DEF Ready, GatewayReady
  <2>2. CASE gate[c] = "idle"
    <3>1. "gateway" \notin ends[c]
      BY <1>0, <2>2 DEF LinkInv
    <3>2. CASE stage[c] \in {"request", "rejecting"} \cup Preparing
      BY <3>2 DEF Ready, PrepareReady, ServeReady
    <3>3. CASE stage[c] = "answered"
      BY <1>0, <3>1, <3>3 DEF StageHolds, Ready, ConnectionReady
    <3>4. CASE stage[c] \in {"switching", "dropping"} \cup Serving
      BY <3>1, <3>4 DEF Serving, Ready, ServeReady
    <3> QED
      BY <1>0, <1>2, <3>2, <3>3, <3>4 DEF Stages
  <2>3. CASE gate[c] = "bridging"
    <3>1. browser[c] = "left"
      BY <1>0, <1>1, <2>3 DEF LinkInv
    <3>2. CASE carry[c] = None
      BY <2>3, <3>1, <3>2 DEF Ready, GatewayReady
    <3>3. CASE carry[c] # None /\ Len(up[c]) < Capacity
      BY <3>3 DEF Ready, GatewayReady
    <3>4. CASE carry[c] # None /\ Len(up[c]) = Capacity
      <4>1. stage[c] \in {"switching", "dropping", "reading", "closing", "replying"}
        BY <1>0, <1>2, <2>3 DEF HandshakeInv, Serving
      <4>2. up[c] # <<>>
        BY <1>3, <3>4
      <4>3. stage[c] = "replying" => Len(down[c]) < Capacity
        BY <1>3, <1>5, <2>3, <3>4 DEF MutualWait
      <4> QED
        BY <4>1, <4>2, <4>3 DEF Ready, ServeReady
    <3> QED
      BY <1>3, <3>2, <3>3, <3>4
  <2> QED
    BY <1>1, <2>1, <2>2, <2>3
<1> QED
  BY <1>4, <1>5

LEMMA MutualWaitStays ==
  ASSUME ResourcesMatchSessions, StreamInv, [Next]_vars, NEW c \in Clients, MutualWait(c)
  PROVE  MutualWait(c)'
<1>0. StreamTypeOK /\ DaemonTypeOK /\ LinkInv(c) /\ ServiceInv(c) /\ StageHolds(c)
  BY DEF StreamInv, StreamRow, ResourcesMatchSessions
<1>1. /\ "daemon" \in ends[c] /\ "gateway" \in ends[c] /\ "connection" \notin held[c]
      /\ ~(Len(up[c]) < Capacity) /\ ~(Len(down[c]) < Capacity) /\ browser[c] # "away"
  <2>1. ~(Len(up[c]) < Capacity) /\ ~(Len(down[c]) < Capacity)
    BY ConsoleAssumption, SMTT(60) DEF MutualWait
  <2> QED
    BY <1>0, <2>1 DEF MutualWait, LinkInv, ServiceInv, StageHolds, Serving, Preparing
<1>2. ASSUME gate'[c] = gate[c], carry'[c] = carry[c], up'[c] = up[c],
             stage'[c] = stage[c], down'[c] = down[c]
      PROVE  MutualWait(c)'
  BY <1>2 DEF MutualWait
<1>3. ASSUME NEW i \in Instances PROVE ~OpenConsole(c, i)
  BY <1>1 DEF OpenConsole
<1>4. ASSUME NEW m \in Requests PROVE ~BridgeTakes(c, m)
  BY DEF BridgeTakes, MutualWait
<1>5. ~GatewayStep(c) /\ ~HandshakeEnds(c)
  BY <1>1 DEF GatewayStep, HandshakeEnds, ReadAnswer, StartBridge, BridgeWrites, BridgeReads,
              BridgeEnds, MutualWait
<1>6. ~PrepareStep(c) /\ ~ConnectionEnds(c) /\ ~BacklogResets(c)
  BY <1>1 DEF PrepareStep, Accept, HandleRequest, Observe, AcquireConsole, AcquireLease,
              OpenDevice, WriteSelector, Rejecting, ConnectionEnds, BacklogResets, MutualWait
<1>7. ~ServeStep(c)
  BY <1>1 DEF ServeStep, AnswerUpgrade, HandOver, ServeFrame, ServeEnd, CloseLease,
              WriteFrame, Dropping, MutualWait
<1>8. CASE BrowserLeaves(c)
  BY <1>2, <1>8 DEF BrowserLeaves, daemonVars, socketVars
<1>9. ASSUME NEW d \in Clients, c # d,
             \/ \E i \in Instances : OpenConsole(d, i)
             \/ \E m \in Requests : BridgeTakes(d, m)
             \/ BrowserLeaves(d) \/ SessionStep(d) \/ BacklogResets(d)
      PROVE  MutualWait(c)'
  BY <1>0, <1>2, <1>9, OthersUntouched
<1>10. CASE Shutdown \/ Exit \/ Restart \/ UNCHANGED vars
  BY <1>2, <1>10 DEF Shutdown, Exit, Restart, vars, daemonVars, socketVars, gatewayVars
<1>11. CASE Next
  <2>1. CASE Shutdown \/ Exit \/ Restart
    BY <1>10, <2>1
  <2>2. ASSUME NEW d \in Clients,
               \/ \E i \in Instances : OpenConsole(d, i)
               \/ \E m \in Requests : BridgeTakes(d, m)
               \/ BrowserLeaves(d) \/ SessionStep(d) \/ BacklogResets(d)
        PROVE  MutualWait(c)'
    <3>1. CASE c # d
      BY <1>9, <2>2, <3>1
    <3>2. CASE c = d
      BY <1>3, <1>4, <1>5, <1>6, <1>7, <1>8, <2>2, <3>2 DEF SessionStep
    <3> QED
      BY <3>1, <3>2
  <2> QED
    BY <1>11, <2>1, <2>2 DEF Next, SessionStep
<1> QED
  BY <1>10, <1>11

LEMMA StepDrains ==
  ASSUME ResourcesMatchSessions, StreamInv, StreamInv', [Next]_vars, NEW c \in Clients
  PROVE  Drains(c)
<1> SUFFICES ASSUME Draining(c)
             PROVE  /\ StepsLeft(c)' <= StepsLeft(c)
                    /\ SessionStep(c) => StepsLeft(c)' < StepsLeft(c)
  BY DEF Drains
<1>0. StreamTypeOK /\ StreamTypeOK' /\ DaemonTypeOK /\ LinkInv(c) /\ StageHolds(c)
  BY DEF StreamInv, StreamRow, ResourcesMatchSessions
<1>1. StepsLeft(c) \in Nat /\ StepsLeft(c)' \in Nat
  BY <1>0, StepsLeftTypes
<1>2. ASSUME SessionStep(c) PROVE StepsLeft(c)' < StepsLeft(c)
  BY <1>2, GatewayDrains, PrepareDrains, ServeDrains, ConnectionDrains DEF Draining, SessionStep
<1>3. ASSUME gate'[c] = gate[c], carry'[c] = carry[c], up'[c] = up[c], down'[c] = down[c],
             stage'[c] = stage[c], held'[c] = held[c], closed'[c] = closed[c]
      PROVE  StepsLeft(c)' <= StepsLeft(c)
  <2>1. StepsLeft(c)' = StepsLeft(c)
    BY <1>3 DEF StepsLeft
  <2>2. \A n \in Nat : n <= n
    BY SMTT(60)
  <2> QED
    BY <1>1, <2>1, <2>2
<1>4. stage[c] \notin {"none", "backlog"} /\ browser[c] # "here"
  BY <1>0 DEF Draining, StageHolds, Scoped, Preparing
<1>5. /\ \A i \in Instances : ~OpenConsole(c, i)
      /\ \A m \in Requests : ~BridgeTakes(c, m)
      /\ ~BrowserLeaves(c) /\ ~BacklogResets(c)
  BY <1>4 DEF OpenConsole, BridgeTakes, BrowserLeaves, BacklogResets
<1>6. CASE SessionStep(c)
  <2>1. \A m, n \in Nat : m < n => m <= n
    BY SMTT(60)
  <2> QED
    BY <1>1, <1>2, <1>6, <2>1
<1>7. CASE ~SessionStep(c)
  <2>1. CASE Shutdown \/ Exit \/ Restart \/ UNCHANGED vars
    BY <1>3, <1>7, <2>1 DEF Shutdown, Exit, Restart, vars, daemonVars, socketVars, gatewayVars
  <2>2. ASSUME NEW d \in Clients,
               \/ \E i \in Instances : OpenConsole(d, i)
               \/ \E m \in Requests : BridgeTakes(d, m)
               \/ BrowserLeaves(d) \/ SessionStep(d) \/ BacklogResets(d)
        PROVE  StepsLeft(c)' <= StepsLeft(c)
    <3>1. c # d
      BY <1>5, <1>7, <2>2
    <3> QED
      BY <1>0, <1>3, <2>2, <3>1, OthersUntouched
  <2> QED
    BY <1>7, <2>1, <2>2 DEF Next, SessionStep
<1> QED
  BY <1>6, <1>7, <1>2

LEMMA FewSteps == StreamInv => StepsBounded
<1> SUFFICES ASSUME StreamInv, NEW c \in Clients
             PROVE  StepsLeft(c) \in 0..(4 * Capacity + 32)
  BY DEF StepsBounded
<1>1. \A cap \in Nat, s \in 0..21, h \in 0..4, k \in 0..7, m \in Nat, n \in Nat :
        m <= cap /\ n <= cap => s + h + k + m + 3 * n \in 0..(4 * cap + 32)
  BY SMTT(60)
<1>2. Len(down[c]) \in Nat /\ Len(up[c]) \in Nat
  BY QueueLengths DEF StreamInv, StreamTypeOK
<1>3. Len(down[c]) <= Capacity /\ Len(up[c]) <= Capacity /\ Capacity \in Nat
  BY ConsoleAssumption DEF StreamInv, StreamTypeOK
<1> QED
  BY <1>1, <1>2, <1>3, StepTypes DEF StepsLeft

LEMMA StreamsInvariant == Spec => [](ResourcesMatchSessions /\ StreamInv)
<1>1. Init => StreamInv
  BY InitFlows
<1>2. ResourcesMatchSessions /\ StreamInv /\ [Next]_vars => StreamInv'
  BY StepFlows
<1> QED
  BY <1>1, <1>2, ResourcesMatch, PTL DEF Spec, Safety

(***************************************************************************)
(* A session whose browser is gone always has a step left that gives its   *)
(* resources back, except exactly when `bridge` waits for the daemon to    *)
(* read and `serve_framed_console` waits for the bridge to read.           *)
(***************************************************************************)
THEOREM SessionsStickOnlyInMutualWait == Spec => []OnlyMutualWaitSticks
<1>1. ResourcesMatchSessions /\ StreamInv => OnlyMutualWaitSticks
  BY ReadyIffNoMutualWait DEF OnlyMutualWaitSticks
<1> QED
  BY <1>1, StreamsInvariant, PTL

(***************************************************************************)
(* A mutual wait takes more open requests than both directions of the      *)
(* socket buffer: Capacity + 1 requests wait between bridge and daemon,    *)
(* and of the Capacity + 1 frames on their way back at most one is the     *)
(* attachment, which answers none.                                         *)
(***************************************************************************)
THEOREM OnlyRunningAhead == Spec => []OnlyRunningAheadBlocks
<1>1. ResourcesMatchSessions /\ StreamInv => OnlyRunningAheadBlocks
  <2> SUFFICES ASSUME StreamInv, NEW c \in Clients, MutualWait(c)
               PROVE  Len(asked[c]) > 2 * Capacity
    BY DEF OnlyRunningAheadBlocks
  <2>0. /\ StreamTypeOK /\ ServiceInv(c) /\ AlignInv(c)
        /\ gate[c] = "bridging" /\ carry[c] # None /\ Len(up[c]) = Capacity
        /\ stage[c] = "replying" /\ Len(down[c]) = Capacity
    BY DEF StreamInv, StreamRow, MutualWait
  <2>1. /\ carry[c] \in Requests /\ up[c] \in Seq(Requests)
        /\ down[c] \in Seq(Frames \cup Answers) /\ asked[c] \in Seq(Requests)
        /\ reply[c] \in Frames /\ reply[c] # None
    BY <2>0, ConsoleAssumption DEF StreamTypeOK, ServiceInv
  <2>2. Await(Unserved(c), InFlight(c), asked[c])
    BY <2>0 DEF AlignInv, ServiceInv, Serving
  <2>3. Unserved(c) = Append(up[c], carry[c]) /\ Written(c) = Append(down[c], reply[c])
    BY <2>0, <2>1 DEF Unserved, Written
  <2>4. Len(Unserved(c)) = Capacity + 1
    BY <2>0, <2>1, <2>3, SMTT(60)
  <2>5. /\ Written(c) \in Seq(Frames \cup Answers)
        /\ Len(Written(c)) = Capacity + 1 /\ Capacity \in Nat \ {0}
    BY <2>0, <2>1, <2>3, ConsoleAssumption, SMTT(60)
  <2>6. Len(InFlight(c)) \in Nat /\ Len(InFlight(c)) >= Capacity
    <3> DEFINE w == Written(c)
    <3>1. InFlight(c) = Tail(w) \/ InFlight(c) = w
      BY DEF InFlight
    <3>2. /\ w \in Seq(Frames \cup Answers)
          /\ Len(w) = Capacity + 1 /\ Capacity \in Nat \ {0}
      BY <2>5
    <3> HIDE DEF w
    <3>3. Len(Tail(w)) = Capacity
      BY <3>2, SMTT(60)
    <3> QED
      BY <3>1, <3>2, <3>3, SMTT(60)
  <2>7. Len(asked[c]) = Len(InFlight(c)) + (Capacity + 1)
    BY <2>2, <2>4 DEF Await
  <2> QED
    BY <2>5, <2>6, <2>7, SMTT(60)
<1> QED
  BY <1>1, StreamsInvariant, PTL

(***************************************************************************)
(* A mutual wait of bridge and daemon lasts: no step of a browser, of the  *)
(* gateway, of the daemon or of its shutdown ends it.                      *)
(***************************************************************************)
THEOREM MutualWaitIsForever == Spec => MutualWaitLasts
<1>1. ResourcesMatchSessions /\ StreamInv /\ [Next]_vars =>
        [\A c \in Clients : MutualWait(c) => MutualWait(c)']_vars
  BY MutualWaitStays
<1> QED
  BY <1>1, StreamsInvariant, PTL DEF Spec, Safety, MutualWaitLasts

(***************************************************************************)
(* Once the browser is gone, a session takes at most 4 * Capacity + 32     *)
(* more steps: every step of the gateway's task, of prepare_upgrade, of    *)
(* serve_framed_console and of the connection's task lowers the bound, and *)
(* nothing else raises it, so no loop of theirs goes round for ever.       *)
(***************************************************************************)
THEOREM SessionsDrainAway == Spec => []StepsBounded /\ SessionsDrain
<1>1. ResourcesMatchSessions /\ StreamInv /\ [Next]_vars =>
        [\A c \in Clients : Drains(c)]_vars
  BY StepDrains, StepFlows
<1>2. StreamInv => StepsBounded
  BY FewSteps
<1> QED
  BY <1>1, <1>2, StreamsInvariant, PTL DEF Spec, Safety, SessionsDrain
=============================================================================
