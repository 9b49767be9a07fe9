-------------------------- MODULE BootHandoffProofs -------------------------
(***************************************************************************)
(* The transfer of VGA forwarding is complete, undone exactly or announced *)
(* as dirty, and keeps the contract of a boot attempt: for any bridges,    *)
(* paths of any length and any number of failing writes.                   *)
(***************************************************************************)
EXTENDS BootHandoff, SequenceTheorems, TLAPS

-----------------------------------------------------------------------------
(* The inductive invariant.                                                *)

Quiet == {"plan", "disconnect", "returned"}
Clean == Quiet \cup {"route", "rolledBack", "halted"}

\* The route has been applied and verified.
Applied == {"unlock", "copy", "readback", "dispatch", "ownership", "bbs", "bbsBack", "commit",
            "boot", "booting"}

PathInv ==
  /\ Common(shared)
  /\ pc \notin {"plan", "returned"} => ActiveExclusive \cap TargetExclusive = {}

ControlInv ==
  /\ pc = "plan" => reg = orig
  /\ pc \in Quiet => touched = {} /\ ~epAttempted /\ ~dirty /\ at = 1
  /\ pc \notin Clean => dirty
  /\ pc = "rolledBack" => ~dirty
  /\ pc = "route" => at >= 1 /\ ~epAttempted
  /\ pc = "routeBack" => ~epAttempted /\ at <= Len(Route)
  /\ ~epAttempted => cmd = cmd0

\* A bridge without WriteAttempted has its journaled value; while a bridge of
\* the target has it, the bridges of the active display are closed.
JournalInv ==
  /\ \A b \in touched : b \in ActiveExclusive \cup Shared \cup TargetExclusive /\ ~Skipped(b)
  /\ \A b \in touched \ attempted : reg[b] = orig[b]
  /\ attempted \cap TargetExclusive # {} => \A b \in ActiveExclusive : ~reg[b]
  /\ "shared" \notin MayDrift => \A b \in Shared \ touched : reg[b] = orig[b]

\* How far the loops have come.
Behind(n) == {Route[i] : i \in 1 .. n}

LoopInv ==
  /\ pc = "route" =>
       /\ attempted \subseteq Behind(at - 1)
       /\ \A i \in 1 .. at - 1 : ~Skipped(Route[i]) =>
            /\ Route[i] \in ActiveExclusive => ~reg[Route[i]]
            /\ Route[i] \notin ActiveExclusive => reg[Route[i]]
  /\ pc = "routeBack" => attempted \subseteq Behind(at)

Open ==
  /\ \A b \in ActiveExclusive : ~reg[b]
  /\ \A b \in TargetExclusive : reg[b]
  /\ \A b \in Shared : ~orig[b] => reg[b]
  /\ PolicyMet(cmd)

UndoneInv ==
  pc \in {"rolledBack", "halted"} /\ ~dirty =>
    (\A b \in touched : reg[b] = orig[b]) /\ cmd = cmd0

BootInv ==
  /\ boots \in {0, 1}
  /\ boots = 1 => pc \in {"booting", "halted"}
  /\ pc \in Applied \/ boots = 1 => Open
  /\ pc \in Quiet \cup {"route", "endpointBack", "routeBack", "rolledBack", "unlock", "copy"}
       \/ (pc = "halted" /\ ~dirty) =>
       shadow = "old" /\ int10 = "old" /\ bbs = "original"
  /\ pc \in {"dispatch", "ownership", "bbs", "commit", "boot"} \/ boots = 1 => shadow = "rom"
  /\ pc \in {"bbs", "commit", "boot"} \/ boots = 1 => int10 = "rom" /\ firmware = "same"
  /\ pc \in {"commit", "boot"} \/ boots = 1 => bbs = "applied"

HandoffInv ==
  TypeOK /\ PathInv /\ ControlInv /\ JournalInv /\ LoopInv /\ UndoneInv /\ BootInv

-----------------------------------------------------------------------------
(* The paths and the route over them.                                      *)

LEMMA PathSeq ==
  ASSUME NEW p \in Paths
  PROVE  p \in Seq(Bridges) /\ DOMAIN p = 1 .. Len(p) /\ Len(p) \in Nat
<1>1. PICK n \in 0 .. MaxPath : p \in [1 .. n -> Bridges]
  BY DEF Paths
<1>2. n \in Nat
  BY HandoffAssumption
<1>3. p \in Seq(Bridges)
  BY <1>1, <1>2, SeqDef
<1> QED BY <1>3

\* The bridges of a path are the shared ones and its own, and no bridge is both.
LEMMA PathParts ==
  ASSUME TypeOK, PathInv
  PROVE  /\ OnPath(active) = Shared \cup ActiveExclusive
         /\ OnPath(target) = Shared \cup TargetExclusive
         /\ Shared \cap ActiveExclusive = {} /\ Shared \cap TargetExclusive = {}
         /\ Shared \cup ActiveExclusive \cup TargetExclusive \subseteq Bridges
<1>1. /\ active \in Seq(Bridges) /\ DOMAIN active = 1 .. Len(active) /\ Len(active) \in Nat
      /\ target \in Seq(Bridges) /\ DOMAIN target = 1 .. Len(target) /\ Len(target) \in Nat
  BY PathSeq DEF TypeOK
<1>2. /\ shared \in Nat /\ shared <= Len(active) /\ shared <= Len(target)
      /\ \A i \in 1 .. shared : active[i] = target[i]
  BY DEF TypeOK, PathInv, Common
<1>3. /\ \A i, j \in DOMAIN active : active[i] = active[j] => i = j
      /\ \A i, j \in DOMAIN target : target[i] = target[j] => i = j
  BY DEF TypeOK, Paths
<1>4. 1 .. Len(active) = (1 .. shared) \cup (shared + 1 .. Len(active))
  BY <1>1, <1>2
<1>5. 1 .. Len(target) = (1 .. shared) \cup (shared + 1 .. Len(target))
  BY <1>1, <1>2
<1>6. (1 .. shared) \cap (shared + 1 .. Len(active)) = {} /\ (1 .. shared) \cap (shared + 1 .. Len(target)) = {}
  BY <1>1, <1>2
<1>7. OnPath(active) = Shared \cup ActiveExclusive
  BY <1>1, <1>4 DEF OnPath, Shared, ActiveExclusive, After
<1>8. OnPath(target) = Shared \cup TargetExclusive
  BY <1>1, <1>2, <1>5 DEF OnPath, Shared, TargetExclusive, After
<1>9. Shared \cap ActiveExclusive = {}
  BY <1>1, <1>3, <1>4, <1>6 DEF Shared, ActiveExclusive, After
<1>10. Shared \cap TargetExclusive = {}
  BY <1>1, <1>2, <1>3, <1>5, <1>6 DEF Shared, TargetExclusive, After
<1>11. OnPath(active) \subseteq Bridges /\ OnPath(target) \subseteq Bridges
  BY <1>1 DEF OnPath
<1> QED BY <1>7, <1>8, <1>9, <1>10, <1>11

\* The three stretches of the route.
LEMMA RouteStretches ==
  ASSUME TypeOK
  PROVE  LET a == Len(active) - shared
             t == Len(target) - shared
         IN /\ a \in Nat /\ t \in Nat /\ shared \in Nat
            /\ Route \in Seq(Bridges) /\ Len(Route) = a + shared + t
            /\ \A i \in 1 .. a : Route[i] = active[shared + i]
            /\ \A i \in 1 .. shared : Route[a + i] = active[i]
            /\ \A i \in 1 .. t : Route[a + shared + i] = target[shared + i]
<1> DEFINE a == Len(active) - shared
           t == Len(target) - shared
           A == SubSeq(active, shared + 1, Len(active))
           S == SubSeq(active, 1, shared)
           T == SubSeq(target, shared + 1, Len(target))
<1>1. /\ active \in Seq(Bridges) /\ Len(active) \in Nat
      /\ target \in Seq(Bridges) /\ Len(target) \in Nat
      /\ shared \in Nat /\ shared <= Len(active) /\ shared <= Len(target)
  BY PathSeq DEF TypeOK
<1>2. a \in Nat /\ t \in Nat
  BY <1>1
<1>3. A \in Seq(Bridges) /\ Len(A) = a /\ \A i \in 1 .. a : A[i] = active[shared + i]
  <2>1. \A i \in shared + 1 .. Len(active) : active[i] \in Bridges
    BY <1>1
  <2>2. /\ A \in Seq(Bridges)
        /\ Len(A) = IF shared + 1 <= Len(active) THEN Len(active) - (shared + 1) + 1 ELSE 0
        /\ \A i \in 1 .. Len(active) - (shared + 1) + 1 : A[i] = active[shared + 1 + i - 1]
    BY <1>1, <2>1, SubSeqProperties
  <2> QED BY <1>1, <2>2
<1>4. S \in Seq(Bridges) /\ Len(S) = shared /\ \A i \in 1 .. shared : S[i] = active[i]
  <2>1. \A i \in 1 .. shared : active[i] \in Bridges
    BY <1>1
  <2>2. /\ S \in Seq(Bridges)
        /\ Len(S) = IF 1 <= shared THEN shared - 1 + 1 ELSE 0
        /\ \A i \in 1 .. shared - 1 + 1 : S[i] = active[1 + i - 1]
    BY <1>1, <2>1, SubSeqProperties
  <2> QED BY <1>1, <2>2
<1>5. T \in Seq(Bridges) /\ Len(T) = t /\ \A i \in 1 .. t : T[i] = target[shared + i]
  <2>1. \A i \in shared + 1 .. Len(target) : target[i] \in Bridges
    BY <1>1
  <2>2. /\ T \in Seq(Bridges)
        /\ Len(T) = IF shared + 1 <= Len(target) THEN Len(target) - (shared + 1) + 1 ELSE 0
        /\ \A i \in 1 .. Len(target) - (shared + 1) + 1 : T[i] = target[shared + 1 + i - 1]
    BY <1>1, <2>1, SubSeqProperties
  <2> QED BY <1>1, <2>2
<1> HIDE DEF A, S, T, a, t
<1>6. /\ A \o S \in Seq(Bridges) /\ Len(A \o S) = a + shared
      /\ \A i \in 1 .. a + shared : (A \o S)[i] = IF i <= a THEN A[i] ELSE S[i - a]
  BY <1>3, <1>4, ConcatProperties, ZenonT(30)
<1> DEFINE AS == A \o S
<1>7. AS \in Seq(Bridges) /\ Len(AS) = a + shared
  BY <1>6
<1>8. Route = AS \o T
  BY DEF Route, A, S, T
<1> HIDE DEF AS
<1>9. /\ AS \o T \in Seq(Bridges) /\ Len(AS \o T) = a + shared + t
      /\ \A i \in 1 .. a + shared + t :
           (AS \o T)[i] = IF i <= a + shared THEN AS[i] ELSE T[i - (a + shared)]
  <2>1. /\ AS \o T \in Seq(Bridges) /\ Len(AS \o T) = Len(AS) + Len(T)
        /\ \A i \in 1 .. Len(AS) + Len(T) :
             (AS \o T)[i] = IF i <= Len(AS) THEN AS[i] ELSE T[i - Len(AS)]
    BY <1>5, <1>7, ConcatProperties, Zenon
  <2>2. Len(AS) = a + shared /\ Len(T) = t /\ Len(AS) + Len(T) = a + shared + t
    BY <1>1, <1>2, <1>5, <1>7
  <2> QED BY <2>1, <2>2, Zenon
<1> USE DEF AS
<1>10. \A i \in 1 .. a : Route[i] = active[shared + i]
  BY <1>1, <1>2, <1>3, <1>6, <1>9, <1>8
<1>11. \A i \in 1 .. shared : Route[a + i] = active[i]
  <2> SUFFICES ASSUME NEW i \in 1 .. shared PROVE Route[a + i] = active[i]
    OBVIOUS
  <2>1. a + i \in 1 .. a + shared /\ a + i \in 1 .. a + shared + t /\ ~(a + i <= a) /\ (a + i) - a = i
    BY <1>1, <1>2
  <2> QED BY <1>4, <1>6, <1>9, <1>8, <2>1
<1>12. \A i \in 1 .. t : Route[a + shared + i] = target[shared + i]
  <2> SUFFICES ASSUME NEW i \in 1 .. t PROVE Route[a + shared + i] = target[shared + i]
    OBVIOUS
  <2>1. /\ a + shared + i \in 1 .. a + shared + t /\ ~(a + shared + i <= a + shared)
        /\ (a + shared + i) - (a + shared) = i
    BY <1>1, <1>2
  <2> QED BY <1>5, <1>9, <1>8, <2>1
<1> QED BY <1>1, <1>2, <1>9, <1>8, <1>10, <1>11, <1>12 DEF a, t

\* The route visits every bridge of the two paths once, and those of the active
\* display alone before those of the target alone.
LEMMA RouteFacts ==
  ASSUME TypeOK, PathInv, ActiveExclusive \cap TargetExclusive = {}
  PROVE  /\ Len(Route) \in Nat
         /\ \A i \in 1 .. Len(Route) : Route[i] \in Bridges
         /\ \A i \in 1 .. Len(Route) : Route[i] \in ActiveExclusive \cup Shared \cup TargetExclusive
         /\ \A b \in ActiveExclusive \cup Shared \cup TargetExclusive :
              \E i \in 1 .. Len(Route) : Route[i] = b
         /\ \A i, j \in 1 .. Len(Route) : Route[i] = Route[j] => i = j
         /\ \A i, j \in 1 .. Len(Route) :
              Route[i] \in ActiveExclusive /\ Route[j] \in TargetExclusive => i < j
<1> DEFINE a == Len(active) - shared
           t == Len(target) - shared
<1>1. /\ a \in Nat /\ t \in Nat /\ shared \in Nat
      /\ Route \in Seq(Bridges) /\ Len(Route) = a + shared + t
      /\ \A i \in 1 .. a : Route[i] = active[shared + i]
      /\ \A i \in 1 .. shared : Route[a + i] = active[i]
      /\ \A i \in 1 .. t : Route[a + shared + i] = target[shared + i]
  BY RouteStretches
<1>2. /\ Len(active) \in Nat /\ Len(target) \in Nat
      /\ DOMAIN active = 1 .. Len(active) /\ DOMAIN target = 1 .. Len(target)
      /\ Len(active) = shared + a /\ Len(target) = shared + t
  BY <1>1, PathSeq DEF TypeOK
<1>3. /\ \A i, j \in 1 .. Len(active) : active[i] = active[j] => i = j
      /\ \A i, j \in 1 .. Len(target) : target[i] = target[j] => i = j
  BY <1>2 DEF TypeOK, Paths
<1>4. Shared \cap ActiveExclusive = {} /\ Shared \cap TargetExclusive = {}
  BY PathParts
<1> HIDE DEF a, t
<1>5. \A i \in 1 .. a : Route[i] \in ActiveExclusive
  <2> SUFFICES ASSUME NEW i \in 1 .. a PROVE Route[i] \in ActiveExclusive
    OBVIOUS
  <2>1. shared + i \in shared + 1 .. Len(active)
    BY <1>1, <1>2
  <2> QED BY <1>1, <2>1 DEF ActiveExclusive, After
<1>6. \A i \in a + 1 .. a + shared : Route[i] = active[i - a] /\ Route[i] \in Shared
  <2> SUFFICES ASSUME NEW i \in a + 1 .. a + shared
               PROVE  Route[i] = active[i - a] /\ Route[i] \in Shared
    OBVIOUS
  <2>1. i - a \in 1 .. shared /\ a + (i - a) = i
    BY <1>1
  <2> QED BY <1>1, <2>1 DEF Shared
<1>7. \A i \in a + shared + 1 .. a + shared + t :
        Route[i] = target[i - a] /\ Route[i] \in TargetExclusive
  <2> SUFFICES ASSUME NEW i \in a + shared + 1 .. a + shared + t
               PROVE  Route[i] = target[i - a] /\ Route[i] \in TargetExclusive
    OBVIOUS
  <2>1. i - a - shared \in 1 .. t /\ a + shared + (i - a - shared) = i
        /\ shared + (i - a - shared) = i - a
    BY <1>1
  <2>2. i - a \in shared + 1 .. Len(target)
    BY <1>1, <1>2
  <2> QED BY <1>1, <2>1, <2>2 DEF TargetExclusive, After
<1>8. \A i \in 1 .. Len(Route) :
        i \in 1 .. a \/ i \in a + 1 .. a + shared \/ i \in a + shared + 1 .. a + shared + t
  BY <1>1
<1>9. \A i, j \in 1 .. Len(Route) :
        Route[i] \in ActiveExclusive /\ Route[j] \in TargetExclusive => i < j
  <2> SUFFICES ASSUME NEW i \in 1 .. Len(Route), NEW j \in 1 .. Len(Route),
                      Route[i] \in ActiveExclusive, Route[j] \in TargetExclusive
               PROVE  i < j
    OBVIOUS
  <2>1. i \in 1 .. a
    BY <1>4, <1>6, <1>7, <1>8
  <2>2. j \in a + shared + 1 .. a + shared + t
    BY <1>4, <1>5, <1>6, <1>8
  <2> QED BY <1>1, <2>1, <2>2
<1>10. \A i, j \in 1 .. Len(Route) : Route[i] = Route[j] => i = j
  <2> SUFFICES ASSUME NEW i \in 1 .. Len(Route), NEW j \in 1 .. Len(Route), Route[i] = Route[j]
               PROVE  i = j
    OBVIOUS
  <2>1. CASE i \in 1 .. a
    <3>1. j \in 1 .. a
      BY <1>4, <1>5, <1>6, <1>7, <1>8, <2>1
    <3>2. shared + i \in 1 .. Len(active) /\ shared + j \in 1 .. Len(active)
      BY <1>1, <1>2, <2>1, <3>1
    <3>3. shared + i = shared + j
      BY <1>1, <1>3, <2>1, <3>1, <3>2
    <3> QED BY <1>1, <2>1, <3>1, <3>3
  <2>2. CASE i \in a + 1 .. a + shared
    <3>1. j \in a + 1 .. a + shared
      BY <1>4, <1>5, <1>6, <1>7, <1>8, <2>2
    <3>2. i - a \in 1 .. Len(active) /\ j - a \in 1 .. Len(active)
      BY <1>1, <1>2, <2>2, <3>1
    <3>3. i - a = j - a
      BY <1>3, <1>6, <2>2, <3>1, <3>2
    <3> QED BY <1>1, <2>2, <3>1, <3>3
  <2>3. CASE i \in a + shared + 1 .. a + shared + t
    <3>1. j \in a + shared + 1 .. a + shared + t
      BY <1>4, <1>5, <1>6, <1>7, <1>8, <2>3
    <3>2. i - a \in 1 .. Len(target) /\ j - a \in 1 .. Len(target)
      BY <1>1, <1>2, <2>3, <3>1, SMTT(30)
    <3>3. i - a = j - a
      BY <1>3, <1>7, <2>3, <3>1, <3>2
    <3> QED BY <1>1, <2>3, <3>1, <3>3
  <2> QED BY <1>8, <2>1, <2>2, <2>3
<1>11. \A b \in ActiveExclusive \cup Shared \cup TargetExclusive :
         \E i \in 1 .. Len(Route) : Route[i] = b
  <2>1. ASSUME NEW b \in ActiveExclusive PROVE \E i \in 1 .. Len(Route) : Route[i] = b
    <3>1. PICK k \in shared + 1 .. Len(active) : b = active[k]
      BY <2>1 DEF ActiveExclusive, After
    <3>2. k - shared \in 1 .. a /\ shared + (k - shared) = k /\ k - shared \in 1 .. Len(Route)
      BY <1>1, <1>2
    <3> QED BY <1>1, <3>1, <3>2
  <2>2. ASSUME NEW b \in Shared PROVE \E i \in 1 .. Len(Route) : Route[i] = b
    <3>1. PICK k \in 1 .. shared : b = active[k]
      BY <2>2 DEF Shared
    <3>2. a + k \in 1 .. Len(Route)
      BY <1>1
    <3> QED BY <1>1, <3>1, <3>2
  <2>3. ASSUME NEW b \in TargetExclusive PROVE \E i \in 1 .. Len(Route) : Route[i] = b
    <3>1. PICK k \in shared + 1 .. Len(target) : b = target[k]
      BY <2>3 DEF TargetExclusive, After
    <3>2. /\ k - shared \in 1 .. t /\ shared + (k - shared) = k
          /\ a + shared + (k - shared) \in 1 .. Len(Route)
      BY <1>1, <1>2
    <3> QED BY <1>1, <3>1, <3>2
  <2> QED BY <2>1, <2>2, <2>3
<1> QED BY <1>1, <1>5, <1>6, <1>7, <1>8, <1>9, <1>10, <1>11

-----------------------------------------------------------------------------
(* Steps that leave the route, or all of the registers, alone.             *)

LEMMA PlanKept ==
  ASSUME UNCHANGED plan
  PROVE  /\ Route' = Route /\ Shared' = Shared
         /\ ActiveExclusive' = ActiveExclusive /\ TargetExclusive' = TargetExclusive
         /\ \A b : Skipped(b)' <=> Skipped(b)
         /\ \A n : Behind(n)' = Behind(n)
         /\ Common(shared) => Common(shared)'
         /\ \A c : PolicyMet(c) => PolicyMet(c)'
<1>1. /\ active' = active /\ target' = target /\ shared' = shared /\ orig' = orig
      /\ policy' = policy /\ cmd0' = cmd0
  BY DEF plan
<1>2. Route' = Route /\ Shared' = Shared
  BY <1>1 DEF Route, Shared
<1>3. ActiveExclusive' = ActiveExclusive /\ TargetExclusive' = TargetExclusive
  BY <1>1 DEF ActiveExclusive, TargetExclusive, After
<1>4. \A b : Skipped(b)' <=> Skipped(b)
  BY <1>1, <1>2 DEF Skipped
<1>5. \A n : Behind(n)' = Behind(n)
  BY <1>2 DEF Behind
<1>6. Common(shared) => Common(shared)'
  BY <1>1 DEF Common
<1>7. \A c : PolicyMet(c) => PolicyMet(c)'
  BY <1>1 DEF PolicyMet
<1> QED BY <1>2, <1>3, <1>4, <1>5, <1>6, <1>7

\* What a step has to keep the types of, when the plan does not change.
LEMMA TypeKept ==
  ASSUME TypeOK, UNCHANGED plan, pc' \in Labels, reg' \in [Bridges -> BOOLEAN],
         cmd' \subseteq Bits, at' \in 0 .. Len(Route) + 1,
         attempted' \subseteq touched', touched' \subseteq Bridges,
         epAttempted' \in BOOLEAN, dirty' \in BOOLEAN, unlocked' \in BOOLEAN,
         shadow' \in {"old", "rom", "bad"}, int10' \in {"old", "rom", "other"},
         firmware' \in {"same", "changed"}, bbs' \in {"original", "applied", "partial"},
         boots' \in Nat
  PROVE  TypeOK'
<1>1. Route' = Route
  BY PlanKept
<1>2. /\ active' = active /\ target' = target /\ shared' = shared /\ orig' = orig
      /\ policy' = policy /\ cmd0' = cmd0
  BY DEF plan
<1> QED BY <1>1, <1>2 DEF TypeOK

\* After the route has been applied nothing touches a register until a rollback.
LEMMA RouteStays ==
  ASSUME HandoffInv, UNCHANGED <<plan, reg, cmd, at, flags>>,
         \/ pc \in Applied /\ pc' \in Applied \cup {"endpointBack", "halted"}
         \/ pc = "rolledBack" /\ pc' = "halted"
  PROVE  /\ PathInv' /\ ControlInv' /\ JournalInv' /\ LoopInv' /\ UndoneInv'
         /\ Open => Open'
<1>0. /\ reg' = reg /\ cmd' = cmd /\ at' = at /\ attempted' = attempted
      /\ epAttempted' = epAttempted /\ dirty' = dirty /\ touched' = touched
      /\ orig' = orig /\ cmd0' = cmd0 /\ UNCHANGED plan
  BY DEF flags, plan
<1>1. PathInv'
  BY <1>0, PlanKept DEF HandoffInv, PathInv, Applied
<1>2. ControlInv'
  BY <1>0 DEF HandoffInv, ControlInv, Applied, Quiet, Clean
<1>3. JournalInv'
  BY <1>0, PlanKept DEF HandoffInv, JournalInv
<1>4. LoopInv'
  BY DEF LoopInv, Applied
<1>5. UndoneInv'
  BY <1>0 DEF HandoffInv, UndoneInv, ControlInv, Applied, Clean, Quiet
<1>6. Open => Open'
  BY <1>0, PlanKept DEF Open
<1> QED BY <1>1, <1>2, <1>3, <1>4, <1>5, <1>6

\* The ROM, the boot table and the boot itself.
LateStep ==
  \/ Unlock \/ CopyRom \/ Readback \/ FarCall86 \/ Int10Ownership
  \/ BbsTransaction \/ PriorityRollback \/ FinalCommit \/ LegacyBoot \/ LegacyBootReturned
  \/ Halt

LEMMA LateStep_Inv ==
  ASSUME HandoffInv, LateStep PROVE HandoffInv'
<1>1. UNCHANGED <<plan, reg, cmd, at, flags>>
  BY DEF LateStep, Unlock, CopyRom, Readback, FarCall86, Int10Ownership, BbsTransaction,
         PriorityRollback, FinalCommit, LegacyBoot, LegacyBootReturned, Halt
<1>2. \/ pc \in Applied /\ pc' \in Applied \cup {"endpointBack", "halted"}
      \/ pc = "rolledBack" /\ pc' = "halted"
  BY DEF LateStep, Unlock, CopyRom, Readback, FarCall86, Int10Ownership, BbsTransaction,
         PriorityRollback, FinalCommit, LegacyBoot, LegacyBootReturned, Halt, Applied
<1>3. PathInv' /\ ControlInv' /\ JournalInv' /\ LoopInv' /\ UndoneInv' /\ (Open => Open')
  BY <1>1, <1>2, RouteStays
<1>4. /\ unlocked' \in BOOLEAN /\ shadow' \in {"old", "rom", "bad"}
      /\ int10' \in {"old", "rom", "other"} /\ firmware' \in {"same", "changed"}
      /\ bbs' \in {"original", "applied", "partial"} /\ boots' \in Nat
  BY DEF HandoffInv, TypeOK, LateStep, Unlock, CopyRom, Readback, FarCall86, Int10Ownership,
         BbsTransaction, PriorityRollback, FinalCommit, LegacyBoot, LegacyBootReturned, Halt,
         memory
<1>5. TypeOK'
  <2>1. /\ reg' = reg /\ cmd' = cmd /\ at' = at /\ attempted' = attempted
        /\ epAttempted' = epAttempted /\ dirty' = dirty /\ touched' = touched /\ UNCHANGED plan
    BY <1>1 DEF flags
  <2>2. pc' \in Labels
    BY <1>2 DEF Labels, Applied
  <2>3. /\ TypeOK /\ reg' \in [Bridges -> BOOLEAN] /\ cmd' \subseteq Bits
        /\ at' \in 0 .. Len(Route) + 1 /\ attempted' \subseteq touched'
        /\ touched' \subseteq Bridges /\ epAttempted' \in BOOLEAN /\ dirty' \in BOOLEAN
    BY <2>1 DEF HandoffInv, TypeOK
  <2> QED BY <1>4, <2>1, <2>2, <2>3, TypeKept
<1>6. dirty' = dirty /\ (pc \in Applied => dirty)
  BY <1>1 DEF flags, HandoffInv, ControlInv, Applied, Clean, Quiet
<1>7. BootInv'
  <2> USE <1>3, <1>6 DEF HandoffInv, BootInv, Applied, Quiet, memory
  <2>1. CASE Unlock
    BY <2>1 DEF Unlock
  <2>2. CASE CopyRom
    BY <2>2 DEF CopyRom
  <2>3. CASE Readback
    BY <2>3 DEF Readback
  <2>4. CASE FarCall86
    BY <2>4 DEF FarCall86
  <2>5. CASE Int10Ownership
    BY <2>5 DEF Int10Ownership
  <2>6. CASE BbsTransaction
    BY <2>6 DEF BbsTransaction
  <2>7. CASE PriorityRollback
    BY <2>7 DEF PriorityRollback
  <2>8. CASE FinalCommit
    BY <2>8 DEF FinalCommit
  <2>9. CASE LegacyBoot
    BY <2>9 DEF LegacyBoot
  <2>10. CASE LegacyBootReturned
    BY <2>10 DEF LegacyBootReturned
  <2>11. CASE Halt
    BY <2>11 DEF Halt
  <2> QED BY <2>1, <2>2, <2>3, <2>4, <2>5, <2>6, <2>7, <2>8, <2>9, <2>10, <2>11 DEF LateStep
<1> QED BY <1>3, <1>5, <1>7 DEF HandoffInv

-----------------------------------------------------------------------------
(* Before the first register write.                                        *)

LEMMA Init_Inv ==
  ASSUME Init PROVE HandoffInv
<1>1. /\ pc = "plan" /\ active \in Paths /\ target \in Paths /\ shared = 0
      /\ orig \in [Bridges -> BOOLEAN] /\ reg = orig /\ policy \in [Bits -> Modes]
      /\ cmd0 \in SUBSET Bits /\ cmd = cmd0 /\ at = 1 /\ attempted = {}
      /\ epAttempted = FALSE /\ dirty = FALSE /\ touched = {} /\ unlocked = FALSE
      /\ shadow = "old" /\ int10 = "old" /\ firmware = "same" /\ bbs = "original" /\ boots = 0
  BY DEF Init
<1>2. Len(active) \in Nat /\ Len(target) \in Nat
  BY <1>1, PathSeq
<1>3. Len(Route) \in Nat
  <2>1. active \in Seq(Bridges) /\ target \in Seq(Bridges)
    BY <1>1, PathSeq
  <2>2. Route \in Seq(Bridges)
    <3>1. SubSeq(active, shared + 1, Len(active)) \in Seq(Bridges)
      BY <1>1, <1>2, <2>1
    <3>2. SubSeq(active, 1, shared) \in Seq(Bridges)
      BY <1>1, <1>2, <2>1
    <3>3. SubSeq(target, shared + 1, Len(target)) \in Seq(Bridges)
      BY <1>1, <1>2, <2>1
    <3> QED BY <3>1, <3>2, <3>3 DEF Route
  <2> QED BY <2>2
<1>4. epAttempted \in BOOLEAN /\ dirty \in BOOLEAN /\ unlocked \in BOOLEAN
  BY <1>1, Zenon
<1>5. TypeOK
  BY <1>1, <1>2, <1>3, <1>4 DEF TypeOK, Labels
<1>6. PathInv
  BY <1>1, <1>2 DEF PathInv, Common
<1>7. JournalInv
  BY <1>1 DEF JournalInv, Shared
<1> QED BY <1>1, <1>5, <1>6, <1>7 DEF HandoffInv, ControlInv, LoopInv, UndoneInv, BootInv, Quiet,
                                     Clean, Applied

LEMMA BuildAndClassifyPaths_Inv ==
  ASSUME HandoffInv, BuildAndClassifyPaths PROVE HandoffInv'
<1>0. /\ pc = "plan" /\ active' = active /\ target' = target /\ orig' = orig
      /\ policy' = policy /\ cmd0' = cmd0 /\ reg' = reg /\ cmd' = cmd /\ at' = at
      /\ attempted' = attempted /\ epAttempted' = epAttempted /\ dirty' = dirty
      /\ touched' = touched /\ UNCHANGED memory /\ boots' = boots
  BY DEF BuildAndClassifyPaths, flags
<1>1. PICK n \in 0 .. MaxPath :
        /\ Common(n) /\ shared' = n
        /\ pc' = "returned" \/ (After(active, n) \cap After(target, n) = {} /\ pc' = "disconnect")
  BY DEF BuildAndClassifyPaths
<1>2. /\ active \in Seq(Bridges) /\ Len(active) \in Nat
      /\ target \in Seq(Bridges) /\ Len(target) \in Nat /\ n \in Nat
  BY PathSeq, HandoffAssumption DEF HandoffInv, TypeOK
<1>3. touched = {} /\ ~epAttempted /\ ~dirty /\ at = 1 /\ attempted = {}
  BY <1>0 DEF HandoffInv, ControlInv, Quiet, TypeOK
<1>4. Len(Route)' \in Nat
  <2>1. SubSeq(active, n + 1, Len(active)) \in Seq(Bridges)
    BY <1>2
  <2>2. SubSeq(active, 1, n) \in Seq(Bridges)
    BY <1>1, <1>2 DEF Common
  <2>3. SubSeq(target, n + 1, Len(target)) \in Seq(Bridges)
    BY <1>2
  <2>4. Route' \in Seq(Bridges)
    BY <1>0, <1>1, <2>1, <2>2, <2>3 DEF Route
  <2> QED BY <2>4
<1>5. TypeOK'
  BY <1>0, <1>1, <1>2, <1>3, <1>4 DEF HandoffInv, TypeOK, Labels, memory, Common
<1>6. PathInv'
  BY <1>0, <1>1 DEF PathInv, Common, ActiveExclusive, TargetExclusive
<1>7. ControlInv' /\ LoopInv' /\ UndoneInv'
  BY <1>0, <1>1, <1>3 DEF HandoffInv, ControlInv, LoopInv, UndoneInv, Quiet, Clean
<1>8. JournalInv'
  <2>1. reg = orig
    BY <1>0 DEF HandoffInv, ControlInv
  <2> QED BY <1>0, <1>3, <2>1 DEF JournalInv
<1>9. BootInv'
  BY <1>0, <1>1 DEF HandoffInv, BootInv, Quiet, Applied, memory
<1> QED BY <1>5, <1>6, <1>7, <1>8, <1>9 DEF HandoffInv

LEMMA Disconnect_Inv ==
  ASSUME HandoffInv, Disconnect PROVE HandoffInv'
<1>0. /\ pc = "disconnect" /\ pc' \in {"route", "returned"} /\ UNCHANGED plan
      /\ orig' = orig /\ cmd0' = cmd0 /\ cmd' = cmd /\ at' = at
      /\ attempted' = attempted /\ epAttempted' = epAttempted /\ dirty' = dirty
      /\ touched' = touched /\ UNCHANGED memory /\ boots' = boots
  BY DEF Disconnect, flags, plan
<1>1. PICK d \in SUBSET Drifters : reg' = [b \in Bridges |-> IF b \in d THEN ~reg[b] ELSE reg[b]]
  BY DEF Disconnect
<1>2. touched = {} /\ ~epAttempted /\ ~dirty /\ at = 1 /\ attempted = {}
  BY <1>0 DEF HandoffInv, ControlInv, Quiet, TypeOK
<1>3. reg' \in [Bridges -> BOOLEAN]
  BY <1>1 DEF HandoffInv, TypeOK
<1>4. TypeOK'
  <2>1. /\ TypeOK /\ cmd' \subseteq Bits /\ at' \in 0 .. Len(Route) + 1
        /\ attempted' \subseteq touched' /\ touched' \subseteq Bridges
        /\ epAttempted' \in BOOLEAN /\ dirty' \in BOOLEAN /\ unlocked' \in BOOLEAN
        /\ shadow' \in {"old", "rom", "bad"} /\ int10' \in {"old", "rom", "other"}
        /\ firmware' \in {"same", "changed"} /\ bbs' \in {"original", "applied", "partial"}
        /\ boots' \in Nat
    BY <1>0 DEF HandoffInv, TypeOK, memory
  <2>2. pc' \in Labels
    BY <1>0 DEF Labels
  <2> QED BY <1>0, <1>3, <2>1, <2>2, TypeKept
<1>5. PathInv'
  BY <1>0, PlanKept DEF HandoffInv, PathInv
<1>6. ControlInv' /\ LoopInv' /\ UndoneInv'
  BY <1>0, <1>2 DEF HandoffInv, ControlInv, LoopInv, UndoneInv, Quiet, Clean
<1>7. JournalInv'
  <2>1. ASSUME "shared" \notin MayDrift, NEW b \in Shared PROVE reg'[b] = orig[b]
    <3>1. b \in Bridges /\ b \notin ActiveExclusive /\ b \notin TargetExclusive
      BY PathParts DEF HandoffInv
    <3>2. b \notin d
      BY <1>1, <2>1, <3>1 DEF Drifters
    <3>3. reg[b] = orig[b]
      BY <1>2, <2>1 DEF HandoffInv, JournalInv
    <3> QED BY <1>1, <3>1, <3>2, <3>3
  <2> QED BY <1>0, <1>2, <2>1, PlanKept DEF JournalInv
<1>8. BootInv'
  BY <1>0 DEF HandoffInv, BootInv, Quiet, Applied, memory
<1> QED BY <1>4, <1>5, <1>6, <1>7, <1>8 DEF HandoffInv

-----------------------------------------------------------------------------
(* RouteApply.                                                             *)

\* A write changes one bridge at most, and a verified one has succeeded.
LEMMA WriteFacts ==
  ASSUME reg \in [Bridges -> BOOLEAN], NEW b \in Bridges, NEW value \in BOOLEAN,
         NEW verified \in BOOLEAN, Written(b, value, verified)
  PROVE  /\ reg' \in [Bridges -> BOOLEAN]
         /\ \A c \in Bridges : c # b => reg'[c] = reg[c]
         /\ reg'[b] = reg[b] \/ reg'[b] = value
         /\ verified => reg'[b] = value
BY DEF Written

\* What a step of the loops does not touch.
LEMMA LoopTypes ==
  ASSUME HandoffInv, UNCHANGED <<plan, memory, boots>>, pc' \in Labels,
         reg' \in [Bridges -> BOOLEAN], cmd' \subseteq Bits, at' \in 0 .. Len(Route) + 1,
         attempted' \subseteq touched', touched' \subseteq Bridges,
         epAttempted' \in BOOLEAN, dirty' \in BOOLEAN
  PROVE  TypeOK'
<1>1. /\ TypeOK /\ UNCHANGED plan /\ unlocked' \in BOOLEAN
      /\ shadow' \in {"old", "rom", "bad"} /\ int10' \in {"old", "rom", "other"}
      /\ firmware' \in {"same", "changed"} /\ bbs' \in {"original", "applied", "partial"}
      /\ boots' \in Nat
  BY DEF HandoffInv, TypeOK, memory
<1> QED BY <1>1, TypeKept

LEMMA RouteSkip_Inv ==
  ASSUME HandoffInv, RouteSkip PROVE HandoffInv'
<1>0. /\ pc = "route" /\ pc' = "route" /\ at <= Len(Route) /\ Skipped(Route[at]) /\ at' = at + 1
      /\ UNCHANGED plan /\ UNCHANGED <<plan, memory, boots>> /\ orig' = orig /\ cmd0' = cmd0
      /\ reg' = reg /\ cmd' = cmd /\ attempted' = attempted
      /\ epAttempted' = epAttempted /\ dirty' = dirty /\ touched' = touched
  BY DEF RouteSkip, flags, plan
<1>1. at \in Nat /\ at >= 1 /\ Len(Route) \in Nat
  BY <1>0, RouteFacts DEF HandoffInv, ControlInv, TypeOK, PathInv
<1>2. TypeOK'
  <2>1. /\ pc' \in Labels /\ reg' \in [Bridges -> BOOLEAN] /\ cmd' \subseteq Bits
        /\ at' \in 0 .. Len(Route) + 1 /\ attempted' \subseteq touched'
        /\ touched' \subseteq Bridges /\ epAttempted' \in BOOLEAN /\ dirty' \in BOOLEAN
    BY <1>0, <1>1 DEF HandoffInv, TypeOK
  <2> QED BY <1>0, <2>1, LoopTypes
<1>3. PathInv'
  BY <1>0, PlanKept DEF HandoffInv, PathInv
<1>4. ControlInv' /\ UndoneInv'
  BY <1>0, <1>1 DEF HandoffInv, ControlInv, UndoneInv, Quiet, Clean
<1>5. JournalInv'
  BY <1>0, PlanKept DEF HandoffInv, JournalInv
<1>6. LoopInv'
  <2>1. \A i \in 1 .. at' - 1 : i \in 1 .. at - 1 \/ i = at
    BY <1>0, <1>1
  <2>2. attempted' \subseteq Behind(at' - 1)
    <3>1. 1 .. at - 1 \subseteq 1 .. at' - 1
      BY <1>0, <1>1
    <3> QED BY <1>0, <3>1 DEF HandoffInv, LoopInv, Behind
  <2> QED BY <1>0, <2>1, <2>2, PlanKept DEF HandoffInv, LoopInv
<1>7. BootInv'
  BY <1>0 DEF HandoffInv, BootInv, Quiet, Applied, memory
<1> QED BY <1>2, <1>3, <1>4, <1>5, <1>6, <1>7 DEF HandoffInv

LEMMA RouteBridgeStep_Inv ==
  ASSUME HandoffInv, RouteBridgeStep PROVE HandoffInv'
<1> DEFINE r == Route[at]
<1>0. /\ pc = "route" /\ at <= Len(Route) /\ ~Skipped(r)
      /\ attempted' = attempted \cup {r} /\ touched' = touched \cup {r} /\ dirty' = TRUE
      /\ UNCHANGED plan /\ UNCHANGED <<plan, memory, boots>> /\ orig' = orig /\ cmd0' = cmd0
      /\ cmd' = cmd /\ epAttempted' = epAttempted
      /\ pc' \in {"route", "endpointBack"}
      /\ pc' = "route" => Written(r, Requested(r), TRUE) /\ at' = at + 1
      /\ pc' = "endpointBack" => Written(r, Requested(r), FALSE) /\ at' = at
  BY DEF RouteBridgeStep, plan
<1>1. /\ at \in Nat /\ at >= 1 /\ Len(Route) \in Nat /\ at \in 1 .. Len(Route)
      /\ ~epAttempted /\ reg \in [Bridges -> BOOLEAN] /\ attempted \subseteq touched
      /\ ActiveExclusive \cap TargetExclusive = {}
  BY <1>0, RouteFacts DEF HandoffInv, ControlInv, TypeOK, PathInv
<1>2. /\ r \in Bridges /\ r \in ActiveExclusive \cup Shared \cup TargetExclusive
      /\ \A i \in 1 .. Len(Route) : Route[i] \in Bridges
      /\ \A i \in 1 .. at - 1 : Route[i] # r
      /\ \A b \in ActiveExclusive : \E i \in 1 .. Len(Route) : Route[i] = b
      /\ \A i \in 1 .. Len(Route) : Route[i] \in ActiveExclusive /\ r \in TargetExclusive => i < at
  <2>1. HandoffInv /\ TypeOK /\ PathInv
    BY DEF HandoffInv
  <2>2. \A i \in 1 .. at - 1 : i \in 1 .. Len(Route) /\ i # at
    BY <1>1
  <2> QED BY <1>1, <2>1, <2>2, RouteFacts
<1>3. /\ Shared \cap ActiveExclusive = {} /\ Shared \cap TargetExclusive = {}
      /\ Shared \cup ActiveExclusive \cup TargetExclusive \subseteq Bridges
  BY PathParts DEF HandoffInv
<1>4. Requested(r) \in BOOLEAN /\ (r \in ActiveExclusive => Requested(r) = FALSE)
      /\ (r \notin ActiveExclusive => Requested(r) = TRUE)
  BY Zenon DEF Requested
<1>5. /\ reg' \in [Bridges -> BOOLEAN]
      /\ \A c \in Bridges : c # r => reg'[c] = reg[c]
      /\ reg'[r] = reg[r] \/ reg'[r] = Requested(r)
      /\ pc' = "route" => reg'[r] = Requested(r)
  <2> HIDE DEF r
  <2>1. CASE pc' = "route"
    BY <1>0, <1>1, <1>2, <1>4, <2>1, WriteFacts, ZenonT(30)
  <2>2. CASE pc' = "endpointBack"
    BY <1>0, <1>1, <1>2, <1>4, <2>2, WriteFacts, ZenonT(30)
  <2> QED BY <1>0, <2>1, <2>2
<1> HIDE DEF r
<1>6. TypeOK'
  <2>1. dirty' \in BOOLEAN
    BY <1>0, Zenon
  <2>2. /\ pc' \in Labels /\ cmd' \subseteq Bits /\ epAttempted' \in BOOLEAN
    BY <1>0 DEF HandoffInv, TypeOK, Labels
  <2>3. attempted' \subseteq touched' /\ touched' \subseteq Bridges
    BY <1>0, <1>2 DEF HandoffInv, TypeOK
  <2>4. at' = at \/ at' = at + 1
    BY <1>0
  <2>5. at' \in 0 .. Len(Route) + 1
    BY <1>1, <2>4
  <2> QED BY <1>0, <1>5, <2>1, <2>2, <2>3, <2>5, LoopTypes
<1>7. PathInv'
  BY <1>0, PlanKept DEF HandoffInv, PathInv
<1>8. ControlInv' /\ UndoneInv'
  <2>1. dirty' /\ pc' \in {"route", "endpointBack"} /\ (pc' = "route" => at' = at + 1)
    BY <1>0
  <2>2. ~epAttempted' /\ cmd' = cmd0'
    BY <1>0, <1>1 DEF HandoffInv, ControlInv
  <2> QED BY <1>1, <2>1, <2>2 DEF ControlInv, UndoneInv, Quiet, Clean
<1>9. JournalInv'
  <2>1. \A b \in touched' :
          b \in ActiveExclusive \cup Shared \cup TargetExclusive /\ ~Skipped(b)
    BY <1>0, <1>2 DEF HandoffInv, JournalInv
  <2>2. \A b \in touched' \ attempted' : reg'[b] = orig[b]
    <3> SUFFICES ASSUME NEW b \in touched' \ attempted' PROVE reg'[b] = orig[b]
      OBVIOUS
    <3>1. b \in touched \ attempted /\ b # r /\ b \in Bridges
      BY <1>0 DEF HandoffInv, TypeOK
    <3> QED BY <1>5, <3>1 DEF HandoffInv, JournalInv
  <2>3. attempted' \cap TargetExclusive # {} => \A b \in ActiveExclusive : ~reg'[b]
    <3> SUFFICES ASSUME attempted' \cap TargetExclusive # {}, NEW b \in ActiveExclusive
                 PROVE  ~reg'[b]
      OBVIOUS
    <3>1. CASE b = r
      <4>1. r \notin TargetExclusive
        BY <1>1, <3>1
      <4>2. attempted \cap TargetExclusive # {}
        BY <1>0, <4>1
      <4>3. ~reg[r]
        BY <3>1, <4>2 DEF HandoffInv, JournalInv
      <4> QED BY <1>4, <1>5, <3>1, <4>3
    <3>2. CASE b # r /\ r \in TargetExclusive
      <4>1. PICK i \in 1 .. Len(Route) : Route[i] = b
        BY <1>2
      <4>2. i \in 1 .. at - 1
        BY <1>1, <1>2, <3>2, <4>1
      <4>3. ~Skipped(b)
        BY <1>3 DEF Skipped
      <4>4. ~reg[b]
        BY <1>0, <4>1, <4>2, <4>3 DEF HandoffInv, LoopInv
      <4> QED BY <1>3, <1>5, <3>2, <4>4
    <3>3. CASE b # r /\ r \notin TargetExclusive
      <4>1. attempted \cap TargetExclusive # {}
        BY <1>0, <3>3
      <4>2. ~reg[b]
        BY <4>1 DEF HandoffInv, JournalInv
      <4> QED BY <1>3, <1>5, <3>3, <4>2
    <3> QED BY <3>1, <3>2, <3>3
  <2>4. "shared" \notin MayDrift => \A b \in Shared \ touched' : reg'[b] = orig[b]
    BY <1>0, <1>3, <1>5 DEF HandoffInv, JournalInv
  <2> QED BY <1>0, <2>1, <2>2, <2>3, <2>4, PlanKept DEF JournalInv
<1>10. LoopInv'
  <2> SUFFICES ASSUME pc' = "route" PROVE LoopInv'
    BY <1>0 DEF LoopInv
  <2>0. at' - 1 = at
    BY <1>0, <1>1
  <2>1. attempted' \subseteq Behind(at)
    <3>1. attempted \subseteq Behind(at - 1)
      BY <1>0 DEF HandoffInv, LoopInv
    <3>2. Behind(at - 1) \subseteq Behind(at) /\ r \in Behind(at)
      BY <1>1 DEF Behind, r
    <3> QED BY <1>0, <3>1, <3>2
  <2>2. ASSUME NEW i \in 1 .. at, ~Skipped(Route[i])
        PROVE  /\ Route[i] \in ActiveExclusive => ~reg'[Route[i]]
               /\ Route[i] \notin ActiveExclusive => reg'[Route[i]]
    <3>1. CASE i = at
      BY <1>4, <1>5, <3>1 DEF r
    <3>2. CASE i # at
      <4>1. i \in 1 .. at - 1 /\ i \in 1 .. Len(Route)
        BY <1>1, <3>2
      <4>2. reg'[Route[i]] = reg[Route[i]]
        BY <1>2, <1>5, <4>1
      <4> QED BY <1>0, <2>2, <4>1, <4>2 DEF HandoffInv, LoopInv
    <3> QED BY <3>1, <3>2
  <2> QED BY <1>0, <2>0, <2>1, <2>2, PlanKept DEF LoopInv
<1>11. BootInv'
  BY <1>0 DEF HandoffInv, BootInv, Quiet, Applied, memory
<1> QED BY <1>6, <1>7, <1>8, <1>9, <1>10, <1>11 DEF HandoffInv

LEMMA EndpointStep_Inv ==
  ASSUME HandoffInv, EndpointStep PROVE HandoffInv'
<1>0. /\ pc = "route" /\ at > Len(Route) /\ epAttempted' = TRUE /\ dirty' = TRUE
      /\ cmd' \subseteq Bits /\ pc' \in {"unlock", "endpointBack"}
      /\ UNCHANGED plan /\ UNCHANGED <<plan, memory, boots>> /\ orig' = orig /\ cmd0' = cmd0
      /\ policy' = policy /\ reg' = reg /\ at' = at /\ attempted' = attempted
      /\ touched' = touched
  BY DEF EndpointStep, CommandWrites, plan
<1>1. pc' = "unlock" => PolicyMet(cmd')
  BY DEF EndpointStep
<1>2. epAttempted' /\ dirty' /\ epAttempted' \in BOOLEAN /\ dirty' \in BOOLEAN
  BY <1>0, Zenon
<1>3. TypeOK'
  <2>1. /\ pc' \in Labels /\ reg' \in [Bridges -> BOOLEAN] /\ at' \in 0 .. Len(Route) + 1
        /\ attempted' \subseteq touched' /\ touched' \subseteq Bridges
    BY <1>0 DEF HandoffInv, TypeOK, Labels
  <2> QED BY <1>0, <1>2, <2>1, LoopTypes
<1>4. PathInv'
  BY <1>0, PlanKept DEF HandoffInv, PathInv
<1>5. ControlInv' /\ UndoneInv' /\ LoopInv'
  BY <1>0, <1>2 DEF ControlInv, UndoneInv, LoopInv, Quiet, Clean
<1>6. JournalInv'
  BY <1>0, PlanKept DEF HandoffInv, JournalInv
<1>7. pc' = "unlock" => Open'
  <2> SUFFICES ASSUME pc' = "unlock" PROVE Open'
    OBVIOUS
  <2>1. TypeOK /\ PathInv /\ ActiveExclusive \cap TargetExclusive = {} /\ at \in Nat
    BY <1>0 DEF HandoffInv, PathInv, TypeOK
  <2>2. Shared \cap ActiveExclusive = {} /\ Shared \cap TargetExclusive = {}
    BY <2>1, PathParts
  <2>3. ASSUME NEW b \in ActiveExclusive \cup Shared \cup TargetExclusive, ~Skipped(b)
        PROVE  (b \in ActiveExclusive => ~reg[b]) /\ (b \notin ActiveExclusive => reg[b])
    <3>1. PICK i \in 1 .. Len(Route) : Route[i] = b
      BY <2>1, RouteFacts
    <3>2. i \in 1 .. at - 1
      BY <1>0, <2>1, RouteFacts
    <3> QED BY <1>0, <2>3, <3>1, <3>2 DEF HandoffInv, LoopInv
  <2>4. \A b \in ActiveExclusive : ~reg[b]
    BY <2>2, <2>3 DEF Skipped
  <2>5. \A b \in TargetExclusive : reg[b]
    BY <2>1, <2>2, <2>3 DEF Skipped
  <2>6. \A b \in Shared : ~orig[b] => reg[b]
    BY <2>2, <2>3 DEF Skipped
  <2>7. PolicyMet(cmd)'
    BY <1>0, <1>1 DEF PolicyMet
  <2> QED BY <1>0, <2>4, <2>5, <2>6, <2>7, PlanKept DEF Open
<1>8. BootInv'
  BY <1>0, <1>7 DEF HandoffInv, BootInv, Quiet, Applied, memory
<1> QED BY <1>3, <1>4, <1>5, <1>6, <1>8 DEF HandoffInv

-----------------------------------------------------------------------------
(* RouteRestore.                                                           *)

LEMMA EndpointRollback_Inv ==
  ASSUME HandoffInv, EndpointRollback PROVE HandoffInv'
<1>0. /\ pc = "endpointBack" /\ UNCHANGED plan /\ UNCHANGED <<plan, memory, boots>>
      /\ orig' = orig /\ cmd0' = cmd0 /\ reg' = reg /\ attempted' = attempted
      /\ dirty' = dirty /\ touched' = touched /\ cmd \subseteq Bits /\ cmd0 \subseteq Bits
  BY DEF EndpointRollback, plan, HandoffInv, TypeOK
<1>1. \/ pc' = "routeBack" /\ at' = Len(Route) /\ ~epAttempted' /\ cmd' = cmd0
           /\ epAttempted' \in BOOLEAN
      \/ pc' = "halted" /\ at' = at /\ epAttempted' = epAttempted /\ epAttempted
           /\ cmd' \subseteq Bits
  <2>1. CASE ~epAttempted /\ pc' = "routeBack" /\ at' = Len(Route) /\ UNCHANGED <<cmd, epAttempted>>
    BY <2>1 DEF HandoffInv, ControlInv, TypeOK
  <2>2. CASE epAttempted /\ cmd' = cmd0 /\ epAttempted' = FALSE /\ pc' = "routeBack" /\ at' = Len(Route)
    BY <2>2, Zenon
  <2>3. CASE /\ epAttempted /\ cmd' \in CommandWrites(cmd0) /\ pc' = "halted"
             /\ UNCHANGED <<at, epAttempted>>
    BY <2>3 DEF CommandWrites
  <2> QED BY <2>1, <2>2, <2>3 DEF EndpointRollback
<1>2. TypeOK /\ PathInv /\ ActiveExclusive \cap TargetExclusive = {} /\ Len(Route) \in Nat
  BY <1>0, RouteFacts DEF HandoffInv, PathInv
<1>3. TypeOK'
  <2>1. /\ pc' \in Labels /\ reg' \in [Bridges -> BOOLEAN] /\ dirty' \in BOOLEAN
        /\ attempted' \subseteq touched' /\ touched' \subseteq Bridges
    BY <1>0, <1>1, <1>2 DEF TypeOK, Labels
  <2>2. /\ at' \in 0 .. Len(Route) + 1 /\ cmd' \subseteq Bits /\ epAttempted' \in BOOLEAN
    BY <1>0, <1>1, <1>2 DEF TypeOK
  <2> QED BY <1>0, <2>1, <2>2, LoopTypes
<1>4. PathInv'
  BY <1>0, PlanKept DEF HandoffInv, PathInv
<1>5. dirty
  BY <1>0 DEF HandoffInv, ControlInv, Clean, Quiet
<1>6. ControlInv' /\ UndoneInv'
  BY <1>0, <1>1, <1>2, <1>5, PlanKept DEF ControlInv, UndoneInv, Quiet, Clean
<1>7. JournalInv'
  BY <1>0, PlanKept DEF HandoffInv, JournalInv
<1>8. LoopInv'
  <2> SUFFICES ASSUME pc' = "routeBack" PROVE LoopInv'
    BY <1>1 DEF LoopInv
  <2>1. \A b \in attempted : \E i \in 1 .. Len(Route) : Route[i] = b
    BY <1>2, RouteFacts DEF HandoffInv, JournalInv, TypeOK
  <2>2. attempted \subseteq Behind(Len(Route))
    BY <2>1 DEF Behind
  <2> QED BY <1>0, <1>1, <2>2, PlanKept DEF LoopInv
<1>9. BootInv'
  BY <1>0, <1>1, <1>5 DEF HandoffInv, BootInv, Quiet, Applied, memory
<1> QED BY <1>3, <1>4, <1>6, <1>7, <1>8, <1>9 DEF HandoffInv

LEMMA RouteRollback_Inv ==
  ASSUME HandoffInv, RouteRollback PROVE HandoffInv'
<1> DEFINE r == Route[at]
<1>0. /\ pc = "routeBack" /\ at > 0 /\ UNCHANGED plan /\ UNCHANGED <<plan, memory, boots>>
      /\ orig' = orig /\ cmd0' = cmd0 /\ cmd' = cmd /\ epAttempted' = epAttempted
      /\ dirty' = dirty /\ touched' = touched
  BY DEF RouteRollback, plan
<1>1. /\ TypeOK /\ PathInv /\ ActiveExclusive \cap TargetExclusive = {} /\ Len(Route) \in Nat
      /\ reg \in [Bridges -> BOOLEAN] /\ orig \in [Bridges -> BOOLEAN]
      /\ attempted \subseteq touched /\ touched \subseteq Bridges /\ at \in Nat
      /\ at <= Len(Route) /\ dirty /\ dirty \in BOOLEAN /\ ~epAttempted /\ cmd = cmd0
  BY <1>0, RouteFacts DEF HandoffInv, PathInv, TypeOK, ControlInv, Clean, Quiet
<1>2. attempted \subseteq Behind(at)
  BY <1>0 DEF HandoffInv, LoopInv
<1>3. attempted \ {r} \subseteq Behind(at - 1)
  BY <1>0, <1>1, <1>2 DEF Behind
<1>4. /\ Shared \cap ActiveExclusive = {} /\ Shared \cap TargetExclusive = {}
      /\ Shared \cup ActiveExclusive \cup TargetExclusive \subseteq Bridges
  BY <1>1, PathParts
<1>5. r \in attempted /\ r \in ActiveExclusive => attempted \cap TargetExclusive = {}
  <2> SUFFICES ASSUME r \in attempted, r \in ActiveExclusive,
                      NEW b \in attempted \cap TargetExclusive
               PROVE  FALSE
    OBVIOUS
  <2>1. PICK j \in 1 .. at : Route[j] = b
    BY <1>2 DEF Behind
  <2>2. at \in 1 .. Len(Route) /\ j \in 1 .. Len(Route)
    BY <1>0, <1>1
  <2>3. at < j
    BY <1>1, <2>1, <2>2, RouteFacts
  <2> QED BY <1>1, <2>1, <2>3
<1>6. r \in Bridges
  <2>1. at \in 1 .. Len(Route)
    BY <1>0, <1>1
  <2> QED BY <1>1, <2>1, RouteFacts
<1> HIDE DEF r
<1>7. orig[r] \in BOOLEAN
  BY <1>1, <1>6
<1>8. \/ /\ r \notin attempted /\ at' = at - 1 /\ pc' = "routeBack" /\ reg' = reg
         /\ attempted' = attempted
      \/ /\ r \in attempted /\ Written(r, orig[r], TRUE)
         /\ attempted' = attempted \ {r} /\ at' = at - 1 /\ pc' = "routeBack"
      \/ /\ r \in attempted /\ Written(r, orig[r], FALSE)
         /\ pc' = "halted" /\ at' = at /\ attempted' = attempted
  BY <1>0 DEF RouteRollback, r
<1>9. /\ reg' \in [Bridges -> BOOLEAN]
      /\ \A c \in Bridges : c # r \/ r \notin attempted => reg'[c] = reg[c]
      /\ r \in attempted \ attempted' => reg'[r] = orig[r]
      /\ attempted' \subseteq attempted /\ attempted \ {r} \subseteq attempted'
  <2>1. CASE r \notin attempted /\ reg' = reg /\ attempted' = attempted
    BY <1>1, <2>1
  <2>2. CASE r \in attempted /\ Written(r, orig[r], TRUE) /\ attempted' = attempted \ {r}
    BY <1>1, <1>6, <1>7, <2>2, WriteFacts
  <2>3. CASE r \in attempted /\ Written(r, orig[r], FALSE) /\ attempted' = attempted
    BY <1>1, <1>6, <1>7, <2>3, WriteFacts
  <2> QED BY <1>8, <2>1, <2>2, <2>3
<1>10. \/ pc' = "routeBack" /\ at' = at - 1 /\ r \notin attempted'
       \/ pc' = "halted" /\ at' = at
  BY <1>8
<1>11. TypeOK'
  <2>1. /\ pc' \in Labels /\ at' \in 0 .. Len(Route) + 1
    BY <1>0, <1>1, <1>10 DEF Labels
  <2>2. /\ cmd' \subseteq Bits /\ dirty' \in BOOLEAN /\ epAttempted' \in BOOLEAN
        /\ attempted' \subseteq touched' /\ touched' \subseteq Bridges
    BY <1>0, <1>1, <1>9 DEF TypeOK
  <2> QED BY <1>0, <1>9, <2>1, <2>2, LoopTypes
<1>12. PathInv'
  BY <1>0, PlanKept DEF HandoffInv, PathInv
<1>13. ControlInv' /\ UndoneInv'
  BY <1>0, <1>1, <1>10, PlanKept DEF ControlInv, UndoneInv, Quiet, Clean
<1>14. JournalInv'
  <2>1. \A b \in touched \ attempted' : reg'[b] = orig[b]
    <3> SUFFICES ASSUME NEW b \in touched \ attempted' PROVE reg'[b] = orig[b]
      OBVIOUS
    <3>1. CASE b \in attempted
      BY <1>9, <3>1
    <3>2. CASE b \notin attempted
      <4>1. reg'[b] = reg[b]
        BY <1>1, <1>9, <3>2
      <4> QED BY <3>2, <4>1 DEF HandoffInv, JournalInv
    <3> QED BY <3>1, <3>2
  <2>2. attempted' \cap TargetExclusive # {} => \A b \in ActiveExclusive : ~reg'[b]
    <3> SUFFICES ASSUME attempted' \cap TargetExclusive # {}, NEW b \in ActiveExclusive
                 PROVE  ~reg'[b]
      OBVIOUS
    <3>1. attempted \cap TargetExclusive # {}
      BY <1>9
    <3>2. b # r \/ r \notin attempted
      BY <1>5, <3>1
    <3>3. ~reg[b]
      BY <3>1 DEF HandoffInv, JournalInv
    <3> QED BY <1>4, <1>9, <3>2, <3>3
  <2>3. "shared" \notin MayDrift => \A b \in Shared \ touched : reg'[b] = orig[b]
    BY <1>1, <1>4, <1>9 DEF HandoffInv, JournalInv
  <2> QED BY <1>0, <2>1, <2>2, <2>3, PlanKept DEF HandoffInv, JournalInv
<1>15. LoopInv'
  BY <1>0, <1>3, <1>9, <1>10, PlanKept DEF LoopInv
<1>16. BootInv'
  BY <1>0, <1>1, <1>10 DEF HandoffInv, BootInv, Quiet, Applied, memory
<1> QED BY <1>11, <1>12, <1>13, <1>14, <1>15, <1>16 DEF HandoffInv

LEMMA RouteRollbackComplete_Inv ==
  ASSUME HandoffInv, RouteRollbackComplete PROVE HandoffInv'
<1>0. /\ pc = "routeBack" /\ at = 0 /\ pc' = "rolledBack" /\ dirty' = FALSE
      /\ UNCHANGED plan /\ UNCHANGED <<plan, memory, boots>> /\ orig' = orig /\ cmd0' = cmd0
      /\ reg' = reg /\ cmd' = cmd /\ at' = at /\ attempted' = attempted
      /\ epAttempted' = epAttempted /\ touched' = touched
  BY DEF RouteRollbackComplete, plan
<1>1. ~dirty' /\ dirty' \in BOOLEAN
  BY <1>0, Zenon
<1>2. attempted = {}
  <2>1. attempted \subseteq Behind(0)
    BY <1>0 DEF HandoffInv, LoopInv
  <2> QED BY <2>1 DEF Behind
<1>3. \A b \in touched : reg[b] = orig[b]
  BY <1>2 DEF HandoffInv, JournalInv
<1>4. cmd = cmd0 /\ ~epAttempted
  BY <1>0 DEF HandoffInv, ControlInv
<1>5. TypeOK'
  <2>1. /\ pc' \in Labels /\ reg' \in [Bridges -> BOOLEAN] /\ cmd' \subseteq Bits
        /\ at' \in 0 .. Len(Route) + 1 /\ attempted' \subseteq touched'
        /\ touched' \subseteq Bridges /\ epAttempted' \in BOOLEAN
    BY <1>0 DEF HandoffInv, TypeOK, Labels
  <2> QED BY <1>0, <1>1, <2>1, LoopTypes
<1>6. PathInv'
  BY <1>0, PlanKept DEF HandoffInv, PathInv
<1>7. ControlInv' /\ UndoneInv' /\ LoopInv'
  BY <1>0, <1>1, <1>3, <1>4 DEF ControlInv, UndoneInv, LoopInv, Quiet, Clean
<1>8. JournalInv'
  BY <1>0, PlanKept DEF HandoffInv, JournalInv
<1>9. BootInv'
  BY <1>0, <1>1 DEF HandoffInv, BootInv, Quiet, Applied, memory
<1> QED BY <1>5, <1>6, <1>7, <1>8, <1>9 DEF HandoffInv

LEMMA Stutter_Inv ==
  ASSUME HandoffInv, UNCHANGED vars PROVE HandoffInv'
<1>0. /\ pc' = pc /\ UNCHANGED plan /\ UNCHANGED <<plan, memory, boots>> /\ orig' = orig
      /\ cmd0' = cmd0 /\ reg' = reg /\ cmd' = cmd /\ at' = at /\ attempted' = attempted
      /\ epAttempted' = epAttempted /\ dirty' = dirty /\ touched' = touched
  BY DEF vars, flags, plan
<1>1. TypeOK'
  <2>1. /\ pc' \in Labels /\ reg' \in [Bridges -> BOOLEAN] /\ cmd' \subseteq Bits
        /\ at' \in 0 .. Len(Route) + 1 /\ attempted' \subseteq touched'
        /\ touched' \subseteq Bridges /\ epAttempted' \in BOOLEAN /\ dirty' \in BOOLEAN
    BY <1>0 DEF HandoffInv, TypeOK
  <2> QED BY <1>0, <2>1, LoopTypes
<1>2. PathInv'
  BY <1>0, PlanKept DEF HandoffInv, PathInv
<1>3. ControlInv' /\ UndoneInv'
  BY <1>0, PlanKept DEF HandoffInv, ControlInv, UndoneInv
<1>4. JournalInv' /\ LoopInv'
  BY <1>0, PlanKept DEF HandoffInv, JournalInv, LoopInv
<1>5. Open => Open'
  BY <1>0, PlanKept DEF Open
<1>6. BootInv'
  BY <1>0, <1>5 DEF HandoffInv, BootInv, memory
<1> QED BY <1>1, <1>2, <1>3, <1>4, <1>6 DEF HandoffInv

LEMMA Next_Inv ==
  ASSUME HandoffInv, [Next]_vars PROVE HandoffInv'
<1>1. CASE LateStep
  BY <1>1, LateStep_Inv
<1>2. CASE Terminated \/ UNCHANGED vars
  BY <1>2, Stutter_Inv DEF Terminated
<1> QED BY <1>1, <1>2, BuildAndClassifyPaths_Inv, Disconnect_Inv, RouteBridgeStep_Inv,
           RouteSkip_Inv, EndpointStep_Inv, EndpointRollback_Inv, RouteRollback_Inv,
           RouteRollbackComplete_Inv DEF Next, LateStep

-----------------------------------------------------------------------------
(* The theorems.                                                           *)

\* HandoffInv holds of every state of a boot attempt.
THEOREM HandoffInvariant == Spec => []HandoffInv
<1>1. Init => HandoffInv
  BY Init_Inv
<1>2. HandoffInv /\ [Next]_vars => HandoffInv'
  BY Next_Inv
<1> QED BY <1>1, <1>2, PTL DEF Spec

\* The attempt is well typed: the loops of RouteApply and RouteRestore never
\* index a bridge outside the route.
THEOREM HandoffTypeCorrect == Spec => []TypeOK
<1>1. HandoffInv => TypeOK
  BY DEF HandoffInv
<1> QED BY <1>1, HandoffInvariant, PTL

\* RouteApply and RouteRestore never open a bridge of the target while one of
\* the active display alone forwards, wherever a write fails.
THEOREM ForwardingSafe == Spec => []NoDoubleForwarding
<1>1. HandoffInv => NoDoubleForwarding
  <2> SUFFICES ASSUME HandoffInv,
                      NEW b \in OnPath(target) \ OnPath(active), b \in touched, reg[b], ~orig[b],
                      NEW c \in OnPath(active) \ OnPath(target)
               PROVE  ~reg[c]
    BY DEF NoDoubleForwarding
  <2>1. b \in TargetExclusive /\ c \in ActiveExclusive
    BY PathParts DEF HandoffInv
  <2>2. b \in attempted
    BY DEF HandoffInv, JournalInv
  <2> QED BY <2>1, <2>2 DEF HandoffInv, JournalInv
<1> QED BY <1>1, HandoffInvariant, PTL

\* A complete RouteRestore, and a cleared RouteDirty at the end, mean that every
\* register is as it was journaled and that no ROM or boot table was changed.
THEOREM RollbackSafe == Spec => []RollbackExact
<1>1. HandoffInv => RollbackExact
  BY DEF HandoffInv, RollbackExact, UndoneInv, BootInv
<1> QED BY <1>1, HandoffInvariant, PTL

\* If disconnecting the driver of the active display leaves shared bridges
\* alone, LegacyBoot is called at most once, and only with the target reachable
\* alone and everything before it verified.
THEOREM BootSafe ==
  ASSUME "shared" \notin MayDrift
  PROVE  Spec => []BootReady
<1>1. HandoffInv => BootReady
  <2> SUFFICES ASSUME HandoffInv PROVE BootReady
    OBVIOUS
  <2>1. boots <= 1 /\ (boots > 0 => boots = 1)
    BY DEF HandoffInv, BootInv
  <2>2. ASSUME pc = "boot" \/ boots = 1
        PROVE  /\ \A b \in OnPath(target) : reg[b]
               /\ \A b \in OnPath(active) \ OnPath(target) : ~reg[b]
               /\ PolicyMet(cmd)
    <3>1. Open
      BY <2>2 DEF HandoffInv, BootInv, Applied
    <3>2. \A b \in Shared : orig[b] => reg[b]
      <4> SUFFICES ASSUME NEW b \in Shared, orig[b] PROVE reg[b]
        OBVIOUS
      <4>1. b \notin touched
        BY DEF HandoffInv, JournalInv, Skipped
      <4> QED BY <4>1 DEF HandoffInv, JournalInv
    <3>3. \A b \in Shared : reg[b]
      BY <3>1, <3>2 DEF Open
    <3> QED BY <3>1, <3>3, PathParts DEF Open, HandoffInv
  <2>3. ASSUME pc = "boot" \/ boots = 1
        PROVE  shadow = "rom" /\ int10 = "rom" /\ firmware = "same" /\ bbs = "applied"
    BY <2>3 DEF HandoffInv, BootInv
  <2> QED BY <2>1, <2>2, <2>3 DEF BootReady
<1> QED BY <1>1, HandoffInvariant, PTL

\* RouteApply never closes a shared bridge, RouteRestore only one that was closed
\* when it was journaled, and no step writes a bridge on neither path.
THEOREM SharedSafe ==
  ASSUME "shared" \notin MayDrift
  PROVE  Spec => SharedNeverDisabled
<1> DEFINE Allowed ==
      \A b \in Bridges : reg'[b] # reg[b] =>
        /\ b \in OnPath(active) \cup OnPath(target)
        /\ b \in OnPath(active) \cap OnPath(target) /\ reg[b] => pc = "routeBack" /\ ~orig[b]
<1>1. ASSUME HandoffInv, Disconnect PROVE Allowed
  <2>1. PICK d \in SUBSET Drifters : reg' = [b \in Bridges |-> IF b \in d THEN ~reg[b] ELSE reg[b]]
    BY <1>1 DEF Disconnect
  <2>2. ActiveExclusive \cap TargetExclusive = {}
    BY <1>1 DEF Disconnect, HandoffInv, PathInv
  <2>3. /\ OnPath(active) = Shared \cup ActiveExclusive /\ OnPath(target) = Shared \cup TargetExclusive
        /\ Shared \cap ActiveExclusive = {} /\ Shared \cap TargetExclusive = {}
    BY <1>1, PathParts DEF HandoffInv
  <2>4. d \subseteq ActiveExclusive \cup TargetExclusive
    BY DEF Drifters
  <2>5. \A b \in Bridges : reg'[b] # reg[b] => b \in d
    BY <2>1
  <2> QED BY <2>2, <2>3, <2>4, <2>5
<1>2. ASSUME HandoffInv, RouteBridgeStep PROVE Allowed
  <2> DEFINE r == Route[at]
  <2>1. /\ pc = "route" /\ ~Skipped(r) /\ at <= Len(Route)
        /\ Written(r, Requested(r), TRUE) \/ Written(r, Requested(r), FALSE)
    BY <1>2 DEF RouteBridgeStep
  <2>2. /\ TypeOK /\ PathInv /\ ActiveExclusive \cap TargetExclusive = {} /\ at \in Nat /\ at >= 1
        /\ reg \in [Bridges -> BOOLEAN]
    BY <1>2, <2>1 DEF HandoffInv, PathInv, TypeOK, ControlInv
  <2>3. r \in Bridges /\ r \in ActiveExclusive \cup Shared \cup TargetExclusive
    <3>1. at \in 1 .. Len(Route)
      BY <2>1, <2>2, RouteFacts
    <3> QED BY <2>2, <3>1, RouteFacts
  <2>4. /\ OnPath(active) = Shared \cup ActiveExclusive /\ OnPath(target) = Shared \cup TargetExclusive
        /\ Shared \cap ActiveExclusive = {} /\ Shared \cap TargetExclusive = {}
    BY <2>2, PathParts
  <2>5. Requested(r) \in BOOLEAN /\ (r \notin ActiveExclusive => Requested(r) = TRUE)
    BY Zenon DEF Requested
  <2> HIDE DEF r
  <2>6. /\ \A c \in Bridges : c # r => reg'[c] = reg[c]
        /\ reg'[r] = reg[r] \/ reg'[r] = Requested(r)
    <3>1. CASE Written(r, Requested(r), TRUE)
      BY <2>2, <2>3, <2>5, <3>1, WriteFacts
    <3>2. CASE Written(r, Requested(r), FALSE)
      BY <2>2, <2>3, <2>5, <3>2, WriteFacts
    <3> QED BY <2>1, <3>1, <3>2
  <2> SUFFICES ASSUME NEW b \in Bridges, reg'[b] # reg[b]
               PROVE  /\ b \in OnPath(active) \cup OnPath(target)
                      /\ ~(b \in OnPath(active) \cap OnPath(target) /\ reg[b])
    OBVIOUS
  <2>7. b = r
    BY <2>6
  <2>8. ASSUME b \in OnPath(active) \cap OnPath(target) PROVE reg'[b] = TRUE
    BY <2>2, <2>4, <2>5, <2>6, <2>7, <2>8
  <2>9. reg[b] \in BOOLEAN
    BY <2>2
  <2> QED BY <2>3, <2>4, <2>7, <2>8, <2>9
<1>3. ASSUME HandoffInv, RouteRollback PROVE Allowed
  <2> DEFINE r == Route[at]
  <2>1. /\ pc = "routeBack" /\ at > 0
        /\ reg' = reg \/ Written(r, orig[r], TRUE) \/ Written(r, orig[r], FALSE)
    BY <1>3 DEF RouteRollback
  <2>2. /\ TypeOK /\ PathInv /\ ActiveExclusive \cap TargetExclusive = {} /\ at \in Nat
        /\ at <= Len(Route) /\ reg \in [Bridges -> BOOLEAN] /\ orig \in [Bridges -> BOOLEAN]
    BY <1>3, <2>1 DEF HandoffInv, PathInv, TypeOK, ControlInv
  <2>3. r \in Bridges /\ r \in ActiveExclusive \cup Shared \cup TargetExclusive
    <3>1. at \in 1 .. Len(Route)
      BY <2>1, <2>2, RouteFacts
    <3> QED BY <2>2, <3>1, RouteFacts
  <2>4. OnPath(active) = Shared \cup ActiveExclusive /\ OnPath(target) = Shared \cup TargetExclusive
    BY <2>2, PathParts
  <2>5. orig[r] \in BOOLEAN
    BY <2>2, <2>3
  <2> HIDE DEF r
  <2>6. /\ \A c \in Bridges : c # r => reg'[c] = reg[c]
        /\ reg'[r] = reg[r] \/ reg'[r] = orig[r]
    <3>1. CASE reg' = reg
      BY <3>1
    <3>2. CASE Written(r, orig[r], TRUE)
      BY <2>2, <2>3, <2>5, <3>2, WriteFacts
    <3>3. CASE Written(r, orig[r], FALSE)
      BY <2>2, <2>3, <2>5, <3>3, WriteFacts
    <3> QED BY <2>1, <3>1, <3>2, <3>3
  <2> SUFFICES ASSUME NEW b \in Bridges, reg'[b] # reg[b]
               PROVE  b \in OnPath(active) \cup OnPath(target) /\ (reg[b] => ~orig[b])
    BY <2>1
  <2>7. b = r /\ reg[b] # orig[b] /\ reg[b] \in BOOLEAN /\ orig[b] \in BOOLEAN
    BY <2>2, <2>6
  <2> QED BY <2>3, <2>4, <2>7
<1>4. ASSUME HandoffInv, [Next]_vars PROVE [Allowed]_vars
  <2>1. CASE reg' = reg
    BY <2>1
  <2>2. CASE Disconnect \/ RouteBridgeStep \/ RouteRollback
    BY <1>1, <1>2, <1>3, <1>4, <2>2
  <2>3. Disconnect \/ RouteBridgeStep \/ RouteRollback \/ reg' = reg
    BY <1>4 DEF Next, vars, Terminated, BuildAndClassifyPaths, RouteSkip, EndpointStep,
                EndpointRollback, RouteRollbackComplete, Unlock, CopyRom, Readback, FarCall86,
                Int10Ownership, BbsTransaction, PriorityRollback, FinalCommit, LegacyBoot,
                LegacyBootReturned, Halt
  <2> QED BY <2>1, <2>2, <2>3
<1>5. Spec => [][Allowed]_vars
  BY <1>4, HandoffInvariant, PTL DEF Spec
<1> QED BY <1>5 DEF SharedNeverDisabled

-----------------------------------------------------------------------------
(* The contract.                                                           *)

\* Every step of an attempt is one the contract allows, or none it can see.
LEMMA ContractStep ==
  ASSUME HandoffInv, [Next]_vars
  PROVE  [Contract!Next]_(Contract!vars)
<1> USE DEF Contract!Next, Contract!vars, Contract!Return, Contract!Change, Contract!RollBack,
            Contract!Halt, Contract!Boot
<1>0. ControlInv
  BY DEF HandoffInv
<1>1. CASE BuildAndClassifyPaths
  BY <1>0, <1>1 DEF BuildAndClassifyPaths, ControlInv, Quiet, Clean, flags
<1>2. CASE Disconnect
  BY <1>0, <1>2 DEF Disconnect, ControlInv, Quiet, Clean, flags
<1>3. CASE RouteBridgeStep
  BY <1>0, <1>3 DEF RouteBridgeStep, ControlInv, Quiet, Clean
<1>4. CASE RouteSkip
  BY <1>0, <1>4 DEF RouteSkip, flags
<1>5. CASE EndpointStep
  BY <1>0, <1>5 DEF EndpointStep, ControlInv, Quiet, Clean
<1>6. CASE EndpointRollback
  BY <1>0, <1>6 DEF EndpointRollback, ControlInv, Quiet, Clean
<1>7. CASE RouteRollback
  BY <1>0, <1>7 DEF RouteRollback, ControlInv, Quiet, Clean
<1>8. CASE RouteRollbackComplete
  BY <1>0, <1>8 DEF RouteRollbackComplete, ControlInv, Quiet, Clean
<1>9. CASE LateStep
  <2>1. dirty' = dirty
    BY <1>9 DEF LateStep, Unlock, CopyRom, Readback, FarCall86, Int10Ownership, BbsTransaction,
                PriorityRollback, FinalCommit, LegacyBoot, LegacyBootReturned, Halt, flags
  <2>2. \/ /\ pc \in Applied \ {"booting"}
           /\ pc' \in Applied \cup {"endpointBack", "halted"}
        \/ pc = "booting" /\ pc' = "halted"
        \/ pc = "rolledBack" /\ pc' = "halted"
    BY <1>9 DEF LateStep, Unlock, CopyRom, Readback, FarCall86, Int10Ownership, BbsTransaction,
                PriorityRollback, FinalCommit, LegacyBoot, LegacyBootReturned, Halt, Applied
  <2>3. pc \in Applied => dirty
    BY <1>0 DEF ControlInv, Applied, Clean, Quiet
  <2>4. CASE pc \in Applied /\ pc' \in (Applied \ {"booting"}) \cup {"endpointBack"} /\ pc # "booting"
    BY <2>1, <2>3, <2>4 DEF Applied
  <2>5. CASE pc \in Applied /\ pc # "booting" /\ pc' \in {"booting", "halted"}
    BY <2>1, <2>3, <2>5 DEF Applied
  <2>6. CASE pc = "booting" /\ pc' = "halted"
    BY <2>1, <2>3, <2>6 DEF Applied
  <2>7. CASE pc = "rolledBack" /\ pc' = "halted"
    BY <1>0, <2>1, <2>7 DEF ControlInv
  <2> QED BY <2>2, <2>4, <2>5, <2>6, <2>7
<1>10. CASE Terminated \/ UNCHANGED vars
  BY <1>10 DEF Terminated, vars, flags
<1> QED BY <1>1, <1>2, <1>3, <1>4, <1>5, <1>6, <1>7, <1>8, <1>9, <1>10 DEF Next, LateStep

\* NativeCsmVgaBootRun implements HandoffContract: it returns only before the
\* first register write, and after it boots once or halts.
THEOREM ContractHonoured == Spec => HonoursContract
<1>1. Init => Contract!Init
  BY DEF Init, Contract!Init
<1>2. HandoffInv /\ [Next]_vars => [Contract!Next]_(Contract!vars)
  BY ContractStep
<1> QED BY <1>1, <1>2, HandoffInvariant, PTL DEF Spec, HonoursContract, Contract!Spec

=============================================================================
