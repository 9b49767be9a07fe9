----------------------------- MODULE BootHandoff ----------------------------
(***************************************************************************)
(* The hardware half of NativeCsmVgaBootRun: from the two bridge paths of  *)
(* the runtime plan, through the transfer of VGA forwarding to the target  *)
(* display and the ROM dispatch, to the firmware's LegacyBoot.             *)
(*                                                                         *)
(* A register write may fail, be ignored, or report an error although it   *)
(* took effect; a readback may fail.  Nothing is assumed about how often.  *)
(***************************************************************************)
EXTENDS Naturals, Sequences, FiniteSets

CONSTANTS
  Bridges,   \* the PCI-to-PCI bridges of the machine
  MaxPath,   \* the longest bridge path of a display (16 in the code)
  Bits,      \* the command-register bits of the target display
  MayDrift   \* which bridges' VGA bit may still change after the journal

ASSUME HandoffAssumption ==
  /\ MaxPath \in Nat
  /\ MayDrift \subseteq {"shared", "exclusive"}

VARIABLES
  pc,
  active, target,   \* the bridge paths, root first
  shared,           \* SharedPathCount
  orig, reg,        \* VGA-forwarding bits: the journal, and the hardware
  policy,           \* IoDecoding, MemoryDecoding, BusMastering
  cmd0, cmd,        \* command register: the journal, and the hardware
  at,               \* the bridge the route or its rollback is at
  attempted,        \* bridges with WriteAttempted set
  epAttempted,      \* EndpointWriteAttempted
  dirty,            \* RouteDirty
  touched,          \* history: bridges whose write was ever attempted
  unlocked,         \* whether the ROM shadow can really be written
  shadow,           \* what is at C0000: old, rom, bad
  int10,            \* where the video interrupt points: old, rom, other
  firmware,         \* E0000-FFFFF: same or changed since it was hashed
  bbs,              \* the firmware's boot table: original, applied, partial
  boots             \* history: calls of LegacyBoot

plan == <<active, target, shared, orig, policy, cmd0>>
flags == <<attempted, epAttempted, dirty, touched>>
memory == <<unlocked, shadow, int10, firmware, bbs>>
vars == <<pc, plan, reg, cmd, at, flags, memory, boots>>

Paths == {p \in UNION {[1 .. n -> Bridges] : n \in 0 .. MaxPath} :
            \A i, j \in DOMAIN p : p[i] = p[j] => i = j}

Modes == {"on", "off", "ignore"}

Init ==
  /\ pc = "plan"
  /\ active \in Paths /\ target \in Paths /\ shared = 0
  /\ orig \in [Bridges -> BOOLEAN] /\ reg = orig
  /\ policy \in [Bits -> Modes]
  /\ cmd0 \in SUBSET Bits /\ cmd = cmd0
  /\ at = 1 /\ attempted = {} /\ epAttempted = FALSE /\ dirty = FALSE /\ touched = {}
  /\ unlocked = FALSE /\ shadow = "old" /\ int10 = "old" /\ firmware = "same"
  /\ bbs = "original" /\ boots = 0

-----------------------------------------------------------------------------
(* BuildAndClassifyPaths.                                                  *)

Common(n) == n <= Len(active) /\ n <= Len(target) /\ \A i \in 1 .. n : active[i] = target[i]

After(path, n) == {path[i] : i \in n + 1 .. Len(path)}

\* Mutant: the comparison may stop before the paths part.
ClassifyLoosely ==
  /\ pc = "plan"
  /\ \E n \in 0 .. MaxPath : Common(n) /\ shared' = n
  /\ pc' = "disconnect"
  /\ UNCHANGED <<active, target, orig, policy, cmd0, reg, cmd, at, flags, memory, boots>>

\* The shared prefix, and the rejection of a bridge that reappears after the
\* paths part.  Every other failure of the preflight also just returns.
BuildAndClassifyPaths ==
  /\ pc = "plan"
  /\ \E n \in 0 .. MaxPath :
       /\ Common(n) /\ ~Common(n + 1)
       /\ shared' = n
       /\ \/ pc' = "returned"
          \/ After(active, n) \cap After(target, n) = {} /\ pc' = "disconnect"
  /\ UNCHANGED <<active, target, orig, policy, cmd0, reg, cmd, at, flags, memory, boots>>

ActiveExclusive == After(active, shared)
TargetExclusive == After(target, shared)
Shared == {active[i] : i \in 1 .. shared}

\* The bridges in the order in which RouteApply visits them.
Route == SubSeq(active, shared + 1, Len(active)) \o SubSeq(active, 1, shared)
           \o SubSeq(target, shared + 1, Len(target))

Drifters == (IF "shared" \in MayDrift THEN Shared ELSE {}) \cup
            (IF "exclusive" \in MayDrift THEN ActiveExclusive \cup TargetExclusive ELSE {})

\* DisconnectController: the driver of the active display stops, and may
\* change bridges on the way out.  A failure returns to the dispatcher.
Disconnect ==
  /\ pc = "disconnect"
  /\ pc' \in {"route", "returned"}
  /\ \E d \in SUBSET Drifters : reg' = [b \in Bridges |-> IF b \in d THEN ~reg[b] ELSE reg[b]]
  /\ UNCHANGED <<plan, cmd, at, flags, memory, boots>>

-----------------------------------------------------------------------------
(* RouteApply.                                                             *)

Requested(b) == b \notin ActiveExclusive

\* A shared bridge that forwards already is left alone.
Skipped(b) == b \in Shared /\ orig[b]

\* Writing a bridge and reading it back: verified only if it took effect.
Written(b, value, verified) ==
  /\ reg' \in {reg, [reg EXCEPT ![b] = value]}
  /\ verified => reg'[b] = value

\* Mutant: the step goes on although the readback differs.
RouteBridgeStepUnread ==
  /\ pc = "route" /\ at <= Len(Route) /\ ~Skipped(Route[at])
  /\ attempted' = attempted \cup {Route[at]}
  /\ touched' = touched \cup {Route[at]}
  /\ dirty' = TRUE
  /\ Written(Route[at], Requested(Route[at]), FALSE)
  /\ pc' = pc /\ at' = at + 1
  /\ UNCHANGED <<plan, cmd, epAttempted, memory, boots>>

\* Mutant: an attempted write is journaled only once it is verified.
RouteBridgeStepLate ==
  /\ pc = "route" /\ at <= Len(Route) /\ ~Skipped(Route[at])
  /\ touched' = touched \cup {Route[at]}
  /\ dirty' = TRUE
  /\ \/ /\ Written(Route[at], Requested(Route[at]), TRUE)
        /\ attempted' = attempted \cup {Route[at]}
        /\ pc' = pc /\ at' = at + 1
     \/ /\ Written(Route[at], Requested(Route[at]), FALSE)
        /\ pc' = "endpointBack" /\ UNCHANGED <<at, attempted>>
  /\ UNCHANGED <<plan, cmd, epAttempted, memory, boots>>

RouteBridgeStep ==
  /\ pc = "route" /\ at <= Len(Route) /\ ~Skipped(Route[at])
  /\ attempted' = attempted \cup {Route[at]}
  /\ touched' = touched \cup {Route[at]}
  /\ dirty' = TRUE
  /\ \/ Written(Route[at], Requested(Route[at]), TRUE) /\ pc' = pc /\ at' = at + 1
     \/ Written(Route[at], Requested(Route[at]), FALSE) /\ pc' = "endpointBack" /\ UNCHANGED at
  /\ UNCHANGED <<plan, cmd, epAttempted, memory, boots>>

RouteSkip ==
  /\ pc = "route" /\ at <= Len(Route) /\ Skipped(Route[at])
  /\ at' = at + 1
  /\ UNCHANGED <<pc, plan, reg, cmd, flags, memory, boots>>

RequiredEndpointCommand ==
  {b \in Bits : policy[b] = "on" \/ (policy[b] = "ignore" /\ b \in cmd0)}

\* Each bit takes the requested value or keeps its own.
CommandWrites(value) ==
  {c \in SUBSET Bits : \A b \in Bits : (b \in c) = (b \in value) \/ (b \in c) = (b \in cmd)}

PolicyMet(c) ==
  \A b \in Bits : CASE policy[b] = "on" -> b \in c
                    [] policy[b] = "off" -> b \notin c
                    [] OTHER -> (b \in c) = (b \in cmd0)

EndpointStep ==
  /\ pc = "route" /\ at > Len(Route)
  /\ epAttempted' = TRUE /\ dirty' = TRUE
  /\ cmd' \in CommandWrites(RequiredEndpointCommand)
  /\ \/ PolicyMet(cmd') /\ pc' = "unlock"
     \/ pc' = "endpointBack"
  /\ UNCHANGED <<plan, reg, at, attempted, touched, memory, boots>>

-----------------------------------------------------------------------------
(* RouteRestore: the endpoint first, then the bridges in reverse order.  A  *)
(* step that does not verify ends the rollback and leaves RouteDirty set.   *)

EndpointRollback ==
  /\ pc = "endpointBack"
  /\ \/ /\ ~epAttempted /\ pc' = "routeBack" /\ at' = Len(Route)
        /\ UNCHANGED <<cmd, epAttempted>>
     \/ /\ epAttempted /\ cmd' = cmd0 /\ epAttempted' = FALSE
        /\ pc' = "routeBack" /\ at' = Len(Route)
     \/ /\ epAttempted /\ cmd' \in CommandWrites(cmd0) /\ pc' = "halted"
        /\ UNCHANGED <<at, epAttempted>>
  /\ UNCHANGED <<plan, reg, attempted, dirty, touched, memory, boots>>

\* Mutant: the bridges are restored in the order in which they were written.
RouteRollbackForward ==
  /\ pc = "routeBack" /\ at > 0
  /\ LET b == Route[Len(Route) + 1 - at] IN
     \/ b \notin attempted /\ at' = at - 1 /\ UNCHANGED <<pc, reg, attempted>>
     \/ /\ b \in attempted /\ Written(b, orig[b], TRUE)
        /\ attempted' = attempted \ {b} /\ at' = at - 1 /\ pc' = pc
     \/ /\ b \in attempted /\ Written(b, orig[b], FALSE)
        /\ pc' = "halted" /\ UNCHANGED <<at, attempted>>
  /\ UNCHANGED <<plan, cmd, epAttempted, dirty, touched, memory, boots>>

RouteRollback ==
  /\ pc = "routeBack" /\ at > 0
  /\ LET b == Route[at] IN
     \/ b \notin attempted /\ at' = at - 1 /\ UNCHANGED <<pc, reg, attempted>>
     \/ /\ b \in attempted /\ Written(b, orig[b], TRUE)
        /\ attempted' = attempted \ {b} /\ at' = at - 1 /\ pc' = pc
     \/ /\ b \in attempted /\ Written(b, orig[b], FALSE)
        /\ pc' = "halted" /\ UNCHANGED <<at, attempted>>
  /\ UNCHANGED <<plan, cmd, epAttempted, dirty, touched, memory, boots>>

RouteRollbackComplete ==
  /\ pc = "routeBack" /\ at = 0
  /\ dirty' = FALSE /\ pc' = "rolledBack"
  /\ UNCHANGED <<plan, reg, cmd, at, attempted, epAttempted, touched, memory, boots>>

-----------------------------------------------------------------------------
(* The ROM.                                                                *)

\* Mutant: a locked ROM shadow returns to the dispatcher instead of halting.
UnlockReturns ==
  /\ pc = "unlock"
  /\ unlocked' \in BOOLEAN
  /\ pc' \in {"copy", "returned"}
  /\ UNCHANGED <<plan, reg, cmd, at, flags, shadow, int10, firmware, bbs, boots>>

\* LegacyRegion2->UnLock; the readback below finds out what it is worth.
Unlock ==
  /\ pc = "unlock"
  /\ unlocked' \in BOOLEAN
  /\ pc' \in {"copy", "endpointBack"}
  /\ UNCHANGED <<plan, reg, cmd, at, flags, shadow, int10, firmware, bbs, boots>>

\* MemoryMapValidateBootRanges, the firmware hash and CopyMem.
CopyRom ==
  /\ pc = "copy"
  /\ \/ pc' = "halted" /\ UNCHANGED <<shadow, firmware>>
     \/ /\ pc' = "readback"
        /\ shadow' \in IF unlocked THEN {"rom", "bad"} ELSE {"old"}
        /\ firmware' \in {"same", "changed"}
  /\ UNCHANGED <<plan, reg, cmd, at, flags, unlocked, int10, bbs, boots>>

Readback ==
  /\ pc = "readback"
  /\ pc' = IF shadow = "rom" /\ firmware = "same" THEN "dispatch" ELSE "halted"
  /\ UNCHANGED <<plan, reg, cmd, at, flags, memory, boots>>

\* FarCall86 runs the ROM, which may do anything to its interrupt vector.
FarCall86 ==
  /\ pc = "dispatch"
  /\ int10' \in {"old", "rom", "other"}
  /\ firmware' \in {"same", "changed"}
  /\ pc' \in {"ownership", "halted"}
  /\ UNCHANGED <<plan, reg, cmd, at, flags, unlocked, shadow, bbs, boots>>

Int10Ownership ==
  /\ pc = "ownership"
  /\ \/ int10 = "rom" /\ firmware = "same" /\ pc' = "bbs"
     \/ pc' = "halted"
  /\ UNCHANGED <<plan, reg, cmd, at, flags, memory, boots>>

-----------------------------------------------------------------------------
(* The boot table and the final boundary.                                  *)

\* Journal, apply and validate; anything else is rolled back, and halts.
BbsTransaction ==
  /\ pc = "bbs"
  /\ \/ bbs' = "applied" /\ pc' = "commit"
     \/ bbs' \in {"original", "partial", "applied"} /\ pc' = "bbsBack"
  /\ UNCHANGED <<plan, reg, cmd, at, flags, unlocked, shadow, int10, firmware, boots>>

PriorityRollback ==
  /\ pc = "bbsBack"
  /\ bbs' \in {"original", bbs} /\ pc' = "halted"
  /\ UNCHANGED <<plan, reg, cmd, at, flags, unlocked, shadow, int10, firmware, boots>>

\* GetLegacyBootArguments and LogCommitAndClose.
FinalCommit ==
  /\ pc = "commit"
  /\ pc' \in {"boot", "halted"}
  /\ UNCHANGED <<plan, reg, cmd, at, flags, memory, boots>>

LegacyBoot ==
  /\ pc = "boot"
  /\ boots' = boots + 1 /\ pc' = "booting"
  /\ UNCHANGED <<plan, reg, cmd, at, flags, memory>>

\* LegacyBoot came back.
LegacyBootReturned ==
  /\ pc = "booting"
  /\ pc' = "halted"
  /\ UNCHANGED <<plan, reg, cmd, at, flags, memory, boots>>

Halt ==
  /\ pc = "rolledBack"
  /\ pc' = "halted"
  /\ UNCHANGED <<plan, reg, cmd, at, flags, memory, boots>>

\* Back in the dispatcher, halted for good, or in the legacy boot.
Terminated ==
  /\ pc \in {"returned", "halted", "booting"}
  /\ UNCHANGED vars

-----------------------------------------------------------------------------

Next ==
  \/ BuildAndClassifyPaths \/ Disconnect
  \/ RouteBridgeStep \/ RouteSkip \/ EndpointStep
  \/ EndpointRollback \/ RouteRollback \/ RouteRollbackComplete
  \/ Unlock \/ CopyRom \/ Readback \/ FarCall86 \/ Int10Ownership
  \/ BbsTransaction \/ PriorityRollback \/ FinalCommit
  \/ LegacyBoot \/ LegacyBootReturned \/ Halt \/ Terminated

Spec == Init /\ [][Next]_vars

-----------------------------------------------------------------------------
(* Properties.                                                             *)

Labels ==
  {"plan", "disconnect", "route", "endpointBack", "routeBack", "rolledBack", "unlock",
   "copy", "readback", "dispatch", "ownership", "bbs", "bbsBack", "commit", "boot",
   "booting", "halted", "returned"}

TypeOK ==
  /\ pc \in Labels
  /\ active \in Paths /\ target \in Paths
  /\ shared \in Nat /\ shared <= Len(active) /\ shared <= Len(target)
  /\ orig \in [Bridges -> BOOLEAN] /\ reg \in [Bridges -> BOOLEAN]
  /\ policy \in [Bits -> Modes]
  /\ cmd0 \subseteq Bits /\ cmd \subseteq Bits
  /\ at \in 0 .. Len(Route) + 1
  /\ attempted \subseteq touched /\ touched \subseteq Bridges
  /\ epAttempted \in BOOLEAN /\ dirty \in BOOLEAN /\ unlocked \in BOOLEAN
  /\ shadow \in {"old", "rom", "bad"}
  /\ int10 \in {"old", "rom", "other"}
  /\ firmware \in {"same", "changed"}
  /\ bbs \in {"original", "applied", "partial"}
  /\ boots \in Nat

OnPath(path) == {path[i] : i \in DOMAIN path}

\* Legacy VGA accesses never reach both displays because of this program: while
\* a bridge that it opened for the target forwards them, every bridge of the
\* active display alone is closed; also when a rollback stops half-way.
NoDoubleForwarding ==
  (\E b \in OnPath(target) \ OnPath(active) : b \in touched /\ reg[b] /\ ~orig[b]) =>
    \A b \in OnPath(active) \ OnPath(target) : ~reg[b]

\* NCV_BOOT_ROUTE_ROLLBACK_COMPLETE, and a cleared RouteDirty, mean that every
\* register whose write was ever attempted has its journaled value again.
RollbackExact ==
  pc \in {"rolledBack", "halted"} /\ ~dirty =>
    /\ \A b \in touched : reg[b] = orig[b]
    /\ cmd = cmd0
    /\ shadow = "old" /\ int10 = "old" /\ bbs = "original"

\* LegacyBoot is called once at most, with the target display alone reachable,
\* its command register as configured, its ROM in place and owning INT10, the
\* firmware region intact and the boot table applied.
BootReady ==
  /\ boots <= 1
  /\ pc = "boot" \/ boots > 0 =>
       /\ \A b \in OnPath(target) : reg[b]
       /\ \A b \in OnPath(active) \ OnPath(target) : ~reg[b]
       /\ PolicyMet(cmd)
       /\ shadow = "rom" /\ int10 = "rom" /\ firmware = "same" /\ bbs = "applied"

\* "Shared bridges are never disabled": a bridge that both displays need loses
\* its forwarding only when a rollback puts back that it had none; a bridge on
\* neither path is never written.
SharedNeverDisabled ==
  [][ \A b \in Bridges : reg'[b] # reg[b] =>
        /\ b \in OnPath(active) \cup OnPath(target)
        /\ b \in OnPath(active) \cap OnPath(target) /\ reg[b] =>
             pc = "routeBack" /\ ~orig[b] ]_vars

Contract == INSTANCE HandoffContract WITH
  hardware <- IF dirty THEN "changed"
              ELSE IF pc \in {"rolledBack", "halted"} THEN "rolledBack" ELSE "original",
  outcome  <- IF pc \in {"returned", "halted", "booting"} THEN pc ELSE "running"

\* A boot attempt returns to the dispatcher only if it wrote no register; after
\* the first write it boots once or halts, also after a complete rollback.
HonoursContract == Contract!Spec

=============================================================================
