--------------------------- MODULE RomGuardProofs ---------------------------
(***************************************************************************)
(* The option ROM that is selected, the copy of it that is allowed and the *)
(* record kept of a refused copy are right, for ROMs and shadows of every  *)
(* size and content and for any number of intrusions.  Last, the walk over *)
(* the memory map that the guard asks whether it may read the shadow, for  *)
(* every map, range and address space.                                     *)
(***************************************************************************)
EXTENDS RomGuard, MemoryMap, WellFoundedInduction, TLAPS

-----------------------------------------------------------------------------
(* The inductive invariant of the walk.                                    *)

IsRom(r) == Size(r) \in Nat \ {0} /\ r \in [0 .. Size(r) - 1 -> Image \cup {NoImage}]

\* The images in V lead, one after the other, from the beginning of the ROM to
\* block e, and none of them is marked as the last.
Trail(r, V, e) ==
  /\ V \subseteq 0 .. e - 1
  /\ \A o \in V : ImageIsSound(r, o) /\ ~r[o].last /\ o + r[o].len \in V \cup {e}
  /\ \A o \in V \cup {e} : o = 0 \/ \E p \in V : p + r[p].len = o
  /\ 0 \in V \cup {e}

\* Every tiling of the ROM contains V: it is the only way through the ROM.
Forced(r, V) == \A B \in SUBSET DOMAIN r : Tiles(r, B) => V \subseteq B

\* The counters describe the candidates among the images in V.
Tally(r, V, n, f) ==
  /\ n \in Nat
  /\ n = 0 => f = NoOffset /\ Candidates(r, V) = {}
  /\ n = 1 => Candidates(r, V) = {f}
  /\ n >= 2 => \E a, b \in Candidates(r, V) : a # b
  /\ n >= 1 => f # NoOffset

Walking ==
  /\ IsRom(rom) /\ rom \notin {NoRom, OddRom}
  /\ at \in DOMAIN rom
  /\ \E V \in SUBSET DOMAIN rom :
       /\ Trail(rom, V, at)
       /\ Forced(rom, V \cup {at})
       /\ Tally(rom, V, matches, first)

Walked ==
  /\ IsRom(rom) /\ rom \notin {NoRom, OddRom}
  /\ \E V \in SUBSET DOMAIN rom :
       /\ Tiles(rom, V)
       /\ \A B \in SUBSET DOMAIN rom : Tiles(rom, B) => B = V
       /\ Tally(rom, V, matches, first)

Refusable(r) == r \in {NoRom, OddRom} \/ \A o \in DOMAIN r : ~Selectable(r, o)

Chosen == {"selected", "inspect", "planned", "rechecked", "verified", "dispatched", "boot",
           "Overlap", "RomChanged", "released"}

RomInv ==
  /\ rom \in Roms
  /\ pc = "start" => at = 0 /\ first = NoOffset /\ matches = 0
  /\ pc = "walk" => Walking
  /\ pc = "walked" => Walked
  /\ pc \in Chosen => Selectable(rom, first)
  /\ pc \in {"NotFound", "Compromised"} => Refusable(rom)

-----------------------------------------------------------------------------
(* Images and tilings.                                                     *)

\* A sound image has a length and ends inside the ROM.
LEMMA SoundImage ==
  ASSUME NEW r, IsRom(r), NEW o \in DOMAIN r, ImageIsSound(r, o)
  PROVE  /\ o \in Nat /\ r[o] \in Image
         /\ r[o].len \in Nat \ {0} /\ o + r[o].len <= Size(r)
<1>1. o \in 0 .. Size(r) - 1 /\ r[o] \in Image \cup {NoImage}
  BY DEF IsRom
<1>2. r[o] # NoImage /\ r[o].len # 0 /\ RangeIsInside(Size(r), o, r[o].len)
  BY DEF ImageIsSound, HeaderIsSound
<1>3. r[o].len \in Nat
  BY <1>1, <1>2 DEF Image
<1> QED BY <1>1, <1>2, <1>3 DEF RangeIsInside, IsRom

\* A nonempty set of numbers has a least element.
LEMMA LeastOf ==
  ASSUME NEW S \in SUBSET Nat, S # {}
  PROVE  \E m \in S : \A k \in S : m <= k
<1>1. PICK m \in S : \A k \in S : ~(<<k, m>> \in OpToRel(<, Nat))
  BY NatLessThanWellFounded, WFMin, Zenon
<1>2. \A k \in S : ~(k < m)
  BY <1>1 DEF OpToRel
<1> QED BY <1>2

\* A tiling that contains another one is the same.
LEMMA TilingUnique ==
  ASSUME NEW r, IsRom(r), NEW V \in SUBSET DOMAIN r, NEW B \in SUBSET DOMAIN r,
         Tiles(r, V), Tiles(r, B), V \subseteq B
  PROVE  B = V
<1> SUFFICES ASSUME B \ V # {} PROVE FALSE
  OBVIOUS
<1>0. DOMAIN r \subseteq Nat
  BY DEF IsRom
<1>1. PICK m \in B \ V : \A k \in B \ V : m <= k
  BY <1>0, LeastOf
<1>2. m # 0
  BY <1>1 DEF Tiles
<1>3. PICK p \in B : p + r[p].len = m /\ ~r[p].last
  BY <1>1, <1>2 DEF Tiles
<1>4. p \in Nat /\ r[p].len \in Nat \ {0}
  BY <1>3, SoundImage DEF Tiles
<1>5. p \in V
  BY <1>0, <1>1, <1>3, <1>4
<1> QED BY <1>1, <1>3, <1>5 DEF Tiles

\* A ROM that no set of images tiles has nothing to select.
LEMMA NothingToSelect ==
  ASSUME NEW r, \A B \in SUBSET DOMAIN r : ~Tiles(r, B)
  PROVE  Refusable(r)
BY DEF Refusable, Selectable

\* What counting the image at block a does to the counters.
LEMMA TallyStep ==
  ASSUME NEW r, NEW V, NEW n, NEW f, Tally(r, V, n, f), NEW a \in Nat, a \notin V,
         NEW n2, NEW f2,
         IF TargetPcat(r[a]) /\ SumsAreValid(r[a])
         THEN n2 = n + 1 /\ f2 = (IF f = NoOffset THEN a ELSE f)
         ELSE n2 = n /\ f2 = f
  PROVE  Tally(r, V \cup {a}, n2, f2)
<1>1. n \in Nat /\ a # NoOffset
  BY DEF Tally, NoOffset
<1>2. CASE TargetPcat(r[a]) /\ SumsAreValid(r[a])
  <2>1. Candidates(r, V \cup {a}) = Candidates(r, V) \cup {a} /\ a \notin Candidates(r, V)
    BY <1>2 DEF Candidates
  <2>2. n2 = n + 1 /\ f2 = (IF f = NoOffset THEN a ELSE f)
    BY <1>2
  <2>3. CASE n = 0
    BY <1>1, <2>1, <2>2, <2>3 DEF Tally
  <2>4. CASE n = 1
    BY <1>1, <2>1, <2>2, <2>4 DEF Tally
  <2>5. CASE n >= 2
    BY <1>1, <2>1, <2>2, <2>5 DEF Tally
  <2> QED BY <1>1, <2>3, <2>4, <2>5
<1>3. CASE ~(TargetPcat(r[a]) /\ SumsAreValid(r[a]))
  <2>1. Candidates(r, V \cup {a}) = Candidates(r, V)
    BY <1>3 DEF Candidates
  <2>2. n2 = n /\ f2 = f
    BY <1>3
  <2> QED BY <2>1, <2>2 DEF Tally
<1> QED BY <1>2, <1>3

-----------------------------------------------------------------------------
(* Every step of the walk.                                                 *)

LEMMA RomInit_Inv ==
  ASSUME RomInit PROVE RomInv
BY DEF RomInit, RomInv, Chosen

LEMMA StartWalk_Inv ==
  ASSUME RomInv, StartWalk PROVE RomInv'
<1>1. rom' = rom /\ at' = at /\ first' = first /\ matches' = matches /\ rom \in Roms
  BY DEF StartWalk, Refuse, romVars, RomInv
<1>2. CASE rom \in {NoRom, OddRom}
  <2>1. pc' \in {"NotFound", "Compromised"}
    BY <1>2 DEF StartWalk, Refuse
  <2> QED BY <1>1, <1>2, <2>1 DEF RomInv, Refusable, Chosen
<1>3. CASE rom \notin {NoRom, OddRom}
  <2>1. pc' = "walk"
    BY <1>3 DEF StartWalk
  <2>2. at = 0 /\ first = NoOffset /\ matches = 0
    BY DEF RomInv, StartWalk
  <2>3. IsRom(rom) /\ at \in DOMAIN rom
    BY <1>1, <1>3, <2>2, RomAssumption DEF IsRom
  <2>4. Trail(rom, {}, at)
    BY <2>2 DEF Trail
  <2>5. Forced(rom, {} \cup {at})
    BY <2>2 DEF Forced, Tiles
  <2>6. Tally(rom, {}, matches, first)
    BY <2>2 DEF Tally, Candidates
  <2>7. Walking
    BY <1>3, <2>3, <2>4, <2>5, <2>6 DEF Walking
  <2>8. Walking'
    BY <1>1, <2>7 DEF Walking
  <2> QED BY <1>1, <2>1, <2>8 DEF RomInv, Chosen
<1> QED BY <1>2, <1>3

LEMMA RefuseImage_Inv ==
  ASSUME RomInv, RefuseImage PROVE RomInv'
<1>1. /\ pc' = "Compromised" /\ rom \in Roms
      /\ rom' = rom /\ at' = at /\ first' = first /\ matches' = matches
  BY DEF RefuseImage, Refuse, romVars, RomInv
<1>2. Walking /\ ~ImageIsSound(rom, at)
  BY DEF RefuseImage, RomInv
<1>3. \A B \in SUBSET DOMAIN rom : ~Tiles(rom, B)
  BY <1>2 DEF Walking, Forced, Tiles
<1>4. Refusable(rom)
  BY <1>3, NothingToSelect
<1> QED BY <1>1, <1>4 DEF RomInv, Chosen

LEMMA BrokenChain_Inv ==
  ASSUME RomInv, BrokenChain PROVE RomInv'
<1>1. /\ pc' = "Compromised" /\ rom \in Roms
      /\ rom' = rom /\ at' = at /\ first' = first /\ matches' = matches
  BY DEF BrokenChain, Refuse, romVars, RomInv
<1>2. /\ Walking /\ ImageIsSound(rom, at)
      /\ ~ChainEnds /\ (Img.last \/ NextOffset >= Size(rom))
  BY DEF BrokenChain, RomInv
<1>3. \A B \in SUBSET DOMAIN rom : ~Tiles(rom, B)
  <2> SUFFICES ASSUME NEW B \in SUBSET DOMAIN rom, Tiles(rom, B) PROVE FALSE
    OBVIOUS
  <2>1. at \in B
    BY <1>2 DEF Walking, Forced
  <2>2. ~Img.last /\ NextOffset >= Size(rom)
    BY <1>2, <2>1 DEF Tiles, ChainEnds, Img, NextOffset
  <2>3. NextOffset \in DOMAIN rom
    BY <2>1, <2>2 DEF Tiles, Img, NextOffset
  <2> QED BY <1>2, <2>2, <2>3 DEF Walking, IsRom
<1>4. Refusable(rom)
  BY <1>3, NothingToSelect
<1> QED BY <1>1, <1>4 DEF RomInv, Chosen

LEMMA NextImage_Inv ==
  ASSUME RomInv, NextImage PROVE RomInv'
<1>1. /\ pc' = "walk" /\ rom' = rom /\ at' = NextOffset /\ rom \in Roms
      /\ ImageIsSound(rom, at) /\ ~Img.last /\ NextOffset < Size(rom)
      /\ Walking
  BY DEF NextImage, RomInv
<1>2. IsRom(rom) /\ rom \notin {NoRom, OddRom} /\ at \in DOMAIN rom
  BY <1>1 DEF Walking
<1>3. PICK V \in SUBSET DOMAIN rom :
        Trail(rom, V, at) /\ Forced(rom, V \cup {at}) /\ Tally(rom, V, matches, first)
  BY <1>1 DEF Walking
<1>4. at \in Nat /\ rom[at].len \in Nat \ {0} /\ NextOffset = at + rom[at].len
  BY <1>1, <1>2, SoundImage DEF NextOffset, Img
<1>5. NextOffset \in DOMAIN rom
  BY <1>1, <1>2, <1>4 DEF IsRom
<1>6. Trail(rom, V \cup {at}, NextOffset)
  BY <1>1, <1>3, <1>4 DEF Trail, Img
<1>7. Forced(rom, (V \cup {at}) \cup {NextOffset})
  <2> SUFFICES ASSUME NEW B \in SUBSET DOMAIN rom, Tiles(rom, B)
               PROVE  (V \cup {at}) \cup {NextOffset} \subseteq B
    BY DEF Forced
  <2>1. V \cup {at} \subseteq B
    BY <1>3 DEF Forced
  <2>2. NextOffset \in B
    BY <1>1, <2>1 DEF Tiles, NextOffset, Img
  <2> QED BY <2>1, <2>2
<1>8. Tally(rom, V \cup {at}, matches', first')
  <2>1. at \notin V
    BY <1>3, <1>4 DEF Trail
  <2>2. IF TargetPcat(rom[at]) /\ SumsAreValid(rom[at])
        THEN matches' = matches + 1 /\ first' = (IF first = NoOffset THEN at ELSE first)
        ELSE matches' = matches /\ first' = first
    BY DEF NextImage, CountImage, Img
  <2> QED BY <1>3, <1>4, <2>1, <2>2, TallyStep
<1>9. Walking'
  <2>1. V \cup {at} \in SUBSET DOMAIN rom
    BY <1>2
  <2> QED BY <1>1, <1>2, <1>5, <1>6, <1>7, <1>8, <2>1 DEF Walking
<1> QED BY <1>1, <1>9 DEF RomInv, Chosen

LEMMA LastImage_Inv ==
  ASSUME RomInv, LastImage PROVE RomInv'
<1>1. /\ pc' = "walked" /\ rom' = rom /\ rom \in Roms
      /\ ImageIsSound(rom, at) /\ Img.last /\ NextOffset = Size(rom)
      /\ Walking
  BY DEF LastImage, RomInv, ChainEnds
<1>2. IsRom(rom) /\ rom \notin {NoRom, OddRom} /\ at \in DOMAIN rom
  BY <1>1 DEF Walking
<1>3. PICK V \in SUBSET DOMAIN rom :
        Trail(rom, V, at) /\ Forced(rom, V \cup {at}) /\ Tally(rom, V, matches, first)
  BY <1>1 DEF Walking
<1>4. at \in Nat /\ at \notin V
  BY <1>1, <1>2, <1>3, SoundImage DEF Trail
<1>5. Tiles(rom, V \cup {at})
  BY <1>1, <1>3 DEF Trail, Tiles, NextOffset, Img
<1>6. \A B \in SUBSET DOMAIN rom : Tiles(rom, B) => B = V \cup {at}
  BY <1>2, <1>3, <1>5, TilingUnique DEF Forced
<1>7. Tally(rom, V \cup {at}, matches', first')
  <2>1. IF TargetPcat(rom[at]) /\ SumsAreValid(rom[at])
        THEN matches' = matches + 1 /\ first' = (IF first = NoOffset THEN at ELSE first)
        ELSE matches' = matches /\ first' = first
    BY DEF LastImage, CountImage, Img
  <2> QED BY <1>3, <1>4, <2>1, TallyStep
<1>8. Walked'
  <2>1. V \cup {at} \in SUBSET DOMAIN rom
    BY <1>2
  <2> QED BY <1>1, <1>2, <1>5, <1>6, <1>7, <2>1 DEF Walked
<1> QED BY <1>1, <1>8 DEF RomInv, Chosen

LEMMA SelectRom_Inv ==
  ASSUME RomInv, SelectRom PROVE RomInv'
<1>1. /\ rom' = rom /\ at' = at /\ first' = first /\ matches' = matches
      /\ rom \in Roms /\ Walked
  BY DEF SelectRom, romVars, RomInv
<1>2. PICK V \in SUBSET DOMAIN rom :
        /\ Tiles(rom, V)
        /\ \A B \in SUBSET DOMAIN rom : Tiles(rom, B) => B = V
        /\ Tally(rom, V, matches, first)
  BY <1>1 DEF Walked
<1>3. CASE matches = 1 /\ rom[first].len <= MaxCopy
  <2>1. Candidates(rom, V) = {first}
    BY <1>2, <1>3 DEF Tally
  <2>2. first \in DOMAIN rom /\ rom[first] # NoImage
    BY <1>2, <2>1 DEF Candidates, Tiles, ImageIsSound, HeaderIsSound
  <2>3. Selectable(rom, first)
    BY <1>1, <1>2, <1>3, <2>1, <2>2 DEF Selectable, Walked
  <2>4. pc' = "selected"
    BY <1>3 DEF SelectRom
  <2> QED BY <1>1, <2>3, <2>4 DEF RomInv, Chosen
<1>4. CASE ~(matches = 1 /\ rom[first].len <= MaxCopy)
  <2>1. pc' = "Compromised"
    BY <1>4 DEF SelectRom
  <2>2. ASSUME NEW o \in DOMAIN rom, Selectable(rom, o) PROVE FALSE
    <3>1. Candidates(rom, V) = {o} /\ rom[o].len <= MaxCopy
      BY <1>2, <2>2 DEF Selectable
    <3>2. matches \in Nat /\ matches # 0 /\ ~(matches >= 2)
      BY <1>2, <3>1 DEF Tally
    <3>3. matches = 1
      BY <3>2
    <3>4. first = o
      BY <1>2, <3>1, <3>3 DEF Tally
    <3> QED BY <1>4, <3>1, <3>3, <3>4
  <2>3. Refusable(rom)
    BY <2>2 DEF Refusable
  <2> QED BY <1>1, <2>1, <2>3 DEF RomInv, Chosen
<1> QED BY <1>3, <1>4

\* The invariant says what the property does.
LEMMA RomInv_Exact ==
  ASSUME RomInv PROVE RomSelectionExact
BY DEF RomInv, RomSelectionExact, Refusable, Chosen


-----------------------------------------------------------------------------
(* The inductive invariant of the guard.                                   *)

\* The last check was clear and describes the shadow as it still is.
Cleared ==
  /\ CopyBlocks <= Blocks
  /\ Extent(0) /\ Identity(0) = Active
  /\ Overwrites = {}
  /\ handler >= CopyBlocks
  /\ snapshot = [live |-> shadow, valid |-> Block \ hidden]

\* The dispatch has left alone what CopySparesOthers speaks of, and the
\* snapshot is of what was resident before it.
Spared ==
  /\ handler >= CopyBlocks
  /\ snapshot.live = prior
  /\ \A b \in Block : Resident(prior, b) /\ prior[b].id # Active =>
       \A x \in ExtentOf(prior, b) : shadow[x] = prior[x]

RecordIsRight == recovery.valid /\ (recovery.limit # 0 => recovery.result # "InvalidRom")

GuardInv ==
  /\ shadow \in [Block -> Cell \cup {Copied}]
  /\ pc \in {"inspect", "planned", "rechecked", "verified"} => shadow \in [Block -> Cell]
  /\ handler \in 0 .. Blocks
  /\ pc \in {"rechecked", "verified"} /\ intruded = {} => Cleared
  /\ pc \in {"dispatched", "boot"} => prior \in [Block -> Cell]
  /\ pc \in {"dispatched", "boot"} /\ intruded = {} => Spared
  /\ pc = "RomChanged" => intruded # {}
  /\ recovery = NoRecovery \/ (pc = "Overlap" /\ RecordIsRight)

-----------------------------------------------------------------------------
(* The selected image.                                                     *)

\* What the parser has established of the image it selected.
LEMMA SelectedImage ==
  ASSUME RomInv, pc \in Chosen
  PROVE  /\ rom[first] \in Image /\ CopyBlocks \in Nat /\ CopyBlocks <= MaxCopy
         /\ ImageIsSound(rom, first) /\ TargetPcat(rom[first]) /\ SumsAreValid(rom[first])
<1>1. Selectable(rom, first) /\ rom \in Roms
  BY DEF RomInv
<1>2. IsRom(rom)
  BY <1>1, RomAssumption DEF Selectable, IsRom
<1>3. PICK B \in SUBSET DOMAIN rom : Tiles(rom, B) /\ Candidates(rom, B) = {first}
  BY <1>1 DEF Selectable
<1>4. first \in B /\ TargetPcat(rom[first]) /\ SumsAreValid(rom[first])
  BY <1>3 DEF Candidates
<1>5. ImageIsSound(rom, first)
  BY <1>3, <1>4 DEF Tiles
<1>6. rom[first] \in Image /\ rom[first].len \in Nat
  BY <1>2, <1>4, <1>5, SoundImage
<1> QED BY <1>1, <1>4, <1>5, <1>6 DEF Selectable, CopyBlocks

LEMMA BytesNat ==
  ASSUME NEW n \in Nat PROVE Bytes(n) \in Nat
BY RomAssumption DEF Bytes

\* The placement code accepts every image that the parser has selected.
LEMMA SelectedFacts ==
  ASSUME RomInv, pc \in Chosen
  PROVE  FactsAreValid(rom[first], CopyBlocks)
<1> DEFINE i == rom[first]
<1>1. /\ i \in Image /\ i.len = CopyBlocks /\ CopyBlocks <= MaxCopy
      /\ ImageIsSound(rom, first) /\ TargetPcat(i) /\ SumsAreValid(i)
  BY SelectedImage DEF CopyBlocks
<1>2. /\ i.pcir \in Nat /\ i.plen \in Nat /\ i.len \in Nat /\ i.maxrun \in Nat
      /\ i.size512 \in Nat /\ i.rev3 \in BOOLEAN
  BY <1>1 DEF Image
<1>3. i.pcir >= 1 /\ i.plen >= 1
  BY <1>1 DEF ImageIsSound, HeaderIsSound
<1>4. i.code = "pcat" /\ i.sum /\ i.legacysum
  BY <1>1 DEF TargetPcat, SumsAreValid
<1>5. i.size512 # 0 /\ i.size512 <= i.len
  BY <1>1, <1>4 DEF ImageIsSound, LogAndValidateLegacyHeader
<1>6. Bytes(i.size512) \in Nat /\ Bytes(i.maxrun) \in Nat
  BY <1>2, BytesNat
<1>7. RangeIsInside(Bytes(i.size512), i.pcir, i.plen)
  BY <1>1, <1>4 DEF ImageIsSound, ValidatePcatLayout
<1>8. i.rev3 => i.plen >= 2 /\ i.maxrun <= i.size512
  BY <1>1, <1>4 DEF ImageIsSound, ValidatePcatLayout
<1>9. i.rev3 /\ i.maxrun # 0 => RangeIsInside(Bytes(i.maxrun), i.pcir, i.plen)
  BY <1>1, <1>4 DEF ImageIsSound, ValidatePcatLayout
<1>10. i.pcir + 1 <= Bytes(i.size512) /\ i.pcir + i.plen <= Bytes(i.size512)
  BY <1>2, <1>3, <1>6, <1>7 DEF RangeIsInside
<1>11. i.rev3 /\ i.maxrun # 0 => Bytes(i.maxrun) >= i.pcir + i.plen
  BY <1>2, <1>6, <1>9 DEF RangeIsInside
<1> QED BY <1>1, <1>3, <1>4, <1>5, <1>8, <1>10, <1>11 DEF FactsAreValid

\* The record of a refused copy is right.
LEMMA RecordRight ==
  ASSUME RomInv, pc \in Chosen, NEW where, recovery' = RomRecoveryRecord(where)
  PROVE  RecordIsRight'
<1> DEFINE i == rom[first]
<1> DEFINE limit == Smaller(ActiveBlocks, where)
<1>1. FactsAreValid(i, CopyBlocks)
  BY SelectedFacts
<1>2. /\ recovery'.valid = FactsAreValid(i, CopyBlocks) /\ recovery'.limit = limit
      /\ recovery'.result = NcvRomPlacementAssess(i, FactsAreValid(i, CopyBlocks), limit)
  BY DEF RomRecoveryRecord
<1>3. i.rev3 => i.maxrun <= i.len
  <2>1. i \in Image
    BY SelectedImage
  <2>2. i.maxrun \in Nat /\ i.size512 \in Nat /\ i.len \in Nat /\ i.len = CopyBlocks
    BY <2>1 DEF Image, CopyBlocks
  <2> QED BY <1>1, <2>2 DEF FactsAreValid
<1>4. i.maxrun \in Nat /\ i.len \in Nat
  BY SelectedImage DEF Image
<1>5. ASSUME limit # 0 PROVE NcvRomPlacementAssess(i, TRUE, limit) # "InvalidRom"
  BY <1>3, <1>4, <1>5 DEF NcvRomPlacementAssess
<1> QED BY <1>1, <1>2, <1>5 DEF RecordIsRight

-----------------------------------------------------------------------------
(* The walk's invariant is not disturbed by the guard, nor the other way.  *)

LEMMA ChoiceKept ==
  ASSUME RomInv, pc \in Chosen, UNCHANGED romVars, pc' \in Chosen \cup {"Unavailable", "Layout"}
  PROVE  RomInv'
BY DEF RomInv, romVars, Chosen

LEMMA WalkKeepsGuard ==
  ASSUME RomInv, GuardInv, UNCHANGED guardVars, pc \in {"start", "walk", "walked"},
         pc' \in {"walk", "walked", "selected", "NotFound", "Compromised"}
  PROVE  GuardInv'
BY DEF GuardInv, guardVars

-----------------------------------------------------------------------------
(* What a clear check means.                                               *)

LEMMA ClearVerdict ==
  ASSUME LegacyRomGuardInspect.reason = "Clear", handler \in Nat, CopyBlocks \in Nat
  PROVE  /\ CopyBlocks <= Blocks
         /\ Extent(0) /\ Identity(0) = Active
         /\ Overwrites = {}
         /\ handler >= CopyBlocks
BY GuardAssumption DEF LegacyRomGuardInspect

\* A readable ROM of another device is not among the blocks that are copied.
LEMMA ForeignBehindCopy ==
  ASSUME Cleared, shadow \in [Block -> Cell], CopyBlocks \in Nat,
         NEW b \in Block, Resident(shadow, b), shadow[b].id # Active
  PROVE  b >= CopyBlocks
<1> SUFFICES ASSUME b < CopyBlocks PROVE FALSE
  BY GuardAssumption DEF Block
<1> DEFINE c == shadow[b]
<1>1. b \in Nat /\ Blocks \in Nat /\ snapshot.valid = Block \ hidden
  BY GuardAssumption DEF Block, Cleared
<1>2. /\ b \notin hidden /\ Header(c) /\ c.size # 0 /\ b + c.size <= Blocks
      /\ (b .. b + c.size - 1) \subseteq Block \ hidden
      /\ c.pcir < c.size /\ c.id # NoId
  BY <1>1 DEF Resident
<1>3. c.size \in Nat /\ c.pcir \in Nat
  BY <1>2 DEF Cell, Header
<1>4. Extent(b)
  BY <1>1, <1>2, <1>3 DEF Extent, Readable, Block
<1>5. b + c.pcir \in b .. b + c.size - 1
  BY <1>1, <1>2, <1>3
<1>6. Identity(b) = c.id
  BY <1>1, <1>2, <1>3, <1>5 DEF Identity, Readable, Block
<1>7. b # 0
  BY <1>6 DEF Cleared
<1>8. b \in 1 .. CopyBlocks - 1
  BY <1>1, <1>7
<1>9. Embedded(b)
  BY <1>2, <1>8 DEF Cleared, Overwrites
<1> QED BY <1>2, <1>4, <1>6, <1>9 DEF Embedded

\* Where the snapshot agrees with the shadow, the storage ROMs verify.
LEMMA VerifyHolds ==
  ASSUME \A b \in Block : Resident(snapshot.live, b) /\ snapshot.live[b].id # Active =>
           \A x \in ExtentOf(snapshot.live, b) : shadow[x] = snapshot.live[x]
  PROVE  LegacyStorageRomVerify
<1>1. \A b \in StorageRoms : b \in Block /\ Resident(snapshot.live, b) /\ snapshot.live[b].id # Active
  BY GuardAssumption DEF StorageRoms
<1> QED BY <1>1 DEF LegacyStorageRomVerify

-----------------------------------------------------------------------------
(* Every step of the guard.                                                *)

LEMMA FindMemory_Inv ==
  ASSUME RomInv, GuardInv, FindMemory PROVE RomInv' /\ GuardInv'
<1>0. /\ pc = "selected" /\ pc' = "inspect" /\ UNCHANGED romVars
      /\ shadow' \in Shadows /\ handler' \in Handlers /\ recovery' = recovery
  BY DEF FindMemory
<1>1. RomInv'
  BY <1>0, ChoiceKept DEF Chosen
<1>2. shadow' \in [Block -> Cell] /\ handler' \in 0 .. Blocks
  BY <1>0, GuardAssumption
<1>3. recovery' = NoRecovery
  BY <1>0 DEF GuardInv
<1>4. GuardInv'
  BY <1>0, <1>2, <1>3 DEF GuardInv
<1> QED BY <1>1, <1>4

\* Both checks.
LEMMA Check_Inv ==
  ASSUME RomInv, GuardInv, pc \in {"inspect", "planned"},
         NEW cleared \in {"planned", "rechecked"}, LegacyRomGuardCheck(cleared)
  PROVE  RomInv' /\ GuardInv'
<1>0. /\ UNCHANGED romVars /\ rom' = rom /\ first' = first
      /\ shadow' = shadow /\ hidden' = hidden /\ handler' = handler
      /\ intruded' = intruded /\ prior' = prior
  BY DEF LegacyRomGuardCheck, romVars
<1>1. pc \in Chosen
  BY DEF Chosen
<1>2. shadow \in [Block -> Cell] /\ handler \in 0 .. Blocks
  BY DEF GuardInv
<1>3. CASE pc' \in {"Unavailable", "Layout"} /\ recovery' = NoRecovery
  <2>1. RomInv'
    BY <1>0, <1>1, <1>3, ChoiceKept
  <2>2. GuardInv'
    BY <1>0, <1>2, <1>3 DEF GuardInv
  <2> QED BY <2>1, <2>2
<1>4. CASE /\ LegacyRomGuardInspect.reason = "Clear"
           /\ recovery' = NoRecovery /\ pc' = cleared
           /\ snapshot' = [live |-> shadow, valid |-> Block \ hidden]
  <2>1. RomInv'
    BY <1>0, <1>1, <1>4, ChoiceKept DEF Chosen
  <2>2. /\ CopyBlocks <= Blocks /\ Extent(0) /\ Identity(0) = Active
        /\ Overwrites = {} /\ handler >= CopyBlocks
    BY <1>1, <1>2, <1>4, ClearVerdict, SelectedImage, GuardAssumption
  <2>3. /\ (CopyBlocks <= Blocks)' /\ Extent(0)' /\ (Identity(0) = Active)'
        /\ (Overwrites = {})' /\ (handler >= CopyBlocks)'
    BY <1>0, <2>2 DEF CopyBlocks, Extent, Readable, Identity, Overwrites, Embedded, ActiveBlocks
  <2>4. Cleared'
    BY <1>0, <1>4, <2>3 DEF Cleared
  <2>5. GuardInv'
    BY <1>0, <1>2, <1>4, <2>4 DEF GuardInv
  <2> QED BY <2>1, <2>5
<1>5. CASE pc' = "Overlap" /\ \E where : recovery' = RomRecoveryRecord(where)
  <2>1. RomInv'
    BY <1>0, <1>1, <1>5, ChoiceKept DEF Chosen
  <2>2. RecordIsRight'
    BY <1>1, <1>5, RecordRight
  <2>3. GuardInv'
    BY <1>0, <1>2, <1>5, <2>2 DEF GuardInv
  <2> QED BY <2>1, <2>3
<1> QED BY <1>3, <1>4, <1>5 DEF LegacyRomGuardCheck, GuardFails, LegacyRomGuardReset

\* A change is noticed once GetBbsInfo has returned.
LEMMA IntrusionNoticed ==
  ASSUME Intrude, pc # "planned", shadow \in [Block -> Cell \cup {Copied}], intruded' = {}
  PROVE  intruded = {} /\ shadow' = shadow /\ handler' = handler
<1>0. PICK b \in Block :
        \/ /\ \E c \in Intrusions : shadow' = [shadow EXCEPT ![b] = c]
           /\ UNCHANGED handler
        \/ handler' = b /\ UNCHANGED shadow
  BY DEF Intrude
<1>1. /\ intruded = {}
      /\ \A x \in Block : shadow'[x] = shadow[x] /\ ~(handler' \in {x} \ {handler})
  BY DEF Intrude
<1>2. handler' = handler
  BY <1>0, <1>1
<1>3. shadow' = shadow
  <2>1. CASE UNCHANGED shadow
    BY <2>1
  <2>2. CASE \E c \in Intrusions : shadow' = [shadow EXCEPT ![b] = c]
    BY <1>1, <2>2
  <2> QED BY <1>0, <2>1, <2>2
<1> QED BY <1>1, <1>2, <1>3

LEMMA Intrude_Inv ==
  ASSUME RomInv, GuardInv, Intrude PROVE RomInv' /\ GuardInv'
<1>0. /\ pc \in {"planned", "rechecked", "verified", "dispatched"} /\ pc' = pc
      /\ UNCHANGED romVars /\ rom' = rom /\ first' = first
      /\ hidden' = hidden /\ snapshot' = snapshot /\ recovery' = recovery /\ prior' = prior
  BY DEF Intrude, romVars
<1>1. PICK b \in Block :
        \/ /\ \E c \in Intrusions : shadow' = [shadow EXCEPT ![b] = c]
           /\ UNCHANGED handler
        \/ handler' = b /\ UNCHANGED shadow
  BY DEF Intrude
<1>2. RomInv'
  BY <1>0, ChoiceKept DEF Chosen
<1>3. shadow' \in [Block -> Cell \cup {Copied}]
  <2>1. CASE UNCHANGED shadow
    BY <2>1 DEF GuardInv
  <2>2. CASE \E c \in Intrusions : shadow' = [shadow EXCEPT ![b] = c]
    BY <2>2, GuardAssumption DEF GuardInv
  <2> QED BY <1>1, <2>1, <2>2
<1>4. pc # "dispatched" => shadow' \in [Block -> Cell]
  <2> SUFFICES ASSUME pc # "dispatched" PROVE shadow' \in [Block -> Cell]
    OBVIOUS
  <2>0. shadow \in [Block -> Cell]
    BY <1>0 DEF GuardInv
  <2>1. CASE UNCHANGED shadow
    BY <2>0, <2>1
  <2>2. CASE \E c \in Intrusions : shadow' = [shadow EXCEPT ![b] = c]
    BY <2>0, <2>2, GuardAssumption
  <2> QED BY <1>1, <2>1, <2>2
<1>5. handler' \in 0 .. Blocks
  BY <1>1, GuardAssumption DEF GuardInv, Block
<1>6. pc \in {"rechecked", "verified"} /\ intruded' = {} => Cleared'
  <2> SUFFICES ASSUME pc \in {"rechecked", "verified"}, intruded' = {} PROVE Cleared'
    OBVIOUS
  <2>1. intruded = {} /\ shadow' = shadow /\ handler' = handler
    BY IntrusionNoticed DEF GuardInv
  <2>2. Cleared
    BY <2>1 DEF GuardInv
  <2> QED BY <1>0, <2>1, <2>2 DEF Cleared, CopyBlocks, Extent, Readable, Identity, Overwrites,
                                Embedded, ActiveBlocks
<1>7. pc = "dispatched" /\ intruded' = {} => Spared'
  <2> SUFFICES ASSUME pc = "dispatched", intruded' = {} PROVE Spared'
    OBVIOUS
  <2>1. intruded = {} /\ shadow' = shadow /\ handler' = handler
    BY IntrusionNoticed DEF GuardInv
  <2>2. Spared
    BY <2>1 DEF GuardInv
  <2> QED BY <1>0, <2>1, <2>2 DEF Spared, CopyBlocks, Resident, ExtentOf
<1>8. prior' \in [Block -> Cell] \/ pc # "dispatched"
  BY <1>0 DEF GuardInv
<1>9. recovery' = NoRecovery
  BY <1>0 DEF GuardInv
<1>10. GuardInv'
  BY <1>0, <1>3, <1>4, <1>5, <1>6, <1>7, <1>8, <1>9 DEF GuardInv
<1> QED BY <1>2, <1>10

LEMMA VerifyOwnedCopies_Inv ==
  ASSUME RomInv, GuardInv, VerifyOwnedCopies PROVE RomInv' /\ GuardInv'
<1>0. /\ pc = "rechecked" /\ UNCHANGED <<romVars, guardVars>>
      /\ pc' = IF LegacyStorageRomVerify THEN "verified" ELSE "RomChanged"
  BY DEF VerifyOwnedCopies, Verify
<1>1. RomInv'
  BY <1>0, ChoiceKept DEF Chosen
<1>2. intruded = {} => LegacyStorageRomVerify
  BY <1>0, VerifyHolds DEF GuardInv, Cleared
<1>3. Cleared => Cleared'
  BY <1>0 DEF guardVars, romVars, Cleared, CopyBlocks, Extent, Readable, Identity, Overwrites,
              Embedded, ActiveBlocks
<1>4. GuardInv'
  BY <1>0, <1>2, <1>3 DEF GuardInv, guardVars
<1> QED BY <1>1, <1>4

LEMMA VerifyBeforeBoot_Inv ==
  ASSUME RomInv, GuardInv, VerifyBeforeBoot PROVE RomInv' /\ GuardInv'
<1>0. /\ pc = "dispatched" /\ UNCHANGED <<romVars, guardVars>>
      /\ pc' = IF LegacyStorageRomVerify THEN "boot" ELSE "RomChanged"
  BY DEF VerifyBeforeBoot, Verify
<1>1. RomInv'
  BY <1>0, ChoiceKept DEF Chosen
<1>2. intruded = {} => LegacyStorageRomVerify
  BY <1>0, VerifyHolds DEF GuardInv, Spared
<1>3. Spared => Spared'
  BY <1>0 DEF guardVars, romVars, Spared, CopyBlocks, Resident, ExtentOf
<1>4. GuardInv'
  BY <1>0, <1>2, <1>3 DEF GuardInv, guardVars
<1> QED BY <1>1, <1>4

LEMMA Dispatch_Inv ==
  ASSUME RomInv, GuardInv, Dispatch PROVE RomInv' /\ GuardInv'
<1>0. /\ pc = "verified" /\ pc' = "dispatched" /\ UNCHANGED romVars
      /\ rom' = rom /\ first' = first /\ prior' = shadow
      /\ shadow' = [b \in Block |-> IF b < CopyBlocks THEN Copied ELSE shadow[b]]
      /\ handler' = handler /\ snapshot' = snapshot /\ recovery' = recovery
      /\ intruded' = intruded
  BY DEF Dispatch, romVars
<1>1. RomInv'
  BY <1>0, ChoiceKept DEF Chosen
<1>2. shadow \in [Block -> Cell] /\ CopyBlocks \in Nat
  BY <1>0, SelectedImage DEF GuardInv, Chosen
<1>3. shadow' \in [Block -> Cell \cup {Copied}]
  BY <1>0, <1>2
<1>4. intruded = {} => Spared'
  <2> SUFFICES ASSUME intruded = {} PROVE Spared'
    OBVIOUS
  <2>1. Cleared
    BY <1>0 DEF GuardInv
  <2>2. handler' >= CopyBlocks' /\ snapshot'.live = prior'
    BY <1>0, <2>1 DEF Cleared, CopyBlocks
  <2>3. ASSUME NEW b \in Block, Resident(prior, b)', prior'[b].id # Active
        PROVE  \A x \in ExtentOf(prior, b)' : shadow'[x] = prior'[x]
    <3>1. Resident(shadow, b) /\ shadow[b].id # Active
      BY <1>0, <2>3 DEF Resident
    <3>2. b >= CopyBlocks
      BY <1>2, <2>1, <3>1, ForeignBehindCopy
    <3>3. shadow[b].size \in Nat /\ b + shadow[b].size <= Blocks
      BY <1>2, <3>1 DEF Resident, Cell, Header
    <3>4. b \in Nat /\ Blocks \in Nat
      BY GuardAssumption DEF Block
    <3>5. \A x \in b .. b + shadow[b].size - 1 : x \in Block /\ ~(x < CopyBlocks)
      BY <1>2, <3>2, <3>3, <3>4 DEF Block
    <3> QED BY <1>0, <3>5 DEF ExtentOf
  <2> QED BY <2>2, <2>3 DEF Spared
<1>5. recovery' = NoRecovery /\ handler' \in 0 .. Blocks
  BY <1>0 DEF GuardInv
<1>6. GuardInv'
  BY <1>0, <1>2, <1>3, <1>4, <1>5 DEF GuardInv
<1> QED BY <1>1, <1>6

LEMMA Release_Inv ==
  ASSUME RomInv, GuardInv, Release PROVE RomInv' /\ GuardInv'
<1>0. /\ pc \in {"planned", "rechecked", "verified"} /\ pc' = "released" /\ UNCHANGED romVars
      /\ shadow' = shadow /\ handler' = handler /\ recovery' = recovery
  BY DEF Release
<1>1. RomInv'
  BY <1>0, ChoiceKept DEF Chosen
<1>2. GuardInv'
  BY <1>0 DEF GuardInv
<1> QED BY <1>1, <1>2

LEMMA Stutter_Inv ==
  ASSUME RomInv, GuardInv, UNCHANGED vars PROVE RomInv' /\ GuardInv'
<1>1. RomInv'
  BY DEF RomInv, vars, romVars, Walking, Walked
<1>2. /\ Cleared => Cleared'
      /\ Spared => Spared'
  BY DEF vars, guardVars, romVars, Cleared, Spared, CopyBlocks, Extent, Readable, Identity,
         Overwrites, Embedded, ActiveBlocks, Resident, ExtentOf
<1>3. GuardInv'
  BY <1>2 DEF GuardInv, vars, guardVars, RecordIsRight
<1> QED BY <1>1, <1>3

LEMMA Init_Inv ==
  ASSUME Init PROVE RomInv /\ GuardInv
<1>1. RomInv
  BY RomInit_Inv DEF Init
<1>2. shadow \in [Block -> Cell] /\ handler \in 0 .. Blocks
  BY GuardAssumption DEF Init, Cell
<1>3. GuardInv
  BY <1>2 DEF Init, RomInit, GuardInv
<1> QED BY <1>1, <1>3

LEMMA Next_Inv ==
  ASSUME RomInv, GuardInv, [Next]_vars PROVE RomInv' /\ GuardInv'
<1>1. CASE StartWalk /\ UNCHANGED guardVars
  BY <1>1, StartWalk_Inv, WalkKeepsGuard DEF StartWalk, Refuse
<1>2. CASE RefuseImage /\ UNCHANGED guardVars
  BY <1>2, RefuseImage_Inv, WalkKeepsGuard DEF RefuseImage, Refuse
<1>3. CASE NextImage /\ UNCHANGED guardVars
  BY <1>3, NextImage_Inv, WalkKeepsGuard DEF NextImage
<1>4. CASE LastImage /\ UNCHANGED guardVars
  BY <1>4, LastImage_Inv, WalkKeepsGuard DEF LastImage
<1>5. CASE BrokenChain /\ UNCHANGED guardVars
  BY <1>5, BrokenChain_Inv, WalkKeepsGuard DEF BrokenChain, Refuse
<1>6. CASE SelectRom /\ UNCHANGED guardVars
  BY <1>6, SelectRom_Inv, WalkKeepsGuard DEF SelectRom
<1>7. CASE FindMemory
  BY <1>7, FindMemory_Inv
<1>8. CASE FirstCheck
  BY <1>8, Check_Inv DEF FirstCheck
<1>9. CASE Intrude
  BY <1>9, Intrude_Inv
<1>10. CASE LegacyRomGuardRecheckAfterBbs
  BY <1>10, Check_Inv DEF LegacyRomGuardRecheckAfterBbs
<1>11. CASE VerifyOwnedCopies
  BY <1>11, VerifyOwnedCopies_Inv
<1>12. CASE Dispatch
  BY <1>12, Dispatch_Inv
<1>13. CASE VerifyBeforeBoot
  BY <1>13, VerifyBeforeBoot_Inv
<1>14. CASE Release
  BY <1>14, Release_Inv
<1>15. CASE Stop \/ UNCHANGED vars
  BY <1>15, Stutter_Inv DEF Stop
<1> QED BY <1>1, <1>2, <1>3, <1>4, <1>5, <1>6, <1>7, <1>8, <1>9, <1>10, <1>11, <1>12, <1>13,
           <1>14, <1>15 DEF Next

-----------------------------------------------------------------------------
(* The theorems.                                                           *)

\* RomInv and GuardInv hold of every state.
THEOREM GuardInductive == Spec => [](RomInv /\ GuardInv)
<1>1. Init => RomInv /\ GuardInv
  BY Init_Inv
<1>2. RomInv /\ GuardInv /\ [Next]_vars => (RomInv /\ GuardInv)'
  BY Next_Inv
<1> QED BY <1>1, <1>2, PTL DEF Spec

\* OptionRomParseAndValidate and SelectRom choose an image exactly when the ROM
\* is tiled by sound images of which one, small enough, is for this card.
THEOREM SelectionExact == Spec => []RomSelectionExact
<1>1. RomInv => RomSelectionExact
  BY RomInv_Exact
<1> QED BY <1>1, GuardInductive, PTL

\* LegacyRomGuardCheck, repeated after GetBbsInfo, lets no copy through that
\* would overwrite another device's ROM or the code INT13 points to, and
\* LegacyStorageRomVerify only refuses what others have changed.
THEOREM OthersSpared == Spec => []CopySparesOthers
<1>1. GuardInv => CopySparesOthers
  BY DEF GuardInv, CopySparesOthers, Spared
<1> QED BY <1>1, GuardInductive, PTL

\* RomRecoveryRecord describes a refused copy only, and of an image that
\* RomPlacement.c reads as the parser did.
THEOREM PlacementRight == Spec => []PlacementKnown
<1>1. GuardInv => PlacementKnown
  BY DEF GuardInv, PlacementKnown, NoRecovery, RecordIsRight
<1> QED BY <1>1, GuardInductive, PTL


-----------------------------------------------------------------------------
(* The walk over the memory map: its inductive invariant.                  *)

\* Who owns a buffer, at every label, and how many attempts are left.
OwnerInv ==
  /\ phase \in {"capture", "ready", "walk", "answer"} => pools = 1
  /\ phase \in {"start", "allocate", "released", "failed"} => pools = 0
  /\ phase \in {"ready", "walk", "answer"} => map # << >>
  /\ phase \in {"start", "allocate", "capture", "released", "failed"} => map = << >>
  /\ phase = "capture" => attempt < Attempts

\* Between two rounds everything before the cursor may be accessed, and it is
\* not yet enough.
WalkInv ==
  phase = "walk" =>
    /\ ~RangeRefusable(query)
    /\ query.addr <= cursor
    /\ available = cursor - query.addr
    /\ \A a \in query.addr .. cursor - 1 : Accessible(a)

MapInv == TypeOK /\ OwnerInv /\ WalkInv /\ WalkExact

-----------------------------------------------------------------------------
(* Descriptors.                                                            *)

\* The size of a descriptor is a number.
LEMMA RangeBytesNat ==
  ASSUME NEW d \in Descriptor
  PROVE  RangeBytes(d) \in Nat /\ d.start \in Addr /\ Last(d) \in Int
  BY MapAssumption, d.pages \in Nat, SMT DEF RangeBytes, Last, Descriptor, Addr

\* The descriptor that is alone at an address stays alone up to CoveredLast.
LEMMA AloneToLast ==
  ASSUME TypeOK,
         NEW i \in DOMAIN map, NEW c \in Addr, NEW last \in c .. MaxAddr,
         Usable(i, c), CoveredLast(i, c, last),
         NEW a \in c .. last
  PROVE  Usable(i, a)
<1>0. MaxAddr \in Nat /\ c \in Int /\ last \in Int /\ a \in Int /\ c <= a /\ a <= last
  BY MapAssumption DEF Addr
<1>1. \A j \in DOMAIN map : map[j] \in Descriptor
  BY DEF TypeOK
<1>2. \A j \in DOMAIN map : RangeBytes(map[j]) \in Nat /\ map[j].start \in Int /\ Last(map[j]) \in Int
  BY <1>1, RangeBytesNat, MapAssumption DEF Addr
<1>3. Covers(map[i], a)
  BY <1>0, <1>2 DEF Usable, CoveredLast, Covers
<1>4. ASSUME NEW j \in DOMAIN map, Covers(map[j], a) PROVE j = i
  <2>1. map[j].start <= c
    BY <1>0, <1>2, <1>4 DEF CoveredLast, Covers
  <2>2. Covers(map[j], c)
    BY <1>0, <1>2, <1>4, <2>1 DEF Covers
  <2> QED BY <2>2 DEF Usable
<1> QED BY <1>3, <1>4 DEF Usable

\* A range that is not refused ends inside the address space.
LEMMA NotRefusable ==
  ASSUME NEW q \in Query, ~RangeRefusable(q)
  PROVE  q.len > 0 /\ q.addr + q.len - 1 <= MaxAddr /\ q.addr \in Addr /\ q.len \in Addr
  BY MapAssumption DEF Query, RangeRefusable, Addr

\* The state before any query is a query, too.
LEMMA NoQueryTyped == NoQuery \in Query
<1>1. 0 \in Addr
  BY MapAssumption DEF Addr
<1>2. FALSE \in BOOLEAN
  BY Zenon
<1> QED BY <1>1, <1>2 DEF NoQuery, Query

-----------------------------------------------------------------------------
(* The steps of the capture and of the walk.                               *)

\* The capture leaves the walk alone; its labels carry no answer.
LEMMA CaptureStep ==
  ASSUME MapInv, GetSize \/ Allocate \/ Captured \/ Grown \/ CaptureFailed
  PROVE  MapInv'
<1>0. /\ MaxSize \in Nat /\ Slack \in Nat /\ Slack <= MaxSize /\ Attempts \in Nat
      /\ Maps \subseteq Seq(Descriptor) /\ << >> \in Seq(Descriptor)
  BY MapAssumption
<1>1. UNCHANGED walkVars /\ phase' \in {"allocate", "capture", "ready", "failed"}
  BY DEF GetSize, Allocate, Captured, Grown, CaptureFailed, Failed
<1>2. OwnerInv' /\ pools' \in 0 .. 1 /\ attempt' \in 0 .. Attempts /\ size' \in 0 .. MaxSize
      /\ map' \in Seq(Descriptor)
  <2>1. CASE GetSize
    <3>0. phase = "start" /\ pools' = pools
      BY <2>1 DEF GetSize
    <3>1. CASE Failed
      BY <1>0, <3>0, <3>1 DEF Failed, MapInv, TypeOK, OwnerInv
    <3>2. CASE ~Failed
      <4>1. /\ \E n \in 0 .. MaxSize : n <= MaxSize - Slack /\ size' = n + Slack
            /\ phase' = "allocate" /\ attempt' = attempt /\ map' = map
        BY <2>1, <3>2 DEF GetSize, Grow
      <4> QED BY <1>0, <3>0, <4>1 DEF MapInv, TypeOK, OwnerInv
    <3> QED BY <3>1, <3>2
  <2>2. CASE Allocate
    <3>0. phase = "allocate"
      BY <2>2 DEF Allocate
    <3>1. CASE Failed /\ UNCHANGED pools
      BY <1>0, <3>0, <3>1 DEF Failed, MapInv, TypeOK, OwnerInv
    <3>2. CASE ~(Failed /\ UNCHANGED pools)
      <4>1. /\ attempt < Attempts /\ pools' = pools + 1 /\ phase' = "capture"
            /\ attempt' = attempt /\ size' = size /\ map' = map
        BY <2>2, <3>2 DEF Allocate
      <4> QED BY <1>0, <3>0, <4>1 DEF MapInv, TypeOK, OwnerInv
    <3> QED BY <3>1, <3>2
  <2>3. CASE Captured
    BY <1>0, <2>3 DEF Captured, MapInv, TypeOK, OwnerInv
  <2>4. CASE Grown
    BY <1>0, <2>4 DEF Grown, Grow, MapInv, TypeOK, OwnerInv
  <2>5. CASE CaptureFailed
    BY <1>0, <2>5 DEF CaptureFailed, Failed, MapInv, TypeOK, OwnerInv
  <2> QED BY <2>1, <2>2, <2>3, <2>4, <2>5
<1>3. TypeOK'
  BY <1>1, <1>2 DEF MapInv, TypeOK, walkVars
<1> QED BY <1>1, <1>2, <1>3 DEF MapInv, WalkInv, WalkExact

\* A new query has covered nothing yet, and a refused one is answered.
LEMMA AskStep ==
  ASSUME MapInv, Ask
  PROVE  MapInv'
<1>1. PICK q \in Queries :
        /\ query' = q
        /\ cursor' = q.addr /\ available' = 0 /\ answer' = FALSE
        /\ phase' = IF RangeRefusable(q) THEN "answer" ELSE "walk"
  BY DEF Ask
<1>2. q \in Query /\ q.addr \in Addr /\ MaxAddr \in Nat
  BY MapAssumption DEF Query
<1>3. UNCHANGED captureVars /\ phase \in {"ready", "answer"}
  BY DEF Ask
<1>4. TypeOK'
  <2>1. answer' \in BOOLEAN
    BY <1>1, Zenon
  <2> QED BY <1>1, <1>2, <1>3, <2>1 DEF MapInv, TypeOK, captureVars, Addr
<1>5. OwnerInv'
  BY <1>1, <1>3 DEF MapInv, OwnerInv, captureVars
<1>6. WalkInv'
  BY <1>1, <1>2 DEF WalkInv, Addr
<1>7. WalkExact'
  <2>1. CASE RangeRefusable(q)
    <3>1. RangeRefusable(query') /\ ~answer'
      BY <1>1, <2>1
    <3>2. query'.addr .. query'.addr + (available' - 1) = {}
      BY <1>1, <1>2 DEF Addr
    <3> QED BY <1>1, <3>1, <3>2 DEF WalkExact
  <2>2. CASE ~RangeRefusable(q)
    BY <1>1, <2>2 DEF WalkExact
  <2> QED BY <2>1, <2>2
<1> QED BY <1>4, <1>5, <1>6, <1>7 DEF MapInv

\* A malformed descriptor ends the walk with a refusal.
LEMMA MalformedStep ==
  ASSUME MapInv, Malformed
  PROVE  MapInv'
<1>1. /\ phase = "walk" /\ phase' = "answer" /\ available' = 0 /\ answer' = FALSE
      /\ UNCHANGED <<query, cursor, captureVars>>
  BY DEF Malformed
<1>2. MaxAddr \in Nat /\ query \in Query /\ query.addr \in Addr
  BY MapAssumption DEF MapInv, TypeOK, Query
<1>3. TypeOK'
  <2>1. answer' \in BOOLEAN
    BY <1>1, Zenon
  <2> QED BY <1>1, <1>2, <2>1 DEF MapInv, TypeOK, captureVars, Addr
<1>4. OwnerInv'
  BY <1>1 DEF MapInv, OwnerInv, captureVars
<1>5. WalkExact'
  <2>1. ~(\A i \in DOMAIN map' : WellFormed(map'[i])) /\ ~answer'
    BY <1>1 DEF Malformed, captureVars
  <2>2. query'.addr .. query'.addr + (available' - 1) = {}
    BY <1>1, <1>2 DEF Addr
  <2> QED BY <1>1, <2>1, <2>2 DEF WalkExact
<1> QED BY <1>1, <1>3, <1>4, <1>5 DEF MapInv, WalkInv

\* The walk stops at an address that may not be accessed: the range ends before
\* it, or contains it.
LEMMA StopWalkStep ==
  ASSUME MapInv, StopWalk
  PROVE  MapInv'
<1>1. /\ phase = "walk" /\ phase' = "answer" /\ available' = available
      /\ answer' = (available >= query.len)
      /\ UNCHANGED <<query, cursor, captureVars>>
      /\ \A i \in DOMAIN map : WellFormed(map[i])
      /\ ~Accessible(cursor)
  BY DEF StopWalk, Answer, Accessible
<1>2. /\ ~RangeRefusable(query) /\ query.addr <= cursor /\ available = cursor - query.addr
      /\ \A a \in query.addr .. cursor - 1 : Accessible(a)
  BY <1>1 DEF MapInv, WalkInv
<1>3. /\ MaxAddr \in Nat /\ query \in Query /\ cursor \in Addr
      /\ query.len > 0 /\ query.addr + query.len - 1 <= MaxAddr
      /\ query.addr \in Addr /\ query.len \in Addr
  BY <1>2, NotRefusable, MapAssumption DEF MapInv, TypeOK
<1>4. TypeOK'
  BY <1>1, <1>3 DEF MapInv, TypeOK, captureVars, Addr
<1>5. OwnerInv'
  BY <1>1 DEF MapInv, OwnerInv, captureVars
<1>6. (available >= query.len)
         <=> \A a \in query.addr .. query.addr + (query.len - 1) : Accessible(a)
  BY <1>1, <1>2, <1>3 DEF Addr
<1>7. /\ \A a \in query.addr .. query.addr + (available - 1) : Accessible(a)
      /\ ~Accessible(query.addr + available)
  BY <1>1, <1>2, <1>3 DEF Addr
<1>8. WalkExact'
  BY <1>1, <1>2, <1>6, <1>7 DEF WalkExact, captureVars, Accessible, Usable
<1> QED BY <1>1, <1>4, <1>5, <1>8 DEF MapInv, WalkInv

\* A round of the walk adds addresses that may be accessed; if it is the last
\* one, the range is covered.
LEMMA WalkStep ==
  ASSUME MapInv, Walk
  PROVE  MapInv'
<1>1. PICK i \in DOMAIN map, last \in cursor .. MaxAddr :
        /\ Usable(i, cursor) /\ CoveredLast(i, cursor, last)
        /\ \/ Ends(last) /\ Answer(Count(last)) /\ UNCHANGED cursor
           \/ /\ ~Ends(last)
              /\ cursor' = last + 1 /\ available' = Count(last)
              /\ UNCHANGED <<phase, answer>>
  BY DEF Walk
<1>2. /\ phase = "walk" /\ UNCHANGED <<query, captureVars>>
      /\ \A j \in DOMAIN map : WellFormed(map[j])
  BY DEF Walk
<1>3. /\ ~RangeRefusable(query) /\ query.addr <= cursor
      /\ \A a \in query.addr .. cursor - 1 : Accessible(a)
  BY <1>2 DEF MapInv, WalkInv
<1>4. /\ MaxAddr \in Nat /\ query \in Query /\ cursor \in Addr
      /\ query.len > 0 /\ query.addr + query.len - 1 <= MaxAddr
      /\ query.addr \in Addr /\ query.len \in Addr
  BY <1>3, NotRefusable, MapAssumption DEF MapInv, TypeOK
<1>5. /\ last \in Int /\ cursor <= last /\ last <= MaxAddr
  BY <1>4 DEF Addr
<1>6. \A a \in query.addr .. last : Accessible(a)
  <2> SUFFICES ASSUME NEW a \in query.addr .. last PROVE Accessible(a)
    OBVIOUS
  <2>1. CASE a < cursor
    BY <1>3, <1>4, <1>5, <2>1 DEF Addr
  <2>2. CASE a >= cursor
    <3>1. a \in cursor .. last
      BY <1>4, <1>5, <2>2 DEF Addr
    <3>2. Usable(i, a)
      BY <1>1, <1>4, <3>1, AloneToLast DEF MapInv
    <3> QED BY <3>2 DEF Accessible
  <2> QED BY <1>4, <2>1, <2>2 DEF Addr
<1>7. OwnerInv'
  BY <1>1, <1>2 DEF MapInv, OwnerInv, captureVars, Answer
<1>8. CASE Ends(last) /\ Answer(Count(last)) /\ UNCHANGED cursor
  <2>1. /\ phase' = "answer" /\ available' = Count(last) /\ answer' = (Count(last) >= query.len)
        /\ UNCHANGED <<query, cursor, captureVars>>
    BY <1>2, <1>8 DEF Answer
  <2>2. /\ Count(last) \in Addr /\ query.addr + Count(last) - 1 <= last
        /\ last = MaxAddr => query.addr + Count(last) > MaxAddr \/ Count(last) = MaxAddr
    BY <1>3, <1>4, <1>5 DEF Count, Addr
  <2>3. Count(last) >= query.len
    BY <1>4, <1>5, <1>8 DEF Count, Addr, Ends, EndsWithLength
  <2>4. TypeOK'
    BY <2>1, <2>2 DEF MapInv, TypeOK, captureVars
  <2>5. \A a \in query.addr .. query.addr + (Count(last) - 1) : Accessible(a)
    BY <1>4, <1>5, <1>6, <2>2 DEF Addr
  <2>6. \A a \in query.addr .. query.addr + (query.len - 1) : Accessible(a)
    BY <1>4, <2>2, <2>3, <2>5 DEF Addr
  <2>7. query.exact => last = MaxAddr
    BY <1>8 DEF Ends, EndsWithLength
  <2>8. WalkExact'
    BY <1>2, <1>3, <2>1, <2>2, <2>3, <2>5, <2>6, <2>7
       DEF WalkExact, captureVars, Accessible, Usable
  <2> QED BY <1>7, <2>1, <2>4, <2>8 DEF MapInv, WalkInv
<1>9. CASE ~Ends(last) /\ cursor' = last + 1 /\ available' = Count(last) /\ UNCHANGED <<phase, answer>>
  <2>1. last < MaxAddr /\ Count(last) = last + 1 - query.addr
    BY <1>4, <1>5, <1>9 DEF Ends, Count, Addr
  <2>2. TypeOK'
    BY <1>2, <1>3, <1>4, <1>5, <1>9, <2>1 DEF MapInv, TypeOK, captureVars, Addr
  <2>3. \A a \in query.addr .. cursor' - 1 : Accessible(a)
    BY <1>4, <1>5, <1>6, <1>9 DEF Addr
  <2>4. WalkInv'
    BY <1>2, <1>3, <1>4, <1>5, <1>9, <2>1, <2>3
       DEF WalkInv, captureVars, Accessible, Usable, Addr
  <2>5. WalkExact'
    BY <1>2, <1>9 DEF WalkExact
  <2> QED BY <1>7, <2>2, <2>4, <2>5 DEF MapInv
<1> QED BY <1>1, <1>8, <1>9

\* Releasing a snapshot frees its buffer; a new client starts with none.
LEMMA ReleaseStep ==
  ASSUME MapInv, MemoryMapRelease \/ Again
  PROVE  MapInv'
<1>0. MaxAddr \in Nat /\ << >> \in Seq(Descriptor)
  BY MapAssumption
<1>1. CASE MemoryMapRelease
  <2>1. answer' \in BOOLEAN /\ query' \in Query
    BY <1>1, NoQueryTyped, Zenon DEF MemoryMapRelease
  <2>2. TypeOK'
    BY <1>0, <1>1, <2>1 DEF MemoryMapRelease, MapInv, TypeOK, OwnerInv, Addr
  <2> QED BY <1>1, <2>2 DEF MemoryMapRelease, MapInv, OwnerInv, WalkInv, WalkExact
<1>2. CASE Again
  BY <1>2 DEF Again, MapInv, TypeOK, OwnerInv, WalkInv, WalkExact, walkVars, captureVars
<1> QED BY <1>1, <1>2

-----------------------------------------------------------------------------
(* The theorems about the memory map.                                      *)

\* The inductive invariant of MemoryMap.c: which buffer is owned at each label,
\* and that what is before the cursor may be accessed.
THEOREM MapInvariant == MapSpec => []MapInv
<1>1. MapInit => MapInv
  <2> SUFFICES ASSUME MapInit PROVE MapInv
    OBVIOUS
  <2>1. answer \in BOOLEAN /\ query \in Query
    BY NoQueryTyped, Zenon DEF MapInit
  <2>2. TypeOK
    BY <2>1, MapAssumption, << >> \in Seq(Descriptor) DEF MapInit, TypeOK, Addr
  <2> QED BY <2>2 DEF MapInit, MapInv, OwnerInv, WalkInv, WalkExact
<1>2. MapInv /\ [MapNext]_mapVars => MapInv'
  <2> SUFFICES ASSUME MapInv, [MapNext]_mapVars PROVE MapInv'
    OBVIOUS
  <2>1. CASE GetSize \/ Allocate \/ Captured \/ Grown \/ CaptureFailed
    BY <2>1, CaptureStep
  <2>2. CASE Ask
    BY <2>2, AskStep
  <2>3. CASE Malformed
    BY <2>3, MalformedStep
  <2>4. CASE StopWalk
    BY <2>4, StopWalkStep
  <2>5. CASE Walk
    BY <2>5, WalkStep
  <2>6. CASE MemoryMapRelease \/ Again
    BY <2>6, ReleaseStep
  <2>7. CASE UNCHANGED mapVars
    BY <2>7 DEF mapVars, MapInv, TypeOK, OwnerInv, WalkInv, WalkExact, Accessible, Usable
  <2> QED BY <2>1, <2>2, <2>3, <2>4, <2>5, <2>6, <2>7 DEF MapNext
<1> QED BY <1>1, <1>2, PTL DEF MapSpec

\* The cursor of the walk never leaves the address space and the capture never
\* tries more often than MEMORY_MAP_CAPTURE_ATTEMPTS.
THEOREM MapTypeCorrect == MapSpec => []TypeOK
<1>1. MapInv => TypeOK
  BY DEF MapInv
<1> QED BY <1>1, MapInvariant, PTL

\* MemoryMapRangeAccessible answers exactly for every map and every range.
THEOREM WalkIsExact == MapSpec => []WalkExact
<1>1. MapInv => WalkExact
  BY DEF MapInv
<1> QED BY <1>1, MapInvariant, PTL

\* MemoryMapCapture and MemoryMapRelease neither leak nor free twice.
THEOREM SnapshotSafe == MapSpec => []SnapshotOwned
<1>1. MapInv => SnapshotOwned
  BY DEF MapInv, OwnerInv, SnapshotOwned
<1> QED BY <1>1, MapInvariant, PTL

=============================================================================
