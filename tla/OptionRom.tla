----------------------------- MODULE OptionRom ------------------------------
(***************************************************************************)
(* OptionRom.c and SelectRom of RuntimePlan.c: the walk over the chain of  *)
(* images in the option ROM of the selected graphics card, and the choice  *)
(* of the one image that the firmware may be given to run.                 *)
(*                                                                         *)
(* A ROM is a function on its 512-byte blocks: where an image begins it    *)
(* gives what the header and the PCIR structure say, elsewhere NoImage.    *)
(* Offsets inside an image count cells, several to a block; the header,    *)
(* the base PCIR, what PCI 3.0 adds to it, a device number and the         *)
(* configuration utility's header are taken to fill one cell each.         *)
(***************************************************************************)
EXTENDS Integers, Sequences, FiniteSets

CONSTANTS
  Cells,      \* cells in a block
  MaxCopy,    \* 0x10000 in blocks: the largest image SelectRom accepts
  Device,     \* ExpectedDeviceId
  Roms,       \* what the card may expose
  NoImage,    \* no 0x55AA here, or no "PCIR" where the header points
  NoRom,      \* RomImage is NULL or RomSize is zero
  OddRom,     \* RomSize is no multiple of 512
  NoList,     \* DeviceListOffset = 0
  NoConfig    \* ConfigUtilityCodeHeaderOffset = 0

\* pcir = 0 stands for an offset that is zero, inside the header or unaligned.
\* plen is 0 below sizeof (PCI_DATA_STRUCTURE), 2 from sizeof
\* (PCI_3_0_DATA_STRUCTURE).  A list is the numbers before its terminator.
Image ==
  [pcir : Nat, plen : Nat, len : Nat, rev3 : BOOLEAN,
   code : {"pcat", "efi", "other"}, vendor : BOOLEAN, device : Nat \ {0},
   list : [at : Nat, ids : Seq(Nat \ {0})] \cup {NoList},
   maxrun : Nat,
   config : [at : Nat, blocks : Nat, text : BOOLEAN] \cup {NoConfig},
   dmtf : Nat, last : BOOLEAN, reserved : BOOLEAN, sum : BOOLEAN,
   size512 : Nat, legacysum : BOOLEAN]

Size(r) == Cardinality(DOMAIN r)

ASSUME RomAssumption ==
  /\ Cells \in Nat \ {0} /\ MaxCopy \in Nat /\ Device \in Nat \ {0}
  /\ \A r \in Roms \ {NoRom, OddRom} :
       Size(r) \in Nat \ {0} /\ r \in [0 .. Size(r) - 1 -> Image \cup {NoImage}]

VARIABLES
  pc,          \* where the planning is
  rom,         \* the ROM the card exposes
  at,          \* ImageOffset, in blocks
  first,       \* MatchingLegacyImageOffset
  matches      \* MatchingLegacyCandidateCount

romVars == <<rom, at, first, matches>>

NoOffset == -1

RomInit ==
  /\ pc = "start" /\ rom \in Roms
  /\ at = 0 /\ first = NoOffset /\ matches = 0

-----------------------------------------------------------------------------
(* What one image has to satisfy.                                          *)

RangeIsInside(container, offset, length) ==
  offset <= container /\ length <= container - offset

Bytes(blocks) == blocks * Cells

\* The PCIR is read before the image's length is known: first it has to lie in
\* the ROM, then, with its declared length, in the image.
HeaderIsSound(r, o) ==
  /\ r[o] # NoImage
  /\ r[o].pcir >= 1
  /\ RangeIsInside(Bytes(Size(r)), Bytes(o) + r[o].pcir, 1)
  /\ r[o].len # 0
  /\ RangeIsInside(Size(r), o, r[o].len)
  /\ r[o].plen >= 1
  /\ RangeIsInside(Bytes(r[o].len), r[o].pcir, r[o].plen)

\* The list begins behind the PCIR, and its terminator is in the image.
ParsePci30DeviceList(img) ==
  img.list # NoList =>
    /\ img.list.at >= img.plen
    /\ RangeIsInside(Bytes(img.len), img.pcir + img.list.at, Len(img.list.ids) + 1)

ValidatePci30Metadata(img) ==
  /\ img.maxrun <= img.len
  /\ img.config # NoConfig =>
       /\ RangeIsInside(Bytes(img.len), img.config.at, 1)
       /\ img.config.blocks # 0
       /\ RangeIsInside(Bytes(img.len), img.config.at, Bytes(img.config.blocks))
       /\ img.config.text
  /\ img.dmtf # 0 => RangeIsInside(Bytes(img.len), img.dmtf, 1)

LogAndValidateLegacyHeader(img) == img.size512 # 0 /\ img.size512 <= img.len

\* Mutant: the run-time part may end before the PCIR.
LayoutWithoutRuntime(img) ==
  /\ RangeIsInside(Bytes(img.size512), img.pcir, img.plen)
  /\ img.rev3 => img.maxrun <= img.size512

\* What stays after initialization is a beginning of what is initialized, and
\* contains the PCIR.
ValidatePcatLayout(img) ==
  /\ RangeIsInside(Bytes(img.size512), img.pcir, img.plen)
  /\ img.rev3 =>
       /\ img.maxrun <= img.size512
       /\ img.maxrun # 0 => RangeIsInside(Bytes(img.maxrun), img.pcir, img.plen)

ImageIsSound(r, o) ==
  /\ HeaderIsSound(r, o)
  /\ r[o].rev3 => /\ r[o].plen >= 2
                  /\ ParsePci30DeviceList(r[o])
                  /\ ValidatePci30Metadata(r[o])
  /\ ~r[o].reserved
  /\ r[o].code = "pcat" => LogAndValidateLegacyHeader(r[o]) /\ ValidatePcatLayout(r[o])

DeviceMatches(img) ==
  \/ img.device = Device
  \/ /\ img.rev3 /\ img.list # NoList
     /\ \E k \in 1 .. Len(img.list.ids) : img.list.ids[k] = Device

TargetPcat(img) == img.code = "pcat" /\ img.vendor /\ DeviceMatches(img)
SumsAreValid(img) == img.sum /\ img.legacysum

-----------------------------------------------------------------------------
(* The walk.  An image is at least a block long, so that the limit on the  *)
(* number of images is met no sooner than the end of the ROM.              *)

Refuse(status) ==
  /\ pc' = status
  /\ UNCHANGED romVars

StartWalk ==
  /\ pc = "start"
  /\ CASE rom = NoRom  -> Refuse("NotFound")
       [] rom = OddRom -> Refuse("Compromised")
       [] OTHER        -> pc' = "walk" /\ UNCHANGED romVars

Img == rom[at]
NextOffset == at + Img.len

RefuseImage ==
  /\ pc = "walk"
  /\ ~ImageIsSound(rom, at)
  /\ Refuse("Compromised")

\* A sound image is counted; only the first candidate's place is kept.
CountImage ==
  IF TargetPcat(Img) /\ SumsAreValid(Img)
  THEN matches' = matches + 1 /\ first' = IF first = NoOffset THEN at ELSE first
  ELSE UNCHANGED <<matches, first>>

\* Mutant: the last image may end before the ROM does.
ChainEndsLoosely == Img.last /\ NextOffset <= Size(rom)

\* The final indicator, and the ROM ends with the image that has it.
ChainEnds == Img.last /\ NextOffset = Size(rom)

NextImage ==
  /\ pc = "walk"
  /\ ImageIsSound(rom, at)
  /\ ~Img.last /\ NextOffset < Size(rom)
  /\ CountImage
  /\ at' = NextOffset
  /\ UNCHANGED <<pc, rom>>

LastImage ==
  /\ pc = "walk"
  /\ ImageIsSound(rom, at)
  /\ ChainEnds
  /\ CountImage
  /\ pc' = "walked"
  /\ UNCHANGED <<rom, at>>

\* Bytes after the final image, or no final image.
BrokenChain ==
  /\ pc = "walk"
  /\ ImageIsSound(rom, at)
  /\ ~ChainEnds /\ (Img.last \/ NextOffset >= Size(rom))
  /\ Refuse("Compromised")

\* OptionRomParseAndValidate tells EFI_CRC_ERROR, EFI_UNSUPPORTED and
\* EFI_NOT_FOUND apart when nothing matched; SelectRom reports all of them,
\* and more than one candidate or one that is too large, as compromised data.
SelectRom ==
  /\ pc = "walked"
  /\ LET ok == matches = 1 /\ rom[first].len <= MaxCopy
     IN pc' = IF ok THEN "selected" ELSE "Compromised"
  /\ UNCHANGED romVars

-----------------------------------------------------------------------------
(* What the choice is meant to be.                                         *)

\* The images at these blocks are sound and tile the ROM; the last one, and no
\* other, is marked as the last.
Tiles(r, blocks) ==
  /\ 0 \in blocks
  /\ \A o \in blocks : ImageIsSound(r, o)
  /\ \A o \in blocks :
       /\ IF r[o].last THEN o + r[o].len = Size(r) ELSE o + r[o].len \in blocks
       /\ o = 0 \/ \E p \in blocks : p + r[p].len = o /\ ~r[p].last

Candidates(r, blocks) == {o \in blocks : TargetPcat(r[o]) /\ SumsAreValid(r[o])}

\* The card's ROM has this image to run, and no other.
Selectable(r, o) ==
  /\ r \notin {NoRom, OddRom}
  /\ o \in DOMAIN r /\ r[o] # NoImage /\ r[o].len <= MaxCopy
  /\ \E blocks \in SUBSET DOMAIN r : Tiles(r, blocks) /\ Candidates(r, blocks) = {o}

\* OptionRom.h: "every image must make forward progress, and the final PCIR
\* image must end exactly at RomSize".  An image is selected if and only if it is
\* the one matching, checksum-valid image of a chain that tiles the whole ROM;
\* it never reaches beyond the ROM or into the next image.
RomSelectionExact ==
  /\ pc = "selected" => Selectable(rom, first)
  /\ pc \in {"NotFound", "Compromised"} =>
       rom \in {NoRom, OddRom} \/ \A o \in DOMAIN rom : ~Selectable(rom, o)

=============================================================================
