----------------------------- MODULE MCRomGuard -----------------------------
(* Model checking of RomGuard: ROMs of up to four blocks, a shadow of four. *)
EXTENDS RomGuard

Base ==
  [pcir |-> 1, plen |-> 1, len |-> 1, rev3 |-> FALSE, code |-> "pcat", vendor |-> TRUE,
   device |-> 1, list |-> NoList, maxrun |-> 0, config |-> NoConfig, dmtf |-> 0,
   last |-> TRUE, reserved |-> FALSE, sum |-> TRUE, size512 |-> 1, legacysum |-> TRUE]

\* Images that differ in the fields of PCI 2.x ...
Old == {[Base EXCEPT !.len = l, !.last = e, !.size512 = s, !.pcir = p, !.device = d, !.sum = u] :
          l \in 0 .. 3, e \in BOOLEAN, s \in 0 .. 2, p \in {0, 1, 3}, d \in {1, 2}, u \in BOOLEAN}

\* ... and in those of PCI 3.x.
New == {[Base EXCEPT !.rev3 = TRUE, !.plen = n, !.len = l, !.size512 = l, !.maxrun = m,
                     !.pcir = p, !.device = 2, !.list = i, !.config = c, !.dmtf = d] :
          n \in {1, 2}, l \in {2, 3}, m \in 0 .. 3, p \in {1, 3},
          i \in {NoList, [at |-> 2, ids |-> <<3, 1>>], [at |-> 2, ids |-> <<3>>],
                 [at |-> 1, ids |-> <<1>>]},
          c \in {NoConfig, [at |-> 2, blocks |-> 1, text |-> TRUE],
                 [at |-> 3, blocks |-> 2, text |-> TRUE], [at |-> 2, blocks |-> 0, text |-> TRUE],
                 [at |-> 2, blocks |-> 1, text |-> FALSE]},
          d \in {0, 1, 6}}

Uefi == [Base EXCEPT !.code = "efi", !.last = FALSE]
Bare == [Base EXCEPT !.legacysum = FALSE]
Short == [Base EXCEPT !.plen = 0]
Strange == [Base EXCEPT !.reserved = TRUE]
Foreign == [Base EXCEPT !.vendor = FALSE]
Second == [Base EXCEPT !.last = TRUE]

McRoms ==
  {NoRom, OddRom}
    \cup {<<a>> : a \in {Base, Bare, Short, Strange, Foreign, Uefi, NoImage}}
    \cup {<<a, b>> : a \in Old, b \in {NoImage, Base, Uefi}}
    \cup {<<a, b, c>> : a \in Old, b \in {NoImage, Second, Uefi}, c \in {NoImage, Second, Foreign}}
    \cup {<<a, b, c>> : a \in New, b \in {NoImage}, c \in {NoImage, Second}}
    \cup {<<Uefi, a, NoImage>> : a \in {n \in New : n.list # NoList}}
    \cup {<<[Base EXCEPT !.len = 4], NoImage, NoImage, NoImage>>}

FromZero(s) == [b \in 0 .. Len(s) - 1 |-> s[b + 1]]

MCRoms == {IF r \in {NoRom, OddRom} THEN r ELSE FromZero(r) : r \in McRoms}

Rom(s, p, i) == [size |-> s, pcir |-> p, id |-> i]

Starts == {Rom(s, 0, "gpu") : s \in 0 .. 3} \cup {Rom(2, 1, "gpu"), Rom(1, 0, "disk"), Plain}
Rests  == {Plain, Rom(1, 0, "disk"), Rom(2, 1, "disk"), Rom(1, 0, "net"), Rom(1, 0, NoId),
           Rom(0, 0, "net"), Rom(1, 0, "gpu")}
Later  == {Plain, Rom(1, 0, "disk"), Rom(0, 0, "net")}

MCShadows == {[b \in Block |-> CASE b = 0 -> s [] b = 1 -> x [] b = 2 -> y [] OTHER -> z] :
                s \in Starts, x \in Rests, y \in Later, z \in {Plain, Rom(1, 0, "disk")}}

MCIntrusions  == {Plain, Rom(1, 0, "disk")}
MCUnreadables == {{}, {1}, {2}}

=============================================================================
