-------------------------- MODULE MCTargetSetup ---------------------------
(* Small machines, boot tables and retained settings for TargetSetup.       *)
EXTENDS TargetSetup

Dev(class, parent, bus, slot) ==
  [class |-> class, parent |-> parent, path |-> << >>, seg |-> 0, bus |-> bus, slot |-> slot,
   pri |-> 0, sec |-> 0, sub |-> 0, root |-> 1, rootSeg |-> 0,
   vga |-> FALSE, rom |-> "one", id |-> 1]
Bridge(parent, bus, slot, sec, sub) ==
  [Dev("bridge", parent, bus, slot) EXCEPT !.pri = bus, !.sec = sec, !.sub = sub]
Active == [Dev("display", 0, 0, 2) EXCEPT !.vga = TRUE]
Sata   == Dev("storage", 0, 0, 31)
Usb    == Dev("usb", 0, 0, 20)

\* A graphics card behind a switch, its bridges listed bottom up, as any order
\* of handles may have them.
Switch ==
  <<Active, Bridge(3, 2, 0, 3, 3), Bridge(4, 1, 0, 2, 3), Bridge(0, 0, 1, 1, 3),
    Dev("display", 2, 3, 0), Sata>>

\* The same with a bridge whose registers were not updated.
Stale == [Switch EXCEPT ![2].sec = 9]

\* Two cards behind two ports, the second of another make and with two legacy
\* images; boot from USB too.
TwoCards ==
  <<Bridge(0, 0, 1, 1, 1), Bridge(0, 0, 3, 2, 2), Dev("display", 1, 1, 0),
    [Dev("display", 2, 2, 0) EXCEPT !.id = 2, !.rom = "many"], Active, Sata, Usb>>

\* A card that cannot be a target of a boot: another segment, another root
\* bridge, below a device that is no PCI bridge, without a legacy ROM, below
\* more bridges than the plan holds.
Elsewhere == <<Active, [Dev("display", 0, 5, 0) EXCEPT !.seg = 1, !.rootSeg = 1, !.root = 2], Sata>>
OtherRoot == <<Active, [Dev("display", 0, 5, 0) EXCEPT !.root = 2],
               Sata, [Sata EXCEPT !.seg = 1, !.rootSeg = 1, !.root = 3]>>
Hidden    == <<Active, Dev("other", 0, 0, 4), Dev("display", 2, 4, 0),
               [Dev("display", 0, 0, 6) EXCEPT !.rom = "none"], Dev("display", 0, 0, 7), Sata>>

Deep      == <<Active, Bridge(0, 0, 1, 1, 4), Bridge(2, 1, 0, 2, 4), Bridge(3, 2, 0, 3, 4),
               Bridge(4, 3, 0, 4, 4), Dev("display", 5, 4, 0), Sata>>

\* The firmware gives every device its path.
WithPaths(m) ==
  LET path[h \in 1 .. Len(m)] ==
        IF m[h].parent = 0 THEN <<m[h].root, m[h].slot>>
        ELSE Append(path[m[h].parent], m[h].slot)
  IN [h \in 1 .. Len(m) |-> [m[h] EXCEPT !.path = path[h]]]

MCMachines ==
  {WithPaths(m) : m \in {Deep, Switch, Stale, TwoCards, Elsewhere, OtherRoot, Hidden}}

Row(slot, text) ==
  [hdd |-> TRUE, bus |-> 0, slot |-> slot, usb |-> FALSE, text |-> text,
   whole |-> TRUE, ok |-> TRUE]
A == <<"a", "lower">>
B == <<"b", "lower">>
Stick == [Row(20, A) EXCEPT !.usb = TRUE]

MCTables ==
  {<<Stick, Row(31, A)>>,
   <<Row(31, A), Row(31, <<"a", "upper">>), Row(31, B)>>,        \* one name, two spellings
   <<[Row(31, A) EXCEPT !.ok = FALSE], [Row(31, B) EXCEPT !.whole = FALSE],
     [Row(31, A) EXCEPT !.hdd = FALSE], [Row(31, A) EXCEPT !.bus = 256]>>,
   <<Row(31, A), Row(31, B), Stick, Row(20, B)>>}                \* one disk too many

MCRetained ==
  {[gpu |-> <<0, 1, 0>>, ctrl |-> <<0, 0, 31>>, text |-> A, expects |-> 1, marker |-> TRUE],
   [gpu |-> <<0, 9, 0>>, ctrl |-> <<0, 0, 20>>, text |-> <<"a", "upper">>, expects |-> 2, marker |-> FALSE]}

=============================================================================
