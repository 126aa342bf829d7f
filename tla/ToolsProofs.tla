------------------------------ MODULE ToolsProofs ------------------------------
(***************************************************************************)
(* Proofs about AicDio, the terminals, for any boards, any program of any  *)
(* number of calls and whatever earlier programs left in the chip; and,    *)
(* in the second half, about AicDisplay, the display, for any number of    *)
(* programs, any panel and any calls of any arguments.                     *)
(***************************************************************************)
EXTENDS AicDio, AicDisplay, FiniteSetTheorems, TLAPS

\* A group that was set up is there, its pins are GPIO, its type pins are
\* outputs, and say what the program remembers.
SetUp == \A g \in mem.setup :
    /\ mem.known /\ g \in Groups12 /\ g \in chip.routed
    /\ TypeBits(g) \subseteq chip.out /\ PinType(chip, g) = mem.stat[g]

\* A group set up by EkDMCiInitDIO1 or 2 is one used as DIO, and stays so.
Promised == \A g \in mem.inited :
    /\ g \in mem.setup /\ g \notin flash.gpio /\ mem.stat[g] \in {{"sink"}, {"source"}}
    /\ Inputs(g) \cap chip.out = {} /\ Outputs(g) \subseteq chip.out

DioInv == DioTypeOK /\ mem.typed = mem.setup /\ SetUp /\ Promised

-----------------------------------------------------------------------------
(* The tables of pins.                                                     *)

Ins2 == {<<2, 3>>, <<3, 6>>, <<3, 7>>, <<5, 1>>, <<5, 2>>, <<5, 7>>, <<5, 6>>, <<1, 0>>}
Outs2 == {<<4, 4>>, <<5, 4>>, <<4, 3>>, <<4, 2>>, <<5, 3>>, <<4, 0>>, <<6, 1>>, <<6, 0>>}

LEMMA Table1 ==
    /\ Inputs(1) = {<<8, k>> : k \in 0..7}
    /\ Outputs(1) = {<<7, k>> : k \in 0..7}
    /\ \A k \in 0..7 : Bit(1, k) = <<8, k>> /\ Bit(1, k + 8) = <<7, k>>
<1>1. \A k \in 0..7 : Bit(1, k) = <<8, k>> /\ Bit(1, k + 8) = <<7, k>>
  BY DEF Bit, Group1
<1>2. \A k \in 8..15 : k - 8 \in 0..7 /\ k = (k - 8) + 8
  OBVIOUS
<1>3. \A k \in 0..7 : k + 8 \in 8..15
  OBVIOUS
<1>4. Inputs(1) = {Bit(1, k) : k \in 0..7} /\ Outputs(1) = {Bit(1, k) : k \in 8..15}
  BY DEF Inputs, Outputs, InputPins, OutputPins
<1>5. Outputs(1) = {<<7, k>> : k \in 0..7}
  <2>1. ASSUME NEW b \in Outputs(1) PROVE b \in {<<7, k>> : k \in 0..7}
    <3>1. PICK k \in 8..15 : b = Bit(1, k)
      BY <1>4
    <3>2. b = <<7, k - 8>>
      BY <1>1, <1>2, <3>1
    <3>3. QED BY <1>2, <3>2
  <2>2. ASSUME NEW k \in 0..7 PROVE <<7, k>> \in Outputs(1)
    BY <1>1, <1>3, <1>4
  <2>3. QED BY <2>1, <2>2
<1>6. QED BY <1>1, <1>4, <1>5

LEMMA Table2 == Inputs(2) = Ins2 /\ Outputs(2) = Outs2
<1>1. /\ Bit(2, 0) = <<2, 3>> /\ Bit(2, 1) = <<3, 6>> /\ Bit(2, 2) = <<3, 7>> /\ Bit(2, 3) = <<5, 1>>
      /\ Bit(2, 4) = <<5, 2>> /\ Bit(2, 5) = <<5, 7>> /\ Bit(2, 6) = <<5, 6>> /\ Bit(2, 7) = <<1, 0>>
  BY DEF Bit, Group2
<1>2. /\ Bit(2, 8) = <<4, 4>> /\ Bit(2, 9) = <<5, 4>> /\ Bit(2, 10) = <<4, 3>> /\ Bit(2, 11) = <<4, 2>>
      /\ Bit(2, 12) = <<5, 3>> /\ Bit(2, 13) = <<4, 0>> /\ Bit(2, 14) = <<6, 1>> /\ Bit(2, 15) = <<6, 0>>
  BY DEF Bit, Group2
<1>3. 0..7 = {0, 1, 2, 3, 4, 5, 6, 7} /\ 8..15 = {8, 9, 10, 11, 12, 13, 14, 15}
  OBVIOUS
<1>4. Inputs(2) = {Bit(2, k) : k \in 0..7} /\ Outputs(2) = {Bit(2, k) : k \in 8..15}
  BY DEF Inputs, Outputs, InputPins, OutputPins
<1>5. Inputs(2) = {Bit(2, 0), Bit(2, 1), Bit(2, 2), Bit(2, 3), Bit(2, 4), Bit(2, 5), Bit(2, 6), Bit(2, 7)}
  <2> HIDE DEF Bit
  <2>1. QED BY <1>3, <1>4
<1>6. Outputs(2) = {Bit(2, 8), Bit(2, 9), Bit(2, 10), Bit(2, 11), Bit(2, 12), Bit(2, 13), Bit(2, 14), Bit(2, 15)}
  <2> HIDE DEF Bit
  <2>1. QED BY <1>3, <1>4
<1>7. QED BY <1>1, <1>2, <1>5, <1>6 DEF Ins2, Outs2

\* The two pins of the type.
LEMMA TypePins ==
    ASSUME NEW g \in {1, 2}
    PROVE  /\ TypeBits(g) = {TypeBit(g, "sink"), TypeBit(g, "source")}
           /\ TypeBit(g, "sink") # TypeBit(g, "source")
           /\ TypeBits(g) \subseteq {<<6, 2>>, <<5, 5>>, <<1, 2>>, <<3, 0>>}
<1>1. TypeBits(g) = {TypeBit(g, "sink"), TypeBit(g, "source")}
  BY DEF TypeBits, Types
<1>2. CASE flash.v3c /\ g = 1
  BY <1>1, <1>2 DEF TypeBit
<1>3. CASE ~(flash.v3c /\ g = 1)
  BY <1>1, <1>3 DEF TypeBit
<1>4. QED BY <1>2, <1>3

LEMMA Pads ==
    /\ \A g \in {1, 2} : Terminals(g) \subseteq Bits /\ OwnBits(g) \subseteq Bits
    /\ <<4, 1>> \in Bits
<1>1. \A g \in {1, 2} : Terminals(g) \subseteq Bits
  BY DEF Bits
<1>2. {<<6, 2>>, <<5, 5>>, <<1, 2>>, <<3, 0>>, <<4, 1>>} \subseteq Bits
  BY DEF Bits
<1>3. \A g \in {1, 2} : TypeBits(g) \subseteq Bits
  BY <1>2, TypePins
<1>4. QED BY <1>1, <1>2, <1>3 DEF OwnBits

\* No two of the pins are the same.
LEMMA PinsApart ==
    ASSUME NEW g \in {1, 2}
    PROVE  /\ Inputs(g) \cap Outputs(g) = {}
           /\ Terminals(g) \cap TypeBits(g) = {}
           /\ <<4, 1>> \notin OwnBits(g)
<1>1. CASE g = 1
  <2>1. Inputs(1) \cap Outputs(1) = {}
    BY Table1
  <2>2. \A b \in Terminals(1) : b \notin {<<6, 2>>, <<5, 5>>, <<1, 2>>, <<3, 0>>, <<4, 1>>}
    BY Table1 DEF Terminals
  <2>3. QED BY <1>1, <2>1, <2>2, TypePins DEF OwnBits
<1>2. CASE g = 2
  <2>1. Ins2 \cap Outs2 = {}
    BY DEF Ins2, Outs2
  <2>2. \A b \in Ins2 \cup Outs2 : b \notin {<<6, 2>>, <<5, 5>>, <<1, 2>>, <<3, 0>>, <<4, 1>>}
    BY DEF Ins2, Outs2
  <2>3. QED BY <1>2, <2>1, <2>2, Table2, TypePins DEF OwnBits, Terminals
<1>3. QED BY <1>1, <1>2

\* Two groups share no pin; with the older AICs, which have one group, they
\* would share those of the type.
LEMMA GroupPinsApart ==
    ASSUME NEW g \in Groups12, NEW h \in Groups12, g # h
    PROVE  OwnBits(g) \cap OwnBits(h) = {}
<1>1. flash.v3c
  BY DEF Groups12
<1>2. TypeBits(1) = {<<6, 2>>, <<5, 5>>} /\ TypeBits(2) = {<<1, 2>>, <<3, 0>>}
  BY <1>1, TypePins DEF TypeBit
<1>3. \A b \in Ins2 \cup Outs2 : \A k \in 0..7 : b # <<8, k>> /\ b # <<7, k>>
  BY DEF Ins2, Outs2
<1>4. Terminals(1) \cap Terminals(2) = {}
  BY <1>3, Table1, Table2 DEF Terminals
<1>5. \A b \in Terminals(1) : b \notin TypeBits(2)
  BY <1>2, Table1 DEF Terminals
<1>6. \A b \in Ins2 \cup Outs2 : b \notin TypeBits(1)
  BY <1>2 DEF Ins2, Outs2
<1>7. TypeBits(1) \cap TypeBits(2) = {}
  BY <1>2
<1>8. OwnBits(1) \cap OwnBits(2) = {}
  BY <1>4, <1>5, <1>6, <1>7, Table2 DEF OwnBits, Terminals
<1>9. (g = 1 /\ h = 2) \/ (g = 2 /\ h = 1)
  BY DEF Groups12
<1>10. QED BY <1>8, <1>9

-----------------------------------------------------------------------------
(* What is written.                                                        *)

Chips == [routed : SUBSET {1, 2}, latch : SUBSET Bits, out : SUBSET Bits, level : SUBSET Bits]

\* A write changes latches alone, and of the outputs only the bits meant.
LEMMA Written ==
    ASSUME NEW h \in Chips, NEW on \in SUBSET Bits, NEW off \in SUBSET Bits
    PROVE  LET w == WriteBits(h, on, off)
           IN /\ w \in Chips
              /\ w.routed = h.routed /\ w.out = h.out /\ w.level = h.level
              /\ \A b \in on : b \in w.latch <=> b \notin off
              /\ \A b \in off : b \notin w.latch
              /\ \A b \in h.out : b \notin on \cup off => (b \in w.latch <=> b \in h.latch)
<1> DEFINE read(b) == (\E c \in on \cup off : c[1] = b[1]) /\ b \notin h.out
           new == (on \cup {b \in Bits : IF read(b) THEN b \in h.level ELSE b \in h.latch}) \ off
<1>1. WriteBits(h, on, off) = [h EXCEPT !.latch = new]
  BY DEF WriteBits, Chips
<1>2. \A b \in h.out : ~read(b)
  OBVIOUS
<1>3. new \subseteq Bits
  OBVIOUS
<1>4. /\ \A b \in on : b \in new <=> b \notin off
      /\ \A b \in off : b \notin new
  OBVIOUS
<1>5. \A b \in h.out : b \notin on \cup off => (b \in new <=> b \in h.latch)
  BY <1>2 DEF Chips
<1> HIDE DEF new
<1>6. QED BY <1>1, <1>3, <1>4, <1>5 DEF Chips

\* What a call does to the chip first: its pins are GPIO, those of the type
\* outputs, and nothing else is different.
Readied(g, h) ==
    /\ h \in Chips /\ h.latch = chip.latch /\ h.level = chip.level
    /\ h.routed = chip.routed \cup {g} /\ h.out = chip.out \cup TypeBits(g)

LEMMA PinsReady ==
    ASSUME DioInv, NEW g \in {1, 2}
    PROVE  Readied(g, Pins(g))
<1>1. chip \in Chips /\ mem.setup \subseteq {1, 2} /\ mem.typed = mem.setup
  BY DEF DioInv, DioTypeOK, Chips
<1>2. TypeBits(g) \subseteq Bits
  BY Pads DEF OwnBits
<1>3. g \in mem.setup => g \in chip.routed /\ TypeBits(g) \subseteq chip.out
  BY DEF DioInv, SetUp
<1>4. CASE g = 1
  BY <1>1, <1>2, <1>3, <1>4 DEF Pins, DIO1TypePinIO, SetupIO1Once, Readied, Chips
<1>5. CASE g = 2
  <2>1. Pins(2) = DIO2TypePinIO(SetupIO2Once(chip))
    BY DEF Pins
  <2>2. Readied(2, DIO2TypePinIO(SetupIO2Once(chip)))
    BY <1>1, <1>2, <1>3, <1>5 DEF DIO2TypePinIO, SetupIO2Once, Readied, Chips
  <2>3. QED BY <1>5, <2>1, <2>2
<1>6. QED BY <1>4, <1>5

\* The type written is the one the pins then have, and nothing else of the
\* other groups is different.
Switched(g, t, h) ==
    /\ h \in Chips /\ h.level = chip.level /\ h.routed = chip.routed \cup {g}
    /\ TypeBits(g) \subseteq h.out /\ PinType(h, g) = t
    /\ \A b \in Bits \ OwnBits(g) : b \in h.out <=> b \in chip.out
    /\ \A b \in chip.out \ OwnBits(g) : b \in h.latch <=> b \in chip.latch

LEMMA TypeWritten ==
    ASSUME NEW g \in {1, 2}, NEW h, Readied(g, h), NEW t \in SUBSET Types, chip \in Chips
    PROVE  /\ Switched(g, t, WriteType(h, g, t))
           /\ WriteType(h, g, t).out = h.out
<1> DEFINE on == {TypeBit(g, x) : x \in t \ PinType(h, g)}
           off == {TypeBit(g, x) : x \in PinType(h, g) \ t}
           w == WriteBits(h, on, off)
<1>1. WriteType(h, g, t) = w
  BY DEF WriteType
<1>2. PinType(h, g) \subseteq Types
  BY DEF PinType
<1>3. on \subseteq TypeBits(g) /\ off \subseteq TypeBits(g) /\ TypeBits(g) \subseteq OwnBits(g)
  BY <1>2 DEF TypeBits, OwnBits
<1>4. OwnBits(g) \subseteq Bits
  BY Pads
<1>5. h \in Chips
  BY DEF Readied
<1>6. /\ w \in Chips
      /\ w.routed = h.routed /\ w.out = h.out /\ w.level = h.level
      /\ \A b \in on : b \in w.latch <=> b \notin off
      /\ \A b \in off : b \notin w.latch
      /\ \A b \in h.out : b \notin on \cup off => (b \in w.latch <=> b \in h.latch)
  <2> HIDE DEF on, off
  <2>1. QED BY <1>3, <1>4, <1>5, Written
<1>7. \A x \in Types : TypeBit(g, x) \in h.out
  BY DEF Readied, TypeBits
<1>8. \A x, y \in Types : TypeBit(g, x) = TypeBit(g, y) => x = y
  BY TypePins DEF Types
<1>9. \A x \in Types : /\ TypeBit(g, x) \in on <=> x \in t \ PinType(h, g)
                       /\ TypeBit(g, x) \in off <=> x \in PinType(h, g) \ t
  BY <1>2, <1>8
<1>10. \A x \in Types : x \in PinType(h, g) <=> TypeBit(g, x) \in h.latch
  BY <1>7 DEF PinType, High
<1>11. \A x \in Types : x \in PinType(w, g) <=> TypeBit(g, x) \in w.latch
  <2> HIDE DEF w
  <2>1. QED BY <1>6, <1>7 DEF PinType, High
<1>12. PinType(w, g) \subseteq Types
  <2> HIDE DEF w
  <2>1. QED BY DEF PinType
<1> HIDE DEF w, on, off
<1>13. \A x \in Types : x \in PinType(w, g) <=> x \in t
  BY <1>6, <1>7, <1>9, <1>10, <1>11
<1>14. PinType(w, g) = t
  BY <1>12, <1>13
<1>15. QED BY <1>1, <1>3, <1>4, <1>6, <1>14 DEF Readied, Switched, Chips

\* The type of a group whose type pins are written by nobody stays.
LEMMA TypeKept ==
    ASSUME NEW g \in {1, 2}, NEW STATE c, NEW STATE h,
           TypeBits(g) \subseteq c.out, TypeBits(g) \subseteq h.out,
           \A b \in TypeBits(g) : b \in h.latch <=> b \in c.latch
    PROVE  PinType(h, g) = PinType(c, g)
<1>1. \A x \in Types : TypeBit(g, x) \in TypeBits(g)
  BY DEF TypeBits
<1>2. \A x \in Types : High(h, TypeBit(g, x)) <=> High(c, TypeBit(g, x))
  BY <1>1 DEF High
<1>3. QED BY <1>2 DEF PinType

\* The board does not change, and so neither do the tables.
LEMMA BoardFixed ==
    ASSUME flash' = flash, NEW g \in {1, 2}
    PROVE  /\ TypeBits(g)' = TypeBits(g) /\ Groups12' = Groups12
           /\ PinType(chip, g)' = PinType(chip', g)
  BY DEF TypeBits, TypeBit, Groups12, PinType

\* What the calls that set up leave of the other groups.
LEMMA OthersKept ==
    ASSUME DioInv, NEW g \in Groups12, NEW STATE t, NEW STATE h, Switched(g, t, h),
           NEW o \in mem.setup, o # g
    PROVE  /\ TypeBits(o) \subseteq h.out /\ PinType(h, o) = mem.stat[o] /\ o \in h.routed
           /\ Terminals(o) \cap h.out = Terminals(o) \cap chip.out
<1>1. o \in Groups12 /\ TypeBits(o) \subseteq chip.out /\ PinType(chip, o) = mem.stat[o] /\ o \in chip.routed
  BY DEF DioInv, SetUp
<1>2. o \in {1, 2} /\ g \in {1, 2}
  BY <1>1 DEF Groups12
<1>3. OwnBits(o) \cap OwnBits(g) = {} /\ OwnBits(o) \subseteq Bits
  BY <1>1, <1>2, GroupPinsApart, Pads
<1>4. TypeBits(o) \subseteq OwnBits(o) /\ Terminals(o) \subseteq OwnBits(o)
  BY DEF OwnBits
<1>5. /\ \A b \in OwnBits(o) : b \in h.out <=> b \in chip.out
      /\ \A b \in OwnBits(o) \cap chip.out : b \in h.latch <=> b \in chip.latch
  BY <1>3 DEF Switched
<1>6. TypeBits(o) \subseteq h.out /\ \A b \in TypeBits(o) : b \in h.latch <=> b \in chip.latch
  BY <1>1, <1>4, <1>5
<1>7. PinType(h, o) = PinType(chip, o)
  BY <1>1, <1>2, <1>6, TypeKept
<1>8. o \in h.routed
  BY <1>1 DEF Switched
<1>9. Terminals(o) \cap h.out = Terminals(o) \cap chip.out
  BY <1>4, <1>5
<1>10. QED BY <1>1, <1>6, <1>7, <1>8, <1>9

\* What GroupsApart says of a step.
Apart == \E g \in {1, 2} : LET others == (OwnBits(1) \cup OwnBits(2)) \ OwnBits(g) IN
    /\ others \cap chip'.out = others \cap chip.out
    /\ others \cap chip.out \cap chip'.latch = others \cap chip.out \cap chip.latch

Kept == DioInv' /\ Apart

\* A call that sets a group up keeps the invariant if it switches the group
\* as it remembers and, for DIO, drives the outputs and none of the inputs
\* that were not driven.
LEMMA SetupKeeps ==
    ASSUME DioInv, NEW g \in {1, 2}, NEW dio \in BOOLEAN, NEW init \in SUBSET {g},
           NEW STATE t, t \in SUBSET Types, NEW STATE h, Switched(g, t, h),
           SetupFor(g, dio, t, h, init),
           init # {} => dio /\ Inputs(g) \cap h.out = {},
           dio => /\ t \in {{"sink"}, {"source"}} /\ Outputs(g) \subseteq h.out
                  /\ Inputs(g) \cap chip.out = {} => Inputs(g) \cap h.out = {}
    PROVE  Kept
<1>1. flash' = flash /\ focus' = focus /\ chip' = h
  BY DEF SetupFor, Keep
<1>2. PICK m \in Counting :
        /\ Offered(m, g, ~dio)
        /\ mem' = [m EXCEPT !.setup = @ \cup {g}, !.typed = @ \cup {g}, !.stat[g] = t,
                             !.inited = @ \cup init]
  BY DEF SetupFor
<1>3. /\ mem \in [known : BOOLEAN, setup : SUBSET {1, 2}, typed : SUBSET {1, 2},
                   stat : [{1, 2} -> SUBSET Types], inited : SUBSET {1, 2}]
      /\ mem.typed = mem.setup
  BY DEF DioInv, DioTypeOK
<1>4. m = [mem EXCEPT !.known = m.known] /\ m.known \in BOOLEAN
  BY <1>3 DEF Counting
<1>5. m.known /\ g \in Groups12 /\ (dio <=> g \notin flash.gpio)
  BY <1>2 DEF Offered
<1>6. /\ mem'.known /\ mem'.setup = mem.setup \cup {g} /\ mem'.typed = mem.setup \cup {g}
      /\ mem'.stat = [mem.stat EXCEPT ![g] = t] /\ mem'.inited = mem.inited \cup init
      /\ mem' \in [known : BOOLEAN, setup : SUBSET {1, 2}, typed : SUBSET {1, 2},
                    stat : [{1, 2} -> SUBSET Types], inited : SUBSET {1, 2}]
  BY <1>2, <1>3, <1>4, <1>5
<1>7. DioTypeOK'
  BY <1>1, <1>6 DEF DioInv, DioTypeOK, Switched, Chips
<1>8. SetUp'
  <2> SUFFICES ASSUME NEW o \in mem'.setup
               PROVE  /\ mem'.known /\ o \in Groups12' /\ o \in chip'.routed
                      /\ TypeBits(o)' \subseteq chip'.out /\ PinType(chip, o)' = mem'.stat[o]
    BY DEF SetUp
  <2>1. o \in {1, 2}
    BY <1>3, <1>6
  <2>2. TypeBits(o)' = TypeBits(o) /\ Groups12' = Groups12 /\ PinType(chip, o)' = PinType(h, o)
    BY <1>1, <2>1, BoardFixed
  <2>3. CASE o = g
    BY <1>1, <1>3, <1>5, <1>6, <2>2, <2>3 DEF Switched
  <2>4. CASE o # g
    <3>1. o \in mem.setup
      BY <1>6, <2>4
    <3>2. TypeBits(o) \subseteq h.out /\ PinType(h, o) = mem.stat[o] /\ o \in h.routed
      BY <1>5, <2>4, <3>1, OthersKept
    <3>3. o \in Groups12 /\ mem'.stat[o] = mem.stat[o]
      BY <1>3, <1>6, <2>1, <2>4, <3>1 DEF DioInv, SetUp
    <3>4. QED BY <1>1, <1>6, <2>2, <3>2, <3>3
  <2>5. QED BY <2>3, <2>4
<1>9. Promised'
  <2> SUFFICES ASSUME NEW o \in mem'.inited
               PROVE  /\ o \in mem'.setup /\ o \notin flash.gpio /\ mem'.stat[o] \in {{"sink"}, {"source"}}
                      /\ Inputs(o) \cap h.out = {} /\ Outputs(o) \subseteq h.out
    BY <1>1 DEF Promised, Inputs, Outputs
  <2>1. o \in mem.inited => /\ o \in mem.setup /\ o \notin flash.gpio /\ mem.stat[o] \in {{"sink"}, {"source"}}
                            /\ Inputs(o) \cap chip.out = {} /\ Outputs(o) \subseteq chip.out
    BY DEF DioInv, Promised
  <2>2. CASE o = g
    <3>1. dio /\ Inputs(o) \cap h.out = {}
      BY <1>5, <1>6, <2>1, <2>2
    <3>2. QED BY <1>3, <1>5, <1>6, <2>2, <3>1
  <2>3. CASE o # g
    <3>1. o \in mem.inited /\ o \in {1, 2}
      BY <1>3, <1>6, <2>3
    <3>2. Terminals(o) \cap h.out = Terminals(o) \cap chip.out
      BY <1>5, <2>1, <2>3, <3>1, OthersKept
    <3>3. mem'.stat[o] = mem.stat[o]
      BY <1>3, <1>6, <2>3, <3>1
    <3>4. QED BY <1>6, <2>1, <3>1, <3>2, <3>3 DEF Terminals
  <2>4. QED BY <2>2, <2>3
<1>10. DioInv'
  BY <1>6, <1>7, <1>8, <1>9 DEF DioInv
<1>11. Apart
  BY <1>1, Pads DEF Apart, Switched
<1>12. QED BY <1>10, <1>11 DEF Kept

\* The directions of a group's terminals are nothing to its type.
LEMMA Directed ==
    ASSUME NEW g \in {1, 2}, NEW STATE t, NEW STATE h, Switched(g, t, h),
           NEW STATE new, new \in SUBSET Bits,
           \A b \in Bits \ Terminals(g) : b \in new <=> b \in h.out
    PROVE  Switched(g, t, [h EXCEPT !.out = new])
<1> DEFINE k == [h EXCEPT !.out = new]
<1>1. k \in Chips /\ k.out = new /\ k.latch = h.latch /\ k.level = h.level /\ k.routed = h.routed
  BY DEF Switched, Chips
<1>2. TypeBits(g) \cap Terminals(g) = {} /\ TypeBits(g) \subseteq OwnBits(g) /\ OwnBits(g) \subseteq Bits
  BY PinsApart, Pads DEF OwnBits
<1>3. TypeBits(g) \subseteq k.out
  BY <1>1, <1>2 DEF Switched
<1> HIDE DEF k
<1>4. PinType(k, g) = t
  BY <1>1, <1>3, TypeKept DEF Switched
<1>5. \A b \in Bits \ OwnBits(g) : b \in k.out <=> b \in chip.out
  BY <1>1 DEF Switched, OwnBits
<1>6. Switched(g, t, k)
  BY <1>1, <1>3, <1>4, <1>5 DEF Switched
<1>7. QED BY <1>6 DEF k

\* The type found or chosen.
LEMMA TypeChosen ==
    /\ DIO1TypePinEn(TRUE) \in {{"sink"}, {"source"}} /\ DIO2TypePinEn(TRUE) \in {{"sink"}, {"source"}}
    /\ DIO1TypePinEn(FALSE) = {} /\ DIO2TypePinEn(FALSE) = {}
  BY DEF DIO1TypePinEn, DIO2TypePinEn

\* The calls of both groups that set up as DIO.
LEMMA DioCalls ==
    ASSUME DioInv, NEW g \in {1, 2}, NEW init \in SUBSET {g},
           NEW STATE t, t \in {{"sink"}, {"source"}}, NEW STATE h,
           h = [WriteType(Pins(g), g, t) EXCEPT !.out = (@ \ (IF init = {} THEN {} ELSE Inputs(g))) \cup Outputs(g)],
           SetupFor(g, TRUE, t, h, init)
    PROVE  Kept
<1> DEFINE w == WriteType(Pins(g), g, t)
           new == (w.out \ (IF init = {} THEN {} ELSE Inputs(g))) \cup Outputs(g)
<1>1. chip \in Chips /\ t \in SUBSET Types
  BY DEF DioInv, DioTypeOK, Chips, Types
<1>2. Readied(g, Pins(g))
  BY PinsReady
<1>3. Switched(g, t, w) /\ w.out = Pins(g).out
  BY <1>1, <1>2, TypeWritten
<1>4. w.out = chip.out \cup TypeBits(g) /\ w \in Chips
  BY <1>2, <1>3 DEF Readied, Switched
<1>5. h = [w EXCEPT !.out = new]
  BY <1>4 DEF Chips
<1>6. Terminals(g) \subseteq Bits /\ Inputs(g) \subseteq Terminals(g) /\ Outputs(g) \subseteq Terminals(g)
  BY Pads DEF Terminals
<1>7. new \in SUBSET Bits /\ \A b \in Bits \ Terminals(g) : b \in new <=> b \in w.out
  BY <1>4, <1>6 DEF Chips
<1>8. Outputs(g) \subseteq new
  OBVIOUS
<1>9. Inputs(g) \cap new \subseteq Inputs(g) \cap chip.out /\ (init # {} => Inputs(g) \cap new = {})
  BY <1>4, <1>6, PinsApart
<1> HIDE DEF w, new
<1>10. Switched(g, t, h) /\ h.out = new
  <2>1. Switched(g, t, [w EXCEPT !.out = new])
    BY <1>3, <1>7, Directed
  <2>2. h.out = new
    BY <1>4, <1>5 DEF Chips
  <2>3. QED BY <1>5, <2>1, <2>2
<1>11. QED BY <1>1, <1>8, <1>9, <1>10, SetupKeeps

\* The calls of both groups that set up as GPIO.
LEMMA GpioCalls ==
    ASSUME DioInv, NEW g \in {1, 2}, NEW STATE out, NEW STATE in,
           out \subseteq Terminals(g), in \subseteq Terminals(g), NEW STATE h,
           h = [WriteType(Pins(g), g, {}) EXCEPT !.out = (@ \cup out) \ in],
           SetupFor(g, FALSE, {}, h, {})
    PROVE  Kept
<1> DEFINE w == WriteType(Pins(g), g, {})
           new == (w.out \cup out) \ in
<1>1. chip \in Chips
  BY DEF DioInv, DioTypeOK, Chips
<1>2. Readied(g, Pins(g))
  BY PinsReady
<1>3. Switched(g, {}, w)
  BY <1>1, <1>2, TypeWritten
<1>4. w \in Chips
  BY <1>3 DEF Switched
<1>5. h = [w EXCEPT !.out = new]
  BY <1>4 DEF Chips
<1>6. new \in SUBSET Bits /\ \A b \in Bits \ Terminals(g) : b \in new <=> b \in w.out
  BY <1>4, Pads DEF Chips
<1> HIDE DEF w, new
<1>7. Switched(g, {}, h)
  BY <1>3, <1>5, <1>6, Directed
<1> DEFINE none == {}
<1> HIDE DEF none
<1>8. none \in SUBSET Types /\ Switched(g, none, h) /\ SetupFor(g, FALSE, none, h, {})
  BY <1>7 DEF none
<1>9. QED BY <1>8, SetupKeeps

\* The pins the calls of single terminals and words of a group may write.
Driven(g) == Terminals(g) \cup {<<4, 1>>}

\* Terminals driven are nothing to the type of any group.
LEMMA DriveKeeps ==
    ASSUME DioInv, NEW g \in Groups12, NEW STATE on, NEW STATE off,
           on \cup off \subseteq Driven(g), mem' \in Counting, Drive(on, off)
    PROVE  Kept
<1>1. chip \in Chips /\ g \in {1, 2}
  BY DEF DioInv, DioTypeOK, Chips, Groups12
<1>2. on \in SUBSET Bits /\ off \in SUBSET Bits
  BY <1>1, Pads DEF Driven
<1>3. flash' = flash /\ focus' = focus /\ chip' = WriteBits(chip, on, off)
  BY DEF Drive, Keep
<1>4. /\ chip' \in Chips /\ chip'.routed = chip.routed /\ chip'.out = chip.out
      /\ \A b \in chip.out : b \notin on \cup off => (b \in chip'.latch <=> b \in chip.latch)
  <2> DEFINE w == WriteBits(chip, on, off)
  <2>1. /\ w \in Chips /\ w.routed = chip.routed /\ w.out = chip.out
        /\ \A b \in chip.out : b \notin on \cup off => (b \in w.latch <=> b \in chip.latch)
    BY <1>1, <1>2, Written
  <2>2. chip' = w
    BY <1>3
  <2> HIDE DEF w
  <2>3. QED BY <2>1, <2>2
<1>5. /\ mem \in [known : BOOLEAN, setup : SUBSET {1, 2}, typed : SUBSET {1, 2},
                   stat : [{1, 2} -> SUBSET Types], inited : SUBSET {1, 2}]
      /\ mem.typed = mem.setup
  BY DEF DioInv, DioTypeOK
<1>6. /\ mem' \in [known : BOOLEAN, setup : SUBSET {1, 2}, typed : SUBSET {1, 2},
                    stat : [{1, 2} -> SUBSET Types], inited : SUBSET {1, 2}]
      /\ mem'.setup = mem.setup /\ mem'.typed = mem.typed /\ mem'.stat = mem.stat
      /\ mem'.inited = mem.inited /\ (mem.known => mem'.known)
  BY <1>5 DEF Counting
<1>7. DioTypeOK'
  BY <1>3, <1>4, <1>6 DEF DioInv, DioTypeOK, Chips
<1>8. SetUp'
  <2> SUFFICES ASSUME NEW o \in mem.setup
               PROVE  /\ mem'.known /\ o \in Groups12' /\ o \in chip'.routed
                      /\ TypeBits(o)' \subseteq chip'.out /\ PinType(chip, o)' = mem'.stat[o]
    BY <1>6 DEF SetUp
  <2>1. o \in {1, 2} /\ mem.known /\ o \in Groups12 /\ o \in chip.routed /\ TypeBits(o) \subseteq chip.out
        /\ PinType(chip, o) = mem.stat[o]
    BY <1>5 DEF DioInv, SetUp
  <2>2. TypeBits(o)' = TypeBits(o) /\ Groups12' = Groups12 /\ PinType(chip, o)' = PinType(chip', o)
    BY <1>3, <2>1, BoardFixed
  <2>3. TypeBits(o) \cap Driven(g) = {}
    <3>1. TypeBits(o) \cap Terminals(g) = {}
      <4>1. CASE o = g
        BY <1>1, <4>1, PinsApart
      <4>2. CASE o # g
        BY <2>1, <4>2, GroupPinsApart DEF OwnBits
      <4>3. QED BY <4>1, <4>2
    <3>2. QED BY <2>1, <3>1, PinsApart DEF Driven, OwnBits
  <2>4. \A b \in TypeBits(o) : b \in chip'.latch <=> b \in chip.latch
    BY <1>4, <2>1, <2>3
  <2>5. PinType(chip', o) = PinType(chip, o)
    <3> DEFINE now == chip'
    <3>1. TypeBits(o) \subseteq now.out /\ \A b \in TypeBits(o) : b \in now.latch <=> b \in chip.latch
      BY <1>4, <2>1, <2>4
    <3> HIDE DEF now
    <3>2. \A x \in Types : TypeBit(o, x) \in TypeBits(o)
      BY DEF TypeBits
    <3>3. PinType(now, o) = PinType(chip, o)
      BY <2>1, <3>1, <3>2 DEF PinType, High
    <3>4. QED BY <3>3 DEF now
  <2>6. QED BY <1>4, <1>6, <2>1, <2>2, <2>5
<1>9. Promised'
  BY <1>3, <1>4, <1>6 DEF DioInv, Promised, Inputs, Outputs
<1>10. DioInv'
  BY <1>5, <1>6, <1>7, <1>8, <1>9 DEF DioInv
<1>11. Apart
  <2>1. (on \cup off) \cap ((OwnBits(1) \cup OwnBits(2)) \ OwnBits(g)) = {}
    BY PinsApart DEF Driven, OwnBits
  <2>2. QED BY <1>1, <1>4, <2>1 DEF Apart
<1>12. QED BY <1>10, <1>11 DEF Kept

\* A program that only looks, or is refused.
LEMMA LookKeeps ==
    ASSUME DioInv, flash' = flash, focus' = focus,
           chip' \in Chips, chip'.out = chip.out, chip'.latch = chip.latch, chip'.routed = chip.routed,
           mem' \in Counting
    PROVE  Kept
<1>1. /\ mem \in [known : BOOLEAN, setup : SUBSET {1, 2}, typed : SUBSET {1, 2},
                   stat : [{1, 2} -> SUBSET Types], inited : SUBSET {1, 2}]
      /\ mem.typed = mem.setup
  BY DEF DioInv, DioTypeOK
<1>2. /\ mem' \in [known : BOOLEAN, setup : SUBSET {1, 2}, typed : SUBSET {1, 2},
                    stat : [{1, 2} -> SUBSET Types], inited : SUBSET {1, 2}]
      /\ mem'.setup = mem.setup /\ mem'.typed = mem.typed /\ mem'.stat = mem.stat
      /\ mem'.inited = mem.inited /\ (mem.known => mem'.known)
  BY <1>1 DEF Counting
<1>3. DioTypeOK'
  BY <1>2 DEF DioInv, DioTypeOK, Chips
<1>4. SetUp'
  <2> SUFFICES ASSUME NEW o \in mem.setup
               PROVE  /\ mem'.known /\ o \in Groups12' /\ o \in chip'.routed
                      /\ TypeBits(o)' \subseteq chip'.out /\ PinType(chip, o)' = mem'.stat[o]
    BY <1>2 DEF SetUp
  <2>1. o \in {1, 2} /\ mem.known /\ o \in Groups12 /\ o \in chip.routed /\ TypeBits(o) \subseteq chip.out
        /\ PinType(chip, o) = mem.stat[o]
    BY <1>1 DEF DioInv, SetUp
  <2>2. TypeBits(o)' = TypeBits(o) /\ Groups12' = Groups12 /\ PinType(chip, o)' = PinType(chip', o)
    BY <2>1, BoardFixed
  <2>3. \A x \in Types : TypeBit(o, x) \in chip.out
    BY <2>1 DEF TypeBits
  <2>4. PinType(chip', o) = PinType(chip, o)
    BY <2>3 DEF PinType, High
  <2>5. QED BY <1>2, <2>1, <2>2, <2>4
<1>5. Promised'
  BY <1>2 DEF DioInv, Promised, Inputs, Outputs
<1>6. DioInv'
  BY <1>1, <1>2, <1>3, <1>4, <1>5 DEF DioInv
<1>7. QED BY <1>6 DEF Kept, Apart

LEMMA TerminalPins ==
    /\ \A g \in {1, 2}, k \in 0..15 : Bit(g, k) \in Terminals(g)
    /\ \A g \in {1, 2}, k \in 0..7 : Bit(g, k + 8) \in Outputs(g)
    /\ \A k \in 0..7 : DO2Bit(k) \in Driven(2)
<1>1. \A g \in {1, 2}, k \in 0..15 : Bit(g, k) \in Terminals(g)
  <2> TAKE g \in {1, 2}, k \in 0..15
  <2>1. k \in 0..7 \/ k \in 8..15
    OBVIOUS
  <2>2. QED BY <2>1 DEF Terminals, Inputs, Outputs, InputPins, OutputPins
<1>2. \A g \in {1, 2}, k \in 0..7 : Bit(g, k + 8) \in Outputs(g)
  <2> TAKE g \in {1, 2}, k \in 0..7
  <2>1. k + 8 \in 8..15
    OBVIOUS
  <2> DEFINE n == k + 8
  <2> HIDE DEF n
  <2>2. n \in 8..15
    BY <2>1 DEF n
  <2>3. Bit(g, n) \in Outputs(g)
    BY <2>2 DEF Outputs, OutputPins
  <2>4. QED BY <2>3 DEF n
<1>3. \A k \in 0..7 : DO2Bit(k) \in Driven(2)
  BY <1>2 DEF DO2Bit, Driven, Terminals
<1>4. QED BY <1>1, <1>2, <1>3

\* Every call of the outputs and the types keeps the invariant.
LEMMA DIOKeeps == ASSUME DioInv, DIONext PROVE Kept
<1> DEFINE w1(t) == WriteType(Pins(1), 1, t)
           w2(t) == WriteType(Pins(2), 2, t)
           d1 == DIO1TypePinEn(TRUE)
           d2 == DIO2TypePinEn(TRUE)
<1>0. chip \in Chips
  BY DEF DioInv, DioTypeOK, Chips
<1>1. \A t \in {{"sink"}, {"source"}} : w1(t) \in Chips /\ w2(t) \in Chips
  <2> TAKE t \in {{"sink"}, {"source"}}
  <2>1. t \in SUBSET Types
    BY DEF Types
  <2>2. Readied(1, Pins(1)) /\ Readied(2, Pins(2))
    BY PinsReady
  <2>3. QED BY <1>0, <2>1, <2>2, TypeWritten DEF Switched
<1>2. d1 \in {{"sink"}, {"source"}} /\ d2 \in {{"sink"}, {"source"}}
  BY TypeChosen
<1>3. \A w \in Chips :
        /\ SetupDO1(SetupDI1(w)) = [w EXCEPT !.out = (@ \ Inputs(1)) \cup Outputs(1)]
        /\ SetupDO2(SetupDI2(w)) = [w EXCEPT !.out = (@ \ Inputs(2)) \cup Outputs(2)]
        /\ SetupDO1(w) = [w EXCEPT !.out = (@ \ {}) \cup Outputs(1)]
        /\ SetupDO2(w) = [w EXCEPT !.out = (@ \ {}) \cup Outputs(2)]
  BY DEF Chips, SetupDI1, SetupDO1, SetupDI2, SetupDO2
<1>4. CASE InitDIO1
  <2>1. SetupFor(1, TRUE, d1, SetupDO1(SetupDI1(w1(d1))), {1})
    BY <1>4 DEF InitDIO1
  <2> DEFINE init == {1}
             h == [w1(d1) EXCEPT !.out = (@ \ (IF init = {} THEN {} ELSE Inputs(1))) \cup Outputs(1)]
  <2>2. SetupDO1(SetupDI1(w1(d1))) = h
    BY <1>1, <1>2, <1>3
  <2> HIDE DEF h
  <2>3. SetupFor(1, TRUE, d1, h, init) /\ init \in SUBSET {1}
    BY <2>1, <2>2
  <2> HIDE DEF init
  <2>4. h = [WriteType(Pins(1), 1, d1) EXCEPT !.out = (@ \ (IF init = {} THEN {} ELSE Inputs(1))) \cup Outputs(1)]
    BY DEF h
  <2>5. d1 \in {{"sink"}, {"source"}}
    BY <1>2
  <2> HIDE DEF d1
  <2>6. QED BY <2>3, <2>4, <2>5, DioCalls
<1>5. CASE InitDIO2
  <2>1. SetupFor(2, TRUE, d2, SetupDO2(SetupDI2(w2(d2))), {2})
    BY <1>5 DEF InitDIO2
  <2> DEFINE init == {2}
             h == [w2(d2) EXCEPT !.out = (@ \ (IF init = {} THEN {} ELSE Inputs(2))) \cup Outputs(2)]
  <2>2. SetupDO2(SetupDI2(w2(d2))) = h
    BY <1>1, <1>2, <1>3
  <2> HIDE DEF h
  <2>3. SetupFor(2, TRUE, d2, h, init) /\ init \in SUBSET {2}
    BY <2>1, <2>2
  <2> HIDE DEF init
  <2>4. h = [WriteType(Pins(2), 2, d2) EXCEPT !.out = (@ \ (IF init = {} THEN {} ELSE Inputs(2))) \cup Outputs(2)]
    BY DEF h
  <2>5. d2 \in {{"sink"}, {"source"}}
    BY <1>2
  <2> HIDE DEF d2
  <2>6. QED BY <2>3, <2>4, <2>5, DioCalls
<1>6. ASSUME NEW STATE t, t \in {{"sink"}, {"source"}}, SetupFor(1, TRUE, t, SetupDO1(w1(t)), {})
      PROVE Kept
  <2> DEFINE h == [w1(t) EXCEPT !.out = (@ \ (IF {} = {} THEN {} ELSE Inputs(1))) \cup Outputs(1)]
  <2>1. SetupDO1(w1(t)) = h
    BY <1>1, <1>3, <1>6
  <2> HIDE DEF h
  <2>2. SetupFor(1, TRUE, t, h, {})
    BY <1>6, <2>1
  <2>3. QED BY <1>6, <2>2, DioCalls DEF h
<1>7. ASSUME NEW STATE t, t \in {{"sink"}, {"source"}}, SetupFor(2, TRUE, t, SetupDO2(w2(t)), {})
      PROVE Kept
  <2> DEFINE h == [w2(t) EXCEPT !.out = (@ \ (IF {} = {} THEN {} ELSE Inputs(2))) \cup Outputs(2)]
  <2>1. SetupDO2(w2(t)) = h
    BY <1>1, <1>3, <1>7
  <2> HIDE DEF h
  <2>2. SetupFor(2, TRUE, t, h, {})
    BY <1>7, <2>1
  <2>3. QED BY <1>7, <2>2, DioCalls DEF h
<1>8. CASE GetDO1Type
  BY <1>2, <1>6, <1>8 DEF GetDO1Type, Setup
<1>9. CASE GetDO2Type
  BY <1>2, <1>7, <1>9 DEF GetDO2Type, Setup
<1>10. ASSUME NEW t \in Types, SetDO1Type(t) PROVE Kept
  <2>1. {t} \in {{"sink"}, {"source"}}
    BY DEF Types
  <2>2. SetupFor(1, TRUE, {t}, SetupDO1(w1({t})), {})
    BY <1>10 DEF SetDO1Type, SetDIO1Type, Setup
  <2>3. QED BY <1>6, <2>1, <2>2
<1>11. ASSUME NEW t \in Types, SetDO2Type(t) PROVE Kept
  <2>1. {t} \in {{"sink"}, {"source"}}
    BY DEF Types
  <2>2. SetupFor(2, TRUE, {t}, SetupDO2(w2({t})), {})
    BY <1>11 DEF SetDO2Type, SetDIO2Type, Setup
  <2>3. QED BY <1>7, <2>1, <2>2
<1>12. ASSUME NEW g \in {1, 2}, NEW on, NEW off, on \cup off \subseteq Driven(g), Drive(on, off),
              \E m \in Counting : DOReady(m, g) /\ mem' = m
       PROVE Kept
  BY <1>12, DriveKeeps DEF DOReady, DIReady, Offered
<1>13. ASSUME NEW v \in BOOLEAN, NEW k \in 0..7, SetDO1Pin(k, v) PROVE Kept
  <2>1. On(Bit(1, k + 8), v) \cup On(Bit(1, k + 8), ~v) \subseteq Driven(1)
    BY TerminalPins DEF On, Driven, Terminals
  <2> DEFINE on == On(Bit(1, k + 8), v)
             off == On(Bit(1, k + 8), ~v)
  <2>2. Drive(on, off) /\ \E m \in Counting : DOReady(m, 1) /\ mem' = m
    BY <1>13 DEF SetDO1Pin
  <2> HIDE DEF on, off
  <2>3. on \cup off \subseteq Driven(1)
    BY <2>1 DEF on, off
  <2>4. QED BY <1>12, <2>2, <2>3
<1>14. ASSUME NEW v \in BOOLEAN, NEW k \in 0..7, SetDO2Pin(k, v) PROVE Kept
  <2>1. On(DO2Bit(k), v) \cup On(DO2Bit(k), ~v) \subseteq Driven(2)
    BY TerminalPins DEF On
  <2> DEFINE on == On(DO2Bit(k), v)
             off == On(DO2Bit(k), ~v)
  <2>2. Drive(on, off) /\ \E m \in Counting : DOReady(m, 2) /\ mem' = m
    BY <1>14 DEF SetDO2Pin
  <2> HIDE DEF on, off
  <2>3. on \cup off \subseteq Driven(2)
    BY <2>1 DEF on, off
  <2>4. QED BY <1>12, <2>2, <2>3
<1>15. ASSUME NEW word \in SUBSET (0..7), SetDO1(word) PROVE Kept
  <2> DEFINE on == {Bit(1, k + 8) : k \in word}
             off == Outputs(1) \ on
  <2>1. on \cup off \subseteq Driven(1)
    BY TerminalPins DEF Driven, Terminals
  <2>2. Drive(on, off) /\ \E m \in Counting : DOReady(m, 1) /\ mem' = m
    BY <1>15 DEF SetDO1
  <2> HIDE DEF on, off
  <2>3. QED BY <1>12, <2>1, <2>2
<1>16. ASSUME NEW word \in SUBSET (0..7), SetDO2(word) PROVE Kept
  <2> DEFINE on == {Bit(2, k + 8) : k \in word}
             off == Outputs(2) \ on
  <2>1. on \cup off \subseteq Driven(2)
    BY TerminalPins DEF Driven, Terminals
  <2>2. Drive(on, off) /\ \E m \in Counting : DOReady(m, 2) /\ mem' = m
    BY <1>16 DEF SetDO2
  <2> HIDE DEF on, off
  <2>3. QED BY <1>12, <2>1, <2>2
<1>17. \A g \in {1, 2} : Words(g, 0..7) \subseteq SUBSET (0..7)
  BY DEF Words
<1>18. QED BY <1>4, <1>5, <1>8, <1>9, <1>10, <1>11, <1>13, <1>14, <1>15, <1>16, <1>17 DEF DIONext

\* A call for directions, for any of the terminals of the group.
LEMMA DirectKeeps ==
    ASSUME DioInv, NEW g \in {1, 2}, NEW STATE out, NEW STATE in,
           out \subseteq Terminals(g), in \subseteq Terminals(g), Direct(g, out, in)
    PROVE  Kept
<1> DEFINE h == [WriteType(Pins(g), g, {}) EXCEPT !.out = (@ \cup out) \ in]
<1>1. SetupFor(g, FALSE, {}, h, {})
  BY DEF Direct, Setup
<1>2. h = [WriteType(Pins(g), g, {}) EXCEPT !.out = (@ \cup out) \ in]
  OBVIOUS
<1> HIDE DEF h
<1>3. QED BY <1>1, <1>2, GpioCalls

\* Every call of the groups used as GPIO keeps the invariant.
LEMMA GPIOKeeps == ASSUME DioInv, GPIONext PROVE Kept
<1>1. ASSUME InitGPIO1 \/ GetGPIO1Config \/ GetGPIO1ConfigPin PROVE Kept
  <2>1. WriteType(Pins(1), 1, {}) \in Chips
    BY PinsReady, TypeWritten DEF DioInv, DioTypeOK, Chips, Switched
  <2>2. Direct(1, {}, {}) <=> Setup(1, FALSE, {}, [WriteType(Pins(1), 1, {}) EXCEPT !.out = (@ \cup {}) \ {}])
    BY DEF Direct
  <2>3. [WriteType(Pins(1), 1, {}) EXCEPT !.out = (@ \cup {}) \ {}] = WriteType(Pins(1), 1, {})
    BY <2>1 DEF Chips
  <2>4. Direct(1, {}, {})
    BY <1>1, <2>2, <2>3, TypeChosen DEF InitGPIO1, GetGPIO1Config, GetGPIO1ConfigPin
  <2> DEFINE none == {}
  <2>5. Direct(1, none, none) /\ none \subseteq Terminals(1)
    BY <2>4
  <2> HIDE DEF none
  <2>6. QED BY <2>5, DirectKeeps
<1>2. ASSUME InitGPIO2 \/ GetGPIO2Config \/ GetGPIO2ConfigPin PROVE Kept
  <2>1. WriteType(Pins(2), 2, {}) \in Chips
    BY PinsReady, TypeWritten DEF DioInv, DioTypeOK, Chips, Switched
  <2>2. Direct(2, {}, {}) <=> Setup(2, FALSE, {}, [WriteType(Pins(2), 2, {}) EXCEPT !.out = (@ \cup {}) \ {}])
    BY DEF Direct
  <2>3. [WriteType(Pins(2), 2, {}) EXCEPT !.out = (@ \cup {}) \ {}] = WriteType(Pins(2), 2, {})
    BY <2>1 DEF Chips
  <2>4. Direct(2, {}, {})
    BY <1>2, <2>2, <2>3, TypeChosen DEF InitGPIO2, GetGPIO2Config, GetGPIO2ConfigPin
  <2> DEFINE none == {}
  <2>5. Direct(2, none, none) /\ none \subseteq Terminals(2)
    BY <2>4
  <2> HIDE DEF none
  <2>6. QED BY <2>5, DirectKeeps
<1>3. ASSUME NEW g \in {1, 2}, NEW k \in 0..15, NEW v \in BOOLEAN,
             Direct(g, On(Bit(g, k), v), On(Bit(g, k), ~v))
      PROVE Kept
  <2> DEFINE on == On(Bit(g, k), v)
             off == On(Bit(g, k), ~v)
  <2>1. on \subseteq Terminals(g) /\ off \subseteq Terminals(g)
    <3>1. Bit(g, k) \in Terminals(g)
      BY TerminalPins
    <3>2. on \subseteq {Bit(g, k)} /\ off \subseteq {Bit(g, k)}
      BY DEF On
    <3>3. QED BY <3>1, <3>2
  <2>2. Direct(g, on, off)
    BY <1>3
  <2> HIDE DEF on, off
  <2>3. QED BY <2>1, <2>2, DirectKeeps
<1>4. ASSUME NEW g \in {1, 2}, NEW word \in SUBSET (0..15),
             LET out == {Bit(g, k) : k \in word} IN Direct(g, out, Terminals(g) \ out)
      PROVE Kept
  <2> DEFINE out == {Bit(g, k) : k \in word}
             in == Terminals(g) \ out
  <2>1. out \subseteq Terminals(g) /\ in \subseteq Terminals(g)
    BY TerminalPins
  <2>2. Direct(g, out, in)
    BY <1>4
  <2> HIDE DEF out, in
  <2>3. QED BY <2>1, <2>2, DirectKeeps
<1>5. ASSUME NEW g \in {1, 2}, NEW m \in Counting, Offered(m, g, TRUE), mem' = m,
             NEW STATE on, NEW STATE off, on \cup off \subseteq Terminals(g), Drive(on, off)
      PROVE Kept
  <2>1. g \in Groups12 /\ mem' \in Counting /\ on \cup off \subseteq Driven(g)
    BY <1>5 DEF Offered, Driven
  <2>2. QED BY <1>5, <2>1, DriveKeeps
<1>6. ASSUME NEW g \in {1, 2}, NEW m \in Counting, Offered(m, g, TRUE), mem' = m,
             NEW k \in 0..15, NEW v \in BOOLEAN, Drive(On(Bit(g, k), v), On(Bit(g, k), ~v))
      PROVE Kept
  <2> DEFINE on == On(Bit(g, k), v)
             off == On(Bit(g, k), ~v)
  <2>1. on \cup off \subseteq Terminals(g)
    <3>1. Bit(g, k) \in Terminals(g)
      BY TerminalPins
    <3>2. on \subseteq {Bit(g, k)} /\ off \subseteq {Bit(g, k)}
      BY DEF On
    <3>3. QED BY <3>1, <3>2
  <2>2. Drive(on, off)
    BY <1>6
  <2> HIDE DEF on, off
  <2>3. QED BY <1>5, <1>6, <2>1, <2>2
<1>7. ASSUME NEW g \in {1, 2}, NEW m \in Counting, Offered(m, g, TRUE), mem' = m,
             NEW word \in SUBSET (0..15),
             LET on == {Bit(g, k) : k \in word} IN Drive(on, Terminals(g) \ on)
      PROVE Kept
  <2> DEFINE on == {Bit(g, k) : k \in word}
             off == Terminals(g) \ on
  <2>1. on \cup off \subseteq Terminals(g)
    BY TerminalPins
  <2>2. Drive(on, off)
    BY <1>7
  <2> HIDE DEF on, off
  <2>3. QED BY <1>5, <1>7, <2>1, <2>2
<1>8. ASSUME NEW k \in 0..15, NEW v \in BOOLEAN,
             SetGPIO1ConfigPin(k, v) \/ SetGPIO2ConfigPin(k, v) \/ SetGPIO1Pin(k, v) \/ SetGPIO2Pin(k, v)
      PROVE Kept
  <2>1. CASE SetGPIO1ConfigPin(k, v)
    BY <1>3, <2>1 DEF SetGPIO1ConfigPin
  <2>2. CASE SetGPIO2ConfigPin(k, v)
    BY <1>3, <2>2 DEF SetGPIO2ConfigPin
  <2>3. CASE SetGPIO1Pin(k, v)
    BY <1>6, <2>3 DEF SetGPIO1Pin, GPIOReady
  <2>4. CASE SetGPIO2Pin(k, v)
    BY <1>6, <2>4 DEF SetGPIO2Pin
  <2>5. QED BY <1>8, <2>1, <2>2, <2>3, <2>4
<1>9. ASSUME NEW word \in SUBSET (0..15),
             SetGPIO1Config(word) \/ SetGPIO2Config(word) \/ SetGPIO1(word) \/ SetGPIO2(word)
      PROVE Kept
  <2>1. CASE SetGPIO1Config(word)
    BY <1>4, <2>1 DEF SetGPIO1Config
  <2>2. CASE SetGPIO2Config(word)
    BY <1>4, <2>2 DEF SetGPIO2Config
  <2>3. CASE SetGPIO1(word)
    BY <1>7, <2>3 DEF SetGPIO1, GPIOReady
  <2>4. CASE SetGPIO2(word)
    BY <1>7, <2>4 DEF SetGPIO2, GPIOReady
  <2>5. QED BY <1>9, <2>1, <2>2, <2>3, <2>4
<1>10. \A g \in {1, 2} : Words(g, 0..15) \subseteq SUBSET (0..15)
  BY DEF Words
<1>11. QED BY <1>1, <1>2, <1>8, <1>9, <1>10 DEF GPIONext

LEMMA DioStart == ASSUME DioInit PROVE DioInv
<1>1. flash \in AllDioBoards /\ focus \in Asked
  BY DioAssumption DEF DioInit
<1>2. chip \in Chips
  BY DEF DioInit, Chips
<1>3. mem = NoMem
  BY DEF DioInit
<1>4. QED BY <1>1, <1>2, <1>3 DEF DioInv, DioTypeOK, Chips, NoMem, SetUp, Promised

LEMMA DioStep == ASSUME DioInv, [DioNext]_dioVars PROVE Kept
<1>1. chip \in Chips
  BY DEF DioInv, DioTypeOK, Chips
<1>2. CASE Look
  BY <1>1, <1>2, LookKeeps DEF Look, Keep
<1>3. CASE Outside
  <2>1. focus \in {1, 2} \X (0..15)
    BY DioAssumption DEF DioInv, DioTypeOK
  <2>2. Bit(focus[1], focus[2]) \in Bits
    BY <2>1, TerminalPins, Pads
  <2>3. chip' \in Chips /\ chip'.out = chip.out /\ chip'.latch = chip.latch /\ chip'.routed = chip.routed
    BY <1>1, <1>3, <2>2 DEF Outside, Chips
  <2>4. QED BY <1>3, <2>3, LookKeeps DEF Outside, Keep, Counting
<1>4. CASE Exit
  BY <1>4 DEF Exit, Keep, DioInv, DioTypeOK, NoMem, SetUp, Promised, Kept, Apart
<1>5. CASE UNCHANGED dioVars
  BY <1>1, <1>5, LookKeeps DEF dioVars, Counting
<1>6. QED BY <1>2, <1>3, <1>4, <1>5, DIOKeeps, GPIOKeeps DEF DioNext

\* The inductive invariant, for any boards, and any number of programs one
\* after the other: what is remembered of a group is what its pins say.
THEOREM DioInvariant == DioSpec => []DioInv
<1>1. DioInit => DioInv
  BY DioStart
<1>2. DioInv /\ [DioNext]_dioVars => DioInv'
  BY DioStep DEF Kept
<1>3. QED BY <1>1, <1>2, PTL DEF DioSpec

\* What EkDMCiInitDIO1 and 2 promise a program lasts through all its calls on
\* either group, and the calls for one terminal tell what those for all do.
THEOREM ProgramRelies == DioSpec => []DioHolds
<1>1. ASSUME DioInv PROVE InitLasts
  <2> SUFFICES ASSUME NEW g \in mem.inited
               PROVE  /\ DOReady(mem, g) /\ g \in chip.routed
                      /\ Inputs(g) \cap chip.out = {} /\ Outputs(g) \cup TypeBits(g) \subseteq chip.out
                      /\ PinType(chip, g) = mem.stat[g]
    BY DEF InitLasts
  <2>1. /\ g \in mem.setup /\ g \notin flash.gpio /\ mem.stat[g] \in {{"sink"}, {"source"}}
        /\ Inputs(g) \cap chip.out = {} /\ Outputs(g) \subseteq chip.out
    BY <1>1 DEF DioInv, Promised
  <2>2. /\ mem.known /\ g \in Groups12 /\ g \in chip.routed
        /\ TypeBits(g) \subseteq chip.out /\ PinType(chip, g) = mem.stat[g]
    BY <1>1, <2>1 DEF DioInv, SetUp
  <2>3. Cardinality(mem.stat[g]) = 1
    BY <2>1, FS_Singleton
  <2>4. QED BY <2>1, <2>2, <2>3 DEF DOReady, DIReady, Offered
<1>2. PinsTellWords
  BY DEF PinsTellWords, GetDI1Pin, GetDI2Pin, GetDO1Pin, GetDO2Pin, GetDI1, GetDI2, GetDO1, GetDO2,
         DI2Bit, DO2Bit
<1>3. DioInv => DioHolds
  BY <1>1, <1>2 DEF DioHolds
<1>4. QED BY <1>3, DioInvariant, PTL

\* No call of one group changes what the pins of the other drive, their
\* directions or their type, although the two share bytes of the chip.
THEOREM CallsKeepApart == DioSpec => GroupsApart
<1>1. DioInv /\ [DioNext]_dioVars => [Apart]_dioVars
  BY DioStep DEF Kept
<1>2. QED BY <1>1, DioInvariant, PTL DEF DioSpec, GroupsApart, Apart

\* No two terminals of a group have the same pin.
LEMMA Distinct1 == \A i, j \in 0..15 : Bit(1, i) = Bit(1, j) => i = j
  BY DEF Bit, Group1

LEMMA Distinct2 == \A i, j \in 0..15 : Bit(2, i) = Bit(2, j) => i = j
<1> DEFINE number(b) == 8 * b[1] + b[2]
           code == <<19, 30, 31, 41, 42, 47, 46, 8, 36, 44, 35, 34, 43, 32, 49, 48>>
<1>1. \A i \in 0..15 : i \in {0, 1, 2, 3, 4, 5, 6, 7, 8, 9, 10, 11, 12, 13, 14, 15}
  OBVIOUS
<1>2. \A i \in 0..15 : number(Bit(2, i)) = code[i + 1]
  BY <1>1 DEF Bit, Group2
<1>3. \A i, j \in 0..15 : code[i + 1] = code[j + 1] => i = j
  BY <1>1
<1> HIDE DEF number, code
<1>4. QED BY <1>2, <1>3

\* A pin that is an output takes the value given, and no other pin changes.
LEMMA OneSet ==
    ASSUME chip \in Chips, NEW b \in chip.out, NEW v \in BOOLEAN, Drive(On(b, v), On(b, ~v))
    PROVE  /\ High(chip', b) = v
           /\ \A c \in Bits : c # b => High(chip', c) = High(chip, c)
<1> DEFINE on == On(b, v)
           off == On(b, ~v)
<1>1. on = (IF v THEN {b} ELSE {}) /\ off = (IF v THEN {} ELSE {b})
  BY DEF On
<1>2. on \in SUBSET Bits /\ off \in SUBSET Bits
  BY <1>1 DEF Chips
<1>3. chip' = WriteBits(chip, on, off)
  BY DEF Drive
<1> HIDE DEF on, off
<1>4. /\ chip'.out = chip.out /\ chip'.level = chip.level
      /\ \A c \in on : c \in chip'.latch <=> c \notin off
      /\ \A c \in off : c \notin chip'.latch
      /\ \A c \in chip.out : c \notin on \cup off => (c \in chip'.latch <=> c \in chip.latch)
  <2> DEFINE w == WriteBits(chip, on, off)
  <2>1. /\ w.out = chip.out /\ w.level = chip.level
        /\ \A c \in on : c \in w.latch <=> c \notin off
        /\ \A c \in off : c \notin w.latch
        /\ \A c \in chip.out : c \notin on \cup off => (c \in w.latch <=> c \in chip.latch)
    BY <1>2, Written
  <2>2. chip' = w
    BY <1>3
  <2> HIDE DEF w
  <2>3. QED BY <2>1, <2>2
<1>5. High(chip', b) = v
  BY <1>1, <1>4 DEF High
<1>6. ASSUME NEW c \in Bits, c # b PROVE High(chip', c) = High(chip, c)
  <2>1. c \notin on \cup off
    BY <1>1, <1>6
  <2>2. QED BY <1>4, <2>1 DEF High
<1>7. QED BY <1>5, <1>6

\* The call for one terminal, where all outputs of the group are driven, or
\* where that one is.
LEMMA Obeyed1 ==
    ASSUME DioInv, NEW v \in BOOLEAN, NEW i \in 0..7, 1 \in mem.inited, SetDO1Pin(i, v)
    PROVE  Sets(GetDO1, i, v)
<1> DEFINE b == Bit(1, i + 8)
<1>1. chip \in Chips
  BY DEF DioInv, DioTypeOK, Chips
<1>2. b \in chip.out
  BY TerminalPins DEF DioInv, Promised
<1>3. Drive(On(b, v), On(b, ~v))
  BY DEF SetDO1Pin
<1>4. \A j \in 0..7 : Bit(1, j + 8) \in Bits /\ (j # i => Bit(1, j + 8) # b)
  BY Table1, TerminalPins, Pads DEF Terminals
<1> HIDE DEF b
<1>5. High(chip', b) = v /\ \A c \in Bits : c # b => High(chip', c) = High(chip, c)
  BY <1>1, <1>2, <1>3, OneSet
<1>6. \A j \in 0..7 : High(chip', Bit(1, j + 8)) = IF j = i THEN v ELSE High(chip, Bit(1, j + 8))
  BY <1>4, <1>5 DEF b
<1>7. GetDO1' = [j \in 0..7 |-> High(chip', Bit(1, j + 8))]
  BY DEF GetDO1, Bit
<1>8. QED BY <1>6, <1>7 DEF Sets, GetDO1

LEMMA Obeyed2 ==
    ASSUME DioInv, NEW v \in BOOLEAN, NEW i \in 0..7, i # 2, 2 \in mem.inited, SetDO2Pin(i, v)
    PROVE  Sets(GetDO2, i, v)
<1> DEFINE b == Bit(2, i + 8)
<1>1. chip \in Chips
  BY DEF DioInv, DioTypeOK, Chips
<1>2. b \in chip.out
  BY TerminalPins DEF DioInv, Promised
<1>3. DO2Bit(i) = b
  BY DEF DO2Bit
<1>4. Drive(On(b, v), On(b, ~v))
  BY <1>3 DEF SetDO2Pin
<1>5. \A j \in 0..7 : Bit(2, j + 8) \in Bits /\ (j # i => Bit(2, j + 8) # b)
  <2> TAKE j \in 0..7
  <2>1. Bit(2, j + 8) \in Bits
    BY TerminalPins, Pads DEF Terminals
  <2>2. j + 8 \in 0..15 /\ i + 8 \in 0..15 /\ (j # i => j + 8 # i + 8)
    OBVIOUS
  <2>3. QED BY <2>1, <2>2, Distinct2
<1> HIDE DEF b
<1>6. High(chip', b) = v /\ \A c \in Bits : c # b => High(chip', c) = High(chip, c)
  BY <1>1, <1>2, <1>4, OneSet
<1>7. \A j \in 0..7 : High(chip', Bit(2, j + 8)) = IF j = i THEN v ELSE High(chip, Bit(2, j + 8))
  BY <1>5, <1>6 DEF b
<1>8. GetDO2' = [j \in 0..7 |-> High(chip', Bit(2, j + 8))]
  BY DEF GetDO2, Bit
<1>9. QED BY <1>7, <1>8 DEF Sets, GetDO2

LEMMA Obeyed3 ==
    ASSUME DioInv, NEW v \in BOOLEAN, NEW k \in 0..15, NEW g \in {1, 2}, Bit(g, k) \in chip.out,
           Drive(On(Bit(g, k), v), On(Bit(g, k), ~v))
    PROVE  \A j \in 0..15 : High(chip', Bit(g, j)) = IF j = k THEN v ELSE High(chip, Bit(g, j))
<1> DEFINE b == Bit(g, k)
<1>1. chip \in Chips
  BY DEF DioInv, DioTypeOK, Chips
<1>2. Drive(On(b, v), On(b, ~v)) /\ b \in chip.out
  OBVIOUS
<1>3. \A j \in 0..15 : Bit(g, j) \in Bits /\ (j # k => Bit(g, j) # b)
  BY TerminalPins, Pads, Distinct1, Distinct2
<1> HIDE DEF b
<1>4. High(chip', b) = v /\ \A c \in Bits : c # b => High(chip', c) = High(chip, c)
  BY <1>1, <1>2, OneSet
<1>5. QED BY <1>3, <1>4 DEF b

\* A terminal set on its own is told as set by the call for all of its group,
\* and no other is; output 2 of group 2 has a wrong pin in one of the tables.
THEOREM TerminalsObey == DioSpec => PinsObey
<1> DEFINE Obeys == \A v \in BOOLEAN, k \in {focus[2]} :
      /\ 1 \in mem.inited /\ k >= 8 /\ SetDO1Pin(k - 8, v) => Sets(GetDO1, k - 8, v)
      /\ 2 \in mem.inited /\ k >= 8 /\ k # 10 /\ SetDO2Pin(k - 8, v) => Sets(GetDO2, k - 8, v)
      /\ 1 \in mem.setup /\ Bit(1, k) \in chip.out /\ SetGPIO1Pin(k, v) => Sets(GetGPIO1, k, v)
      /\ 1 \in mem.setup /\ Bit(2, k) \in chip.out /\ SetGPIO2Pin(k, v) => Sets(GetGPIO2, k, v)
<1>1. ASSUME DioInv PROVE Obeys
  <2> SUFFICES ASSUME NEW v \in BOOLEAN
               PROVE  LET k == focus[2] IN
      /\ 1 \in mem.inited /\ k >= 8 /\ SetDO1Pin(k - 8, v) => Sets(GetDO1, k - 8, v)
      /\ 2 \in mem.inited /\ k >= 8 /\ k # 10 /\ SetDO2Pin(k - 8, v) => Sets(GetDO2, k - 8, v)
      /\ 1 \in mem.setup /\ Bit(1, k) \in chip.out /\ SetGPIO1Pin(k, v) => Sets(GetGPIO1, k, v)
      /\ 1 \in mem.setup /\ Bit(2, k) \in chip.out /\ SetGPIO2Pin(k, v) => Sets(GetGPIO2, k, v)
    OBVIOUS
  <2> DEFINE k == focus[2]
  <2>1. k \in 0..15
    BY <1>1, DioAssumption DEF DioInv, DioTypeOK
  <2> HIDE DEF k
  <2>2. k >= 8 => k - 8 \in 0..7 /\ (k # 10 => k - 8 # 2)
    BY <2>1
  <2>3. 1 \in mem.inited /\ k >= 8 /\ SetDO1Pin(k - 8, v) => Sets(GetDO1, k - 8, v)
    BY <1>1, <2>2, Obeyed1
  <2>4. 2 \in mem.inited /\ k >= 8 /\ k # 10 /\ SetDO2Pin(k - 8, v) => Sets(GetDO2, k - 8, v)
    BY <1>1, <2>2, Obeyed2
  <2>5. Bit(1, k) \in chip.out /\ SetGPIO1Pin(k, v) => Sets(GetGPIO1, k, v)
    <3>1. GetGPIO1' = [j \in 0..15 |-> High(chip', Bit(1, j))]
      BY DEF GetGPIO1, Bit
    <3>2. Bit(1, k) \in chip.out /\ SetGPIO1Pin(k, v) =>
            \A j \in 0..15 : High(chip', Bit(1, j)) = IF j = k THEN v ELSE High(chip, Bit(1, j))
      BY <1>1, <2>1, Obeyed3 DEF SetGPIO1Pin
    <3>3. QED BY <2>1, <3>1, <3>2 DEF Sets, GetGPIO1
  <2>6. Bit(2, k) \in chip.out /\ SetGPIO2Pin(k, v) => Sets(GetGPIO2, k, v)
    <3>1. GetGPIO2' = [j \in 0..15 |-> High(chip', Bit(2, j))]
      BY DEF GetGPIO2, Bit
    <3>2. Bit(2, k) \in chip.out /\ SetGPIO2Pin(k, v) =>
            \A j \in 0..15 : High(chip', Bit(2, j)) = IF j = k THEN v ELSE High(chip, Bit(2, j))
      BY <1>1, <2>1, Obeyed3 DEF SetGPIO2Pin
    <3>3. QED BY <2>1, <3>1, <3>2 DEF Sets, GetGPIO2
  <2>7. QED BY <2>3, <2>4, <2>5, <2>6 DEF k
<1>2. DioInv /\ [DioNext]_dioVars => [Obeys]_dioVars
  BY <1>1
<1> HIDE DEF Obeys
<1>3. DioSpec => [][Obeys]_dioVars
  BY <1>2, DioInvariant, PTL DEF DioSpec
<1>4. QED BY <1>3 DEF Obeys, PinsObey

-----------------------------------------------------------------------------
(* The display.  DdmInv says where each call may be and what it has in     *)
(* hand there (Place), and, of a program on its own, how that stands to    *)
(* the AIC (Sees).  One lemma per action shows that its step is Fine: the  *)
(* invariant holds again of the program that made it, the others keep what *)
(* is theirs, and what the call told or did is right (Answered).           *)

\* What a program has of the AIC in the static variables of the library.
Library == [id : BOOLEAN, board : BOOLEAN, GetFW : Nat, GetBootLoad : Nat, cnt : {0, setting.pages},
            text : [1..4 -> {"", "p1", "p2", "p3", "p4"}], InfoIdx : Nat, GetCfgIdx : Nat, SetCfgIdx : Nat]

\* The form of the state.
Shapes ==
    /\ setting \in Settings
    /\ DOMAIN disp = {"ctrl", "row", "page", "cells", "saved"}
    /\ disp.page \in 1..setting.pages
    /\ DOMAIN disp.ctrl = 1..setting.pages
    /\ \A i \in 1..setting.pages : DOMAIN disp.ctrl[i] = {"vis", "rest", "seq"}
    /\ DOMAIN disp.cells = Cells
    /\ DOMAIN call = DdmProcs /\ ddm \in [DdmProcs -> Library]
    /\ DOMAIN said = DdmProcs

\* The form of a call; one that was made has proper arguments.
CallShape(c) ==
    /\ DOMAIN c = {"at", "ask", "i", "buf", "missed"}
    /\ c.at # "idle" => Proper(c.ask)

\* The words a call for descriptions may tell.
Descriptions == {"", "p1", "p2", "p3", "p4", "kept", "none"}

\* What a page is told of, and which pages a list names.
Descr(k) == IF k \in setting.blank THEN "" ELSE Names[k]
Described(k, w) == w \in IF k \in 1..setting.pages THEN {"kept", Descr(k)} ELSE {"none"}
Within(s) == \A k \in DOMAIN s : s[k] \in 1..setting.pages
Named(a) == {a.ids[k] : k \in DOMAIN a.ids}

\* Given(a, s): the pages a names have in s what a gives them.
Given(a, s) == \A k \in DOMAIN a.ids :
    s[a.ids[k]].seq = a.seq[k] /\ (a.vis # <<>> => s[a.ids[k]].vis = a.vis[k])
Unhidden(a, s, t) == \A i \in 1..setting.pages : i \in Named(a) \/ s[i].vis = t[i].vis

\* Where a call may be, and what it has in hand there.
Place(c, l) ==
    LET a == c.ask
    IN /\ c.at = "board" => a.op = "GetBoardID"
       /\ c.at = "vers" => a.op \in Versions
       /\ c.at = "save" => a.op = "SaveOLED"
       /\ c.at \in {"count", "size"} => a.op \in Counted
       /\ c.at \in {"efcoid", "board", "vers", "save", "count", "size", "known"} => c.i = 1 /\ c.buf = <<>>
       /\ c.at = "known" /\ a.op \in Counted => l.cnt = setting.pages \/ (a.op = "SaveInfoToIni" /\ c.missed)
       /\ c.at \in {"next", "desc", "text"} =>
            /\ a.op \in Infos /\ l.cnt = setting.pages /\ c.i \in 1..(Len(a.ids) + 1)
            /\ c.buf \in Seq(Descriptions) /\ Len(c.buf) = c.i - 1
            /\ c.at # "next" => c.i <= Len(a.ids) /\ a.ids[c.i] \in 1..setting.pages
       /\ c.at \in {"ctrl", "default"} => l.cnt = setting.pages /\ Within(a.ids)
       /\ c.at = "ctrl" => a.op \in GetConfigs \/ (a.op \in SetConfigs /\ Injective(a.ids))
       /\ c.at = "default" => a.op \in GetConfigs /\ c.buf = Default(setting.pages)
       /\ c.at = "write" =>
            /\ a.op \in SetConfigs /\ Within(a.ids)
            /\ DOMAIN c.buf = 1..setting.pages
            /\ \A i \in 1..setting.pages : DOMAIN c.buf[i] = {"vis", "rest", "seq"}
            /\ Misses(a) \/ Given(a, c.buf)
       /\ c.at \in {"row", "cells", "put"} => a.op \in {"GetOLED", "SetOLED"} /\ TextFits(a)
       /\ c.at \in {"row", "cells"} => c.i = 1
       /\ c.at = "put" => a.op = "SetOLED" /\ c.i \in 1..(Len(Shown(a.text)) + 1)

\* The same, of a program on its own.
Sees(c, l, d) ==
    LET a == c.ask
    IN /\ \A i \in 1..4 : l.text[i] # "" => i \in 1..setting.pages /\ l.text[i] = Descr(i)
       /\ c.at \in {"next", "desc", "text"} => \A k \in 1..(c.i - 1) : Described(a.ids[k], c.buf[k])
       /\ c.at = "text" => d.page = a.ids[c.i]
       /\ c.at = "default" => Blank(d.ctrl)
       /\ c.at = "write" => Misses(a) \/ Unhidden(a, c.buf, d.ctrl)
       /\ c.at = "cells" => d.row = a.y
       /\ c.at = "put" => c.missed \/ \A k \in 1..(c.i - 1) : d.cells[Cell(a, k)] = Shown(a.text)[k]

\* What holds of one program.
Mine(p) ==
    /\ CallShape(call[p])
    /\ Place(call[p], ddm[p])
    /\ Alone => Sees(call[p], ddm[p], disp)

DdmInv == Shapes /\ \A p \in setting.who : Mine(p)
-----------------------------------------------------------------------------
\* What DisplayAssumption says of the setting at hand.
LEMMA SettingFacts ==
    ASSUME setting \in Settings
    PROVE  /\ setting.pages \in 1..4 /\ setting.who \subseteq DdmProcs /\ IsFiniteSet(setting.who)
           /\ setting.blank \subseteq 1..setting.pages /\ setting.first \in [1..setting.pages -> Byte]
           /\ setting.cols \in Nat /\ setting.cols > 0 /\ setting.rows \in Nat /\ setting.rows > 0
           /\ setting.vers \in Nat /\ \A a \in setting.asks : Proper(a)
BY DisplayAssumption

\* One program is the only one.
LEMMA OnlyOne ==
    ASSUME setting \in Settings, NEW p \in setting.who, NEW q \in setting.who, Alone
    PROVE  p = q
<1>1. IsFiniteSet(setting.who)
  BY SettingFacts
<1>2. PICK x : setting.who = {x}
  BY <1>1, FS_Singleton DEF Alone
<1>3. QED BY <1>2

\* Where a call begins, by its kind.
LEMMA Steps ==
    ASSUME NEW o
    PROVE  /\ FirstStep(o) \in {"count", "board", "vers", "save", "known"}
           /\ o \in Counted <=> FirstStep(o) = "count"
           /\ o = "GetBoardID" <=> FirstStep(o) = "board"
           /\ o \in Versions <=> FirstStep(o) = "vers"
           /\ o = "SaveOLED" <=> FirstStep(o) = "save"
           /\ o \in Infos \cup GetConfigs \cup SetConfigs \cup Sizes \cup {"SaveInfoToIni", "GetOLED", "SetOLED"} => o \in Counted
<1> DEFINE C == o \in Counted
<1>1. o \in {"GetBoardID", "SaveOLED"} \cup Versions => ~C
  BY DEF Counted, Versions, Sizes, Infos, InfoLists, GetConfigs, GetLists, SetConfigs, SetLists, SetSingles
<1>2. o \in Versions => o \notin {"GetBoardID", "SaveOLED"}
  BY DEF Versions
<1>3. o \in Infos \cup GetConfigs \cup SetConfigs \cup Sizes \cup {"SaveInfoToIni", "GetOLED", "SetOLED"} => C
  BY DEF Counted
<1>4. FirstStep(o) = CASE C -> "count" [] o = "GetBoardID" -> "board" [] o \in Versions -> "vers"
                       [] o = "SaveOLED" -> "save" [] OTHER -> "known"
  BY DEF FirstStep
<1> HIDE DEF C
<1>5. CASE C
  BY <1>1, <1>4, <1>5 DEF C
<1>6. CASE ~C
  <2>1. CASE o = "GetBoardID"
    BY <1>1, <1>2, <1>3, <1>4, <1>6, <2>1 DEF C
  <2>2. CASE o \in Versions
    BY <1>1, <1>2, <1>3, <1>4, <1>6, <2>2 DEF C
  <2>3. CASE o = "SaveOLED"
    BY <1>1, <1>2, <1>3, <1>4, <1>6, <2>3 DEF C
  <2>4. CASE o # "GetBoardID" /\ o \notin Versions /\ o # "SaveOLED"
    BY <1>1, <1>2, <1>3, <1>4, <1>6, <2>4 DEF C
  <2>5. QED BY <2>1, <2>2, <2>3, <2>4
<1>7. QED BY <1>5, <1>6

\* What is known of a call counts its pages.
LEMMA KnownCounts ==
    ASSUME setting \in Settings, NEW l \in Library, NEW o \in Counted
    PROVE  Known(l, o) <=> l.cnt = setting.pages
<1>1. setting.pages \in 1..4 /\ l.cnt \in {0, setting.pages}
  BY SettingFacts DEF Library
<1>2. o \notin {"GetBoardID", "SaveOLED"} \cup Versions
  BY DEF Counted, Versions, Sizes, Infos, InfoLists, GetConfigs, GetLists, SetConfigs, SetLists, SetSingles
<1>3. Known(l, o) = (l.cnt > 0)
  BY <1>2 DEF Known
<1>4. l.cnt > 0 <=> l.cnt = setting.pages
  BY <1>1
<1>5. QED BY <1>3, <1>4, Zenon

\* No program has made a call.
LEMMA InitInv == DisplayInit => DdmInv
<1> SUFFICES ASSUME DisplayInit PROVE DdmInv
  OBVIOUS
<1> USE DEF DisplayInit
<1>1. Unloaded \in Library
  <2>1. [i \in 1..4 |-> ""] \in [1..4 -> {"", "p1", "p2", "p3", "p4"}]
    OBVIOUS
  <2>2. QED BY <2>1 DEF Unloaded, Library
<1>2. Shapes
  <2>1. \A i \in 1..setting.pages : setting.first[i] \in Byte
    BY SettingFacts
  <2>2. \A b \in Byte : DOMAIN b = {"vis", "rest", "seq"}
    BY DEF Byte
  <2>3. DOMAIN setting.first = 1..setting.pages
    BY SettingFacts
  <2>4. disp.page \in 1..setting.pages
    BY SettingFacts
  <2>5. QED BY <1>1, <2>1, <2>2, <2>3, <2>4 DEF Shapes, NoWord
<1>3. ASSUME NEW p \in setting.who PROVE Mine(p)
  <2>1. call[p] = NoCall /\ ddm[p] = Unloaded
    BY SettingFacts
  <2>2. CallShape(NoCall)
    BY DEF CallShape, NoCall
  <2>3. Place(NoCall, Unloaded)
    BY DEF Place, NoCall
  <2>4. Sees(NoCall, Unloaded, disp)
    BY DEF Sees, NoCall, Unloaded
  <2>5. QED BY <2>1, <2>2, <2>3, <2>4 DEF Mine
<1>4. QED BY <1>2, <1>3 DEF DdmInv

-----------------------------------------------------------------------------
(* A step of one program.                                                  *)

\* What it leaves to the others, and what a step must show of its own.
Aside(p) == /\ setting' = setting
            /\ \A q \in DdmProcs \ {p} : call'[q] = call[q] /\ ddm'[q] = ddm[q]
\* What the call told is right, and so is what it did.
Answered(p) == /\ Returns(p) => (Alone => Told(p)) /\ Obeyed(p)
               /\ call'[p] # call[p] => Spared(p)
Fine(p) == Shapes' /\ Mine(p)' /\ Aside(p) /\ Answered(p)

\* One program's step keeps what holds of the others; on its own there are none.
LEMMA OthersKeep ==
    ASSUME DdmInv, NEW p \in setting.who, Fine(p)
    PROVE  DdmInv'
<1>1. setting' = setting /\ Shapes' /\ Mine(p)'
  BY DEF Fine, Aside
<1>2. ASSUME NEW q \in setting.who, q # p PROVE Mine(q)'
  <2>1. call'[q] = call[q] /\ ddm'[q] = ddm[q]
    BY <1>2, SettingFacts DEF Fine, Aside, DdmInv, Shapes
  <2>2. CallShape(call[q]) /\ Place(call[q], ddm[q])
    BY DEF DdmInv, Mine
  <2>3. CallShape(call[q])'
    BY <2>1, <2>2 DEF CallShape, Proper
  <2>4. Place(call[q], ddm[q])'
    BY <1>1, <2>1, <2>2 DEF Place, Within, Given, Misses, TextFits
  <2>5. ~Alone'
    BY <1>1, <1>2, OnlyOne DEF Alone, DdmInv, Shapes
  <2>6. QED BY <2>3, <2>4, <2>5 DEF Mine
<1>3. QED BY <1>1, <1>2 DEF DdmInv

\* Where nothing is changed on the display, nothing is harmed; a call that has
\* not returned TRUE has told nothing.
LEMMA Quiet == ASSUME disp' = disp, NEW p PROVE Spared(p)
BY DEF Spared

LEMMA Silent ==
    ASSUME NEW p, ~Returns(p), disp' = disp
    PROVE  Answered(p)
BY Quiet DEF Answered

\* A step changes what is a program's own.
Turn(p, l) ==
    /\ setting' = setting
    /\ DOMAIN call' = DdmProcs /\ \A q \in DdmProcs \ {p} : call'[q] = call[q]
    /\ ddm' = [ddm EXCEPT ![p] = l] /\ l \in Library
    /\ said' = said \/ \E w : said' = [said EXCEPT ![p] = w]

\* What holds of the call in hand holds in the next state.
LEMMA MineNext ==
    ASSUME NEW p, setting' = setting, NEW c, NEW l, NEW d, call'[p] = c, ddm'[p] = l, disp' = d,
           CallShape(c), Place(c, l), Alone => Sees(c, l, d)
    PROVE  Mine(p)'
<1>1. CallShape(call[p])'
  BY DEF CallShape, Proper
<1>2. Place(call[p], ddm[p])'
  BY DEF Place, Within, Given, Misses, TextFits
<1>3. ASSUME Alone' PROVE Sees(call[p], ddm[p], disp)'
  <2>1. Sees(c, l, d)
    BY <1>3 DEF Alone
  <2>3. \A i \in 1..4 : ddm'[p].text[i] # "" => i \in 1..setting'.pages /\ ddm'[p].text[i] = Descr(i)'
    BY <2>1 DEF Sees, Descr
  <2>4. c.at \in {"next", "desc", "text"} => \A k \in 1..(c.i - 1) : Described(c.ask.ids[k], c.buf[k])'
    BY <2>1 DEF Sees, Descr, Described
  <2>5. c.at = "write" => (Misses(c.ask) \/ Unhidden(c.ask, c.buf, d.ctrl))'
    BY <2>1 DEF Sees, Misses, Unhidden
  <2>6. c.at = "put" => c.missed \/ \A k \in 1..(c.i - 1) : d.cells[Cell(c.ask, k)'] = Shown(c.ask.text)[k]
    BY <2>1 DEF Sees, Cell
  <2>7. QED BY <2>1, <2>3, <2>4, <2>5, <2>6 DEF Sees
<1>4. QED BY <1>1, <1>2, <1>3 DEF Mine

\* The rest of the library and of the display, where they are left alone.
LEMMA ShapesStay ==
    ASSUME DdmInv, NEW p \in setting.who, NEW l, Turn(p, l), disp' = disp
    PROVE  Shapes' /\ Aside(p) /\ ddm'[p] = l
<1>1. p \in DdmProcs /\ Shapes
  BY SettingFacts DEF DdmInv, Shapes
<1>2. Library' = Library /\ Cells' = Cells
  BY DEF Library, Cells, Turn
<1>3. DOMAIN call' = DdmProcs /\ ddm' \in [DdmProcs -> Library] /\ ddm'[p] = l
  BY <1>1 DEF Shapes, Turn
<1>4. DOMAIN said' = DdmProcs
  BY <1>1 DEF Shapes, Turn
<1>5. Aside(p)
  BY <1>1 DEF Aside, Shapes, Turn
<1>6. Shapes'
  BY <1>1, <1>2, <1>3, <1>4 DEF Shapes, Turn
<1>7. QED BY <1>3, <1>5, <1>6

\* A program that is not in a call.
LEMMA RestFine ==
    ASSUME NEW c, NEW l, NEW d, c.at = "idle"
    PROVE  /\ Place(c, l)
           /\ (\A i \in 1..4 : l.text[i] # "" => i \in 1..setting.pages /\ l.text[i] = Descr(i)) => Sees(c, l, d)
BY DEF Place, Sees

\* The program ends, and its variables with it.
LEMMA EndFine ==
    ASSUME DdmInv, NEW p \in setting.who, End(p)
    PROVE  Fine(p)
<1>0. p \in DdmProcs /\ Shapes
  BY SettingFacts DEF DdmInv, Shapes
<1>1. Unloaded \in Library
  <2>1. [i \in 1..4 |-> ""] \in [1..4 -> {"", "p1", "p2", "p3", "p4"}]
    OBVIOUS
  <2>2. QED BY <2>1 DEF Unloaded, Library
<1>2. call'[p] = NoCall /\ Turn(p, Unloaded) /\ disp' = disp
  BY <1>0, <1>1 DEF End, Turn, Shapes
<1>3. Shapes' /\ Aside(p) /\ ddm'[p] = Unloaded
  BY <1>2, ShapesStay
<1>4. Mine(p)'
  <2>1. CallShape(NoCall)
    BY DEF CallShape, NoCall
  <2>2. \A i \in 1..4 : Unloaded.text[i] = ""
    BY DEF Unloaded
  <2>3. NoCall.at = "idle" /\ setting' = setting
    BY DEF NoCall, End
  <2>4. QED BY <1>2, <1>3, <2>1, <2>2, <2>3, RestFine, MineNext
<1>5. Answered(p)
  <2>1. said'[p] = NoWord
    BY <1>0 DEF End, Shapes
  <2>2. ~Returns(p)
    BY <2>1 DEF Returns, NoWord
  <2>3. QED BY <2>2, Silent DEF End
<1>6. QED BY <1>3, <1>4, <1>5 DEF Fine

\* A call begins with what is not known yet.
LEMMA BeginFine ==
    ASSUME DdmInv, NEW p \in setting.who, NEW a \in setting.asks, Begin(p, a)
    PROVE  Fine(p)
<1> DEFINE at == IF Known(ddm[p], a.op) THEN "known"
                 ELSE IF ddm[p].id THEN FirstStep(a.op) ELSE "efcoid"
           c == call'[p]
<1>0. p \in DdmProcs /\ Shapes /\ Mine(p)
  BY SettingFacts DEF DdmInv, Shapes
<1>1. Proper(a) /\ setting' = setting /\ disp' = disp /\ ddm' = ddm
  BY <1>0, SettingFacts DEF Begin, Shapes
<1>2. /\ c.at = at /\ c.ask = a /\ c.i = 1 /\ c.buf = <<>> /\ c.missed = FALSE
      /\ DOMAIN c = {"at", "ask", "i", "buf", "missed"}
  <2> HIDE DEF at
  <2>1. call' = [call EXCEPT ![p] = [NoCall EXCEPT !.at = at, !.ask = a]]
    BY DEF Begin, at
  <2>2. QED BY <1>0, <2>1 DEF NoCall, Shapes
<1>3. Turn(p, ddm[p])
  BY <1>0 DEF Begin, Turn, Shapes
<1>4. Shapes' /\ Aside(p) /\ ddm'[p] = ddm[p]
  BY <1>1, <1>3, ShapesStay
<1>5. at \in {"known", "efcoid", "count", "board", "vers", "save"}
  BY Steps
<1>6. /\ at = "board" => a.op = "GetBoardID"
      /\ at = "vers" => a.op \in Versions
      /\ at = "save" => a.op = "SaveOLED"
      /\ at = "count" => a.op \in Counted
  BY Steps
<1>7. at = "known" /\ a.op \in Counted => ddm[p].cnt = setting.pages
  <2>1. at = "known" /\ a.op \in Counted => Known(ddm[p], a.op)
    BY Steps
  <2>2. QED BY <1>0, <2>1, KnownCounts DEF Shapes
<1>8. Mine(p)'
  <2> HIDE DEF at, c
  <2>1. CallShape(c)
    BY <1>1, <1>2 DEF CallShape
  <2>2. Place(c, ddm[p])
    BY <1>2, <1>5, <1>6, <1>7 DEF Place
  <2>3. Alone => Sees(c, ddm[p], disp)
    BY <1>0, <1>2, <1>5 DEF Mine, Sees
  <2>4. QED BY <1>1, <1>4, <2>1, <2>2, <2>3, MineNext DEF c
<1>9. Answered(p)
  <2> HIDE DEF at
  <2>1. ~Returns(p)
    BY <1>2, <1>5 DEF Returns
  <2>2. QED BY <1>1, <2>1, Silent
<1>10. QED BY <1>4, <1>8, <1>9 DEF Fine

-----------------------------------------------------------------------------
\* An answer is right if it is for the call that was made.
LEMMA ToldWhen ==
    ASSUME NEW p, NEW a, NEW w, a = call[p].ask, w = said'[p].what,
           a.op \in Sizes => w = <<setting.cols, setting.rows>>,
           a.op = "SaveInfoToIni" => call[p].missed \/ w = <<setting.pages>>,
           a.op \in Infos => \A k \in DOMAIN a.ids : Described(a.ids[k], w[k]),
           a.op \in GetConfigs =>
              \A k \in DOMAIN w : w[k].vis = disp'.ctrl[w[k].page].vis /\ w[k].seq = disp'.ctrl[w[k].page].seq,
           a.op = "GetOLED" => \A k \in DOMAIN w :
              LET c == disp.cells[a.y * setting.cols + a.x + k - 1]
              IN w[k] = IF c \in Printable THEN c ELSE " "
    PROVE  Told(p)
<1> DEFINE A == w = <<setting.cols, setting.rows>>
           B == call[p].missed \/ w = <<setting.pages>>
           C == \A k \in DOMAIN a.ids :
                 w[k] \in IF a.ids[k] \in 1..setting.pages
                          THEN {"kept", IF a.ids[k] \in setting.blank THEN "" ELSE Names[a.ids[k]]}
                          ELSE {"none"}
           D == \A k \in DOMAIN w : w[k].vis = disp'.ctrl[w[k].page].vis /\ w[k].seq = disp'.ctrl[w[k].page].seq
           E == \A k \in DOMAIN w :
              LET c == disp.cells[a.y * setting.cols + a.x + k - 1]
              IN w[k] = IF c \in Printable THEN c ELSE " "
           sizes == a.op \in Sizes
           infos == a.op \in Infos /\ a.ids # <<>>
           gets == a.op \in GetConfigs
<1>1. Told(p) = CASE sizes -> A [] a.op = "SaveInfoToIni" -> B [] infos -> C
                  [] gets -> D [] a.op = "GetOLED" -> E [] OTHER -> TRUE
  BY DEF Told
<1>2. /\ sizes => A /\ A \in BOOLEAN
      /\ a.op = "SaveInfoToIni" => B
      /\ infos => C
      /\ gets => D
      /\ a.op = "GetOLED" => E
  BY DEF Described, Descr
<1> HIDE DEF A, B, C, D, E, sizes, infos, gets
<1>3. QED BY <1>1, <1>2

\* A call has done its work if it did that of its kind.
LEMMA ObeyedWhen ==
    ASSUME NEW p, NEW a, a = call[p].ask,
           a.op \in SetConfigs => Misses(a) \/ Given(a, disp'.ctrl),
           a.op = "SetOLED" => ~Alone \/ call[p].missed
                               \/ \A k \in DOMAIN Shown(a.text) : disp.cells[Cell(a, k)] = Shown(a.text)[k],
           a.op = "SaveOLED" => disp'.saved = disp.cells
    PROVE  Obeyed(p)
<1> DEFINE A == Misses(a) \/ \A k \in DOMAIN a.ids : LET b == disp'.ctrl[a.ids[k]]
                                     IN b.seq = a.seq[k] /\ (a.vis # <<>> => b.vis = a.vis[k])
           B == ~Alone \/ call[p].missed
                       \/ \A k \in DOMAIN Shown(a.text) : disp.cells[Cell(a, k)] = Shown(a.text)[k]
           C == disp'.saved = disp.cells
           sets == a.op \in SetConfigs
<1>1. Obeyed(p) = CASE sets -> A [] a.op = "SetOLED" -> B [] a.op = "SaveOLED" -> C [] OTHER -> TRUE
  BY DEF Obeyed
<1>2. /\ sets => A
      /\ a.op = "SetOLED" => B
      /\ a.op = "SaveOLED" => C
  BY DEF Given
<1> HIDE DEF A, B, C, sets
<1>3. QED BY <1>1, <1>2

\* The kinds of calls are different calls.
Texts == {"GetOLED", "SetOLED"}
LEMMA Kinds ==
    ASSUME NEW o
    PROVE  /\ o \in Infos => o \notin GetConfigs \cup SetConfigs \cup Sizes \cup Texts \cup {"SaveOLED", "SaveInfoToIni"}
           /\ o \in GetConfigs => o \notin SetConfigs \cup Sizes \cup Texts \cup {"SaveOLED", "SaveInfoToIni"}
           /\ o \in SetConfigs => o \notin Sizes \cup Texts \cup {"SaveOLED", "SaveInfoToIni"}
           /\ o \in Sizes => o \notin Texts \cup {"SaveOLED", "SaveInfoToIni"}
           /\ o \in Texts => o \notin {"SaveOLED", "SaveInfoToIni"}
           /\ o \in Versions \cup Identities \cup {"GetBoardID"} =>
                 o \notin Infos \cup GetConfigs \cup SetConfigs \cup Sizes \cup Texts \cup {"SaveOLED", "SaveInfoToIni"}
BY DEF Versions, Identities, Sizes, Infos, InfoLists, GetConfigs, GetLists, SetConfigs, SetLists, SetSingles, Texts

\* A call that ends.
LEMMA IdleFine ==
    ASSUME DdmInv, NEW p \in setting.who, Shapes', Aside(p),
           call' = [call EXCEPT ![p].at = "idle"], ddm'[p].text = ddm[p].text, Answered(p)
    PROVE  Fine(p)
<1>1. Mine(p) /\ p \in DdmProcs /\ DOMAIN call = DdmProcs
  BY SettingFacts DEF DdmInv, Shapes
<1>2. call'[p].at = "idle" /\ CallShape(call'[p])
  BY <1>1 DEF Mine, CallShape
<1>3. Place(call'[p], ddm'[p])
  BY <1>2, RestFine
<1>4. Alone => Sees(call'[p], ddm'[p], disp')
  BY <1>1, <1>2, RestFine DEF Mine, Sees
<1>5. Mine(p)'
  BY <1>2, <1>3, <1>4, MineNext DEF Aside
<1>6. QED BY <1>5 DEF Fine

\* A call that returns FALSE ends, and leaves the display alone.
LEMMA RefuseFine ==
    ASSUME DdmInv, NEW p \in setting.who, NEW l \in Library, l.text = ddm[p].text,
           setting' = setting, disp' = disp, ddm' = [ddm EXCEPT ![p] = l], Refuse(p)
    PROVE  Fine(p)
<1>1. p \in DdmProcs /\ Shapes
  BY SettingFacts DEF DdmInv, Shapes
<1>2. Turn(p, l)
  BY <1>1 DEF Turn, Refuse, Shapes
<1>3. Shapes' /\ Aside(p) /\ ddm'[p] = l
  BY <1>2, ShapesStay
<1>4. ~Returns(p)
  BY <1>1 DEF Refuse, Returns, NoWord, Shapes
<1>5. QED BY <1>3, <1>4, Silent, IdleFine DEF Refuse

\* A call that returns TRUE ends with an answer that is right.
LEMMA TellFine ==
    ASSUME DdmInv, NEW p \in setting.who, NEW w, setting' = setting, disp' = disp, ddm' = ddm, Tell(p, w),
           said'[p].what = w => (Alone => Told(p)) /\ Obeyed(p)
    PROVE  Fine(p)
<1>1. p \in DdmProcs /\ Shapes
  BY SettingFacts DEF DdmInv, Shapes
<1>2. Turn(p, ddm[p])
  BY <1>1 DEF Turn, Tell, Shapes
<1>3. Shapes' /\ Aside(p) /\ ddm'[p] = ddm[p]
  BY <1>2, ShapesStay
<1>4. said'[p].what = w
  BY <1>1 DEF Tell, Shapes
<1>5. Answered(p)
  BY <1>4, Quiet DEF Answered
<1>6. QED BY <1>3, <1>5, IdleFine DEF Tell

\* A call that goes on.
LEMMA StayFine ==
    ASSUME DdmInv, NEW p \in setting.who, Shapes', Aside(p), call'[p].at # "idle",
           CallShape(call'[p]), Place(call'[p], ddm'[p]), Alone => Sees(call'[p], ddm'[p], disp'), Spared(p)
    PROVE  Fine(p)
<1>1. Mine(p)'
  BY MineNext DEF Aside
<1>2. Answered(p)
  BY DEF Answered, Returns
<1>3. QED BY <1>1, <1>2 DEF Fine

\* A call that goes on without touching the display.
LEMMA OnFine ==
    ASSUME DdmInv, NEW p \in setting.who, NEW l, Turn(p, l), disp' = disp, call'[p].at # "idle",
           CallShape(call'[p]), Place(call'[p], l), Alone => Sees(call'[p], l, disp)
    PROVE  Fine(p)
BY ShapesStay, StayFine, Quiet

\* The call that has only moved on.
SameCall(p) ==
    /\ DOMAIN call' = DdmProcs /\ \A q \in DdmProcs \ {p} : call'[q] = call[q]
    /\ DOMAIN call'[p] = {"at", "ask", "i", "buf", "missed"}
    /\ call'[p].ask = call[p].ask /\ call'[p].i = call[p].i /\ call'[p].buf = call[p].buf

\* What Goto and Fail leave of a call.
LEMMA Went ==
    ASSUME DdmInv, NEW p \in setting.who, NEW l
    PROVE  /\ Goto(p, l) => SameCall(p) /\ call'[p].at = l /\ call'[p].missed = call[p].missed
           /\ Request(p).op = "SaveInfoToIni" /\ Fail(p) => SameCall(p) /\ call'[p].at = "known" /\ call'[p].missed = TRUE
<1>1. p \in DdmProcs /\ DOMAIN call = DdmProcs /\ DOMAIN call[p] = {"at", "ask", "i", "buf", "missed"}
  BY SettingFacts DEF DdmInv, Shapes, Mine, CallShape
<1>2. Goto(p, l) => SameCall(p) /\ call'[p].at = l /\ call'[p].missed = call[p].missed
  BY <1>1 DEF Goto, SameCall
<1>3. ASSUME Request(p).op = "SaveInfoToIni", Fail(p)
      PROVE  SameCall(p) /\ call'[p].at = "known" /\ call'[p].missed = TRUE
  BY <1>1, <1>3 DEF Fail, SameCall
<1>4. QED BY <1>2, <1>3

-----------------------------------------------------------------------------
(* What a call needs first.                                                *)

\* The steps that learn what a call needs first.
Early == {"efcoid", "board", "vers", "save", "count", "size"}

\* A call that has what it needs of the library, or goes on without it.
LEMMA EarlyFine ==
    ASSUME DdmInv, NEW p \in setting.who, NEW l \in Library, l.text = ddm[p].text, setting' = setting, disp' = disp,
           ddm' = [ddm EXCEPT ![p] = l], said' = said, SameCall(p), call[p].at \in Early,
           LET c == call'[p] o == call[p].ask.op
           IN /\ c.at \in Early \cup {"known"}
              /\ c.at = "board" => o = "GetBoardID"
              /\ c.at = "vers" => o \in Versions
              /\ c.at = "save" => o = "SaveOLED"
              /\ c.at \in {"count", "size"} => o \in Counted
              /\ c.at = "known" /\ o \in Counted => l.cnt = setting.pages \/ (o = "SaveInfoToIni" /\ c.missed)
    PROVE  Fine(p)
<1> DEFINE c == call'[p]
<1>1. p \in DdmProcs /\ Shapes /\ Mine(p)
  BY SettingFacts DEF DdmInv, Shapes
<1>2. Turn(p, l)
  BY DEF Turn, SameCall
<1>3. CallShape(c)
  BY <1>1 DEF Mine, CallShape, SameCall, Early
<1>4. c.i = 1 /\ c.buf = <<>> /\ c.ask = call[p].ask
  BY <1>1 DEF Mine, Place, SameCall, Early
<1>5. Place(c, l)
  <2> HIDE DEF c
  <2>1. /\ c.at \in Early \cup {"known"}
        /\ c.at = "board" => c.ask.op = "GetBoardID"
        /\ c.at = "vers" => c.ask.op \in Versions
        /\ c.at = "save" => c.ask.op = "SaveOLED"
        /\ c.at \in {"count", "size"} => c.ask.op \in Counted
        /\ c.at = "known" /\ c.ask.op \in Counted => l.cnt = setting.pages \/ (c.ask.op = "SaveInfoToIni" /\ c.missed)
    BY <1>4 DEF c
  <2>2. QED BY <1>4, <2>1 DEF Place, Early
<1>6. Alone => Sees(c, l, disp)
  <2> HIDE DEF c
  <2>1. c.at \in Early \cup {"known"}
    BY DEF c
  <2>2. QED BY <1>1, <2>1 DEF Mine, Sees, Early
<1>7. c.at # "idle"
  BY DEF Early
<1>8. QED BY <1>2, <1>3, <1>5, <1>6, <1>7, OnFine

\* A transfer that failed.
LEMMA FailFine ==
    ASSUME DdmInv, NEW p \in setting.who, NEW l \in Library, l.text = ddm[p].text, setting' = setting, disp' = disp,
           ddm' = [ddm EXCEPT ![p] = l], call[p].at \in Early, Fail(p)
    PROVE  Fine(p)
<1>1. CASE Request(p).op = "SaveInfoToIni"
  <2>1. SameCall(p) /\ call'[p].at = "known" /\ call'[p].missed = TRUE
    BY <1>1, Went
  <2>2. said' = said
    BY <1>1 DEF Fail
  <2>3. call[p].ask.op = "SaveInfoToIni"
    BY <1>1 DEF Request
  <2>4. QED BY <2>1, <2>2, <2>3, EarlyFine
<1>2. CASE Request(p).op # "SaveInfoToIni"
  BY <1>2, RefuseFine DEF Fail
<1>3. QED BY <1>1, <1>2

\* EkVerifyAICEFCOID keeps the invariant.
LEMMA EfcoFine ==
    ASSUME DdmInv, NEW p \in setting.who, NEW ok \in BOOLEAN, EfcoId(p, ok)
    PROVE  Fine(p)
<1> DEFINE l == [ddm[p] EXCEPT !.id = ok]
<1>1. p \in DdmProcs /\ ddm \in [DdmProcs -> Library] /\ call[p].at = "efcoid"
  BY SettingFacts DEF DdmInv, Shapes, EfcoId, At
<1>2. l \in Library /\ l.text = ddm[p].text
  BY <1>1 DEF Library
<1>3. setting' = setting /\ disp' = disp /\ ddm' = [ddm EXCEPT ![p] = l]
  BY <1>1 DEF EfcoId, Reads
<1> HIDE DEF l
<1>4. CASE ok
  <2> DEFINE o == Request(p).op
  <2>1. Goto(p, FirstStep(o))
    BY <1>4 DEF EfcoId
  <2>2. SameCall(p) /\ call'[p].at = FirstStep(o) /\ said' = said
    BY <2>1, Went DEF Goto
  <2>3. /\ FirstStep(o) \in Early \cup {"known"} /\ FirstStep(o) # "size"
        /\ FirstStep(o) = "board" => o = "GetBoardID"
        /\ FirstStep(o) = "vers" => o \in Versions
        /\ FirstStep(o) = "save" => o = "SaveOLED"
        /\ FirstStep(o) = "count" => o \in Counted
        /\ FirstStep(o) = "known" => o \notin Counted
    BY Steps DEF Early
  <2>4. o = call[p].ask.op /\ call[p].at \in Early
    BY <1>1 DEF Request, Early
  <2> HIDE DEF o
  <2>5. QED BY <1>2, <1>3, <2>2, <2>3, <2>4, EarlyFine
<1>5. CASE ~ok
  BY <1>1, <1>2, <1>3, <1>5, FailFine DEF EfcoId, Early
<1>6. QED BY <1>4, <1>5

\* The board id.
LEMMA BoardFine ==
    ASSUME DdmInv, NEW p \in setting.who, NEW ok \in BOOLEAN, BoardId(p, ok)
    PROVE  Fine(p)
<1> DEFINE l == [ddm[p] EXCEPT !.board = ok]
<1>1. p \in DdmProcs /\ ddm \in [DdmProcs -> Library] /\ call[p].at = "board" /\ Place(call[p], ddm[p])
  BY SettingFacts DEF DdmInv, Shapes, BoardId, At, Mine
<1>2. l \in Library /\ l.text = ddm[p].text
  BY <1>1 DEF Library
<1>3. setting' = setting /\ disp' = disp /\ ddm' = [ddm EXCEPT ![p] = l]
  BY <1>1 DEF BoardId, Reads
<1>4. call[p].ask.op = "GetBoardID" /\ "GetBoardID" \notin Counted
  BY <1>1, Steps DEF Place
<1> HIDE DEF l
<1>5. CASE ok
  <2>1. SameCall(p) /\ call'[p].at = "known" /\ said' = said
    BY <1>5, Went DEF BoardId, Goto
  <2>2. QED BY <1>1, <1>2, <1>3, <1>4, <2>1, EarlyFine DEF Early
<1>6. CASE ~ok
  BY <1>1, <1>2, <1>3, <1>6, FailFine DEF BoardId, Early
<1>7. QED BY <1>5, <1>6

\* A version, which may stay half read.
LEMMA VersionFine ==
    ASSUME DdmInv, NEW p \in setting.who, NEW ok \in BOOLEAN, Version(p, ok)
    PROVE  Fine(p)
<1> DEFINE o == Request(p).op
           first == ddm[p][o] = 0
           has == IF ~ok THEN ddm[p][o] ELSE IF first THEN (IF setting.vers > 0 THEN 1 ELSE 0) ELSE setting.vers
           l == [ddm[p] EXCEPT ![o] = has]
<1>1. /\ p \in DdmProcs /\ ddm \in [DdmProcs -> Library] /\ call[p].at = "vers" /\ Place(call[p], ddm[p])
      /\ setting.vers \in Nat
  BY SettingFacts DEF DdmInv, Shapes, Version, At, Mine
<1>2. o = call[p].ask.op /\ o \in Versions /\ o \notin Counted
  BY <1>1, Steps DEF Place, Request
<1>3. o \in {"GetFW", "GetBootLoad"}
  BY <1>2 DEF Versions
<1>4. has \in Nat
  BY <1>1, <1>3 DEF Library
<1>5. setting' = setting /\ disp' = disp
  BY DEF Version, Reads
<1>6. /\ ddm' = [ddm EXCEPT ![p][o] = has]
      /\ IF has = 0 THEN Refuse(p) ELSE UNCHANGED stale /\ Goto(p, IF first THEN "vers" ELSE "known")
  BY DEF Version
<1> HIDE DEF o, has, first
<1>7. l \in Library /\ l.text = ddm[p].text /\ ddm' = [ddm EXCEPT ![p] = l]
  <2>1. CASE o = "GetFW"
    BY <1>1, <1>4, <1>6, <2>1 DEF Library
  <2>2. CASE o = "GetBootLoad"
    BY <1>1, <1>4, <1>6, <2>2 DEF Library
  <2>3. QED BY <1>3, <2>1, <2>2
<1> HIDE DEF l
<1>8. CASE has = 0
  BY <1>5, <1>6, <1>7, <1>8, RefuseFine
<1>9. CASE has # 0
  <2>1. SameCall(p) /\ call'[p].at \in {"vers", "known"} /\ said' = said
    BY <1>6, <1>9, Went DEF Goto
  <2>2. QED BY <1>1, <1>2, <1>5, <1>7, <2>1, EarlyFine DEF Early
<1>10. QED BY <1>8, <1>9

\* Asking for the counts.
LEMMA AskFine ==
    ASSUME DdmInv, NEW p \in setting.who, NEW ok \in BOOLEAN, AskCount(p, ok)
    PROVE  Fine(p)
<1>1. p \in DdmProcs /\ ddm \in [DdmProcs -> Library] /\ call[p].at = "count" /\ Place(call[p], ddm[p])
  BY SettingFacts DEF DdmInv, Shapes, AskCount, At, Mine
<1>2. setting' = setting /\ disp' = disp /\ ddm' = [ddm EXCEPT ![p] = ddm[p]] /\ ddm[p] \in Library
  BY <1>1 DEF AskCount, Reads
<1>3. call[p].ask.op \in Counted
  BY <1>1 DEF Place
<1>4. CASE ok
  <2>1. SameCall(p) /\ call'[p].at = "size" /\ said' = said
    BY <1>4, Went DEF AskCount, Goto
  <2>2. QED BY <1>1, <1>2, <1>3, <2>1, EarlyFine DEF Early
<1>5. CASE ~ok
  BY <1>1, <1>2, <1>5, FailFine DEF AskCount, Early
<1>6. QED BY <1>4, <1>5

\* The counts are the setting's, or none.
LEMMA CountFine ==
    ASSUME DdmInv, NEW p \in setting.who, NEW ok \in BOOLEAN, ReadCount(p, ok)
    PROVE  Fine(p)
<1> DEFINE l == [ddm[p] EXCEPT !.cnt = IF ok THEN setting.pages ELSE 0]
<1>1. p \in DdmProcs /\ ddm \in [DdmProcs -> Library] /\ call[p].at = "size"
  BY SettingFacts DEF DdmInv, Shapes, ReadCount, At, Mine
<1>2. l \in Library /\ l.text = ddm[p].text /\ (ok => l.cnt = setting.pages)
  BY <1>1 DEF Library
<1>3. setting' = setting /\ disp' = disp /\ ddm' = [ddm EXCEPT ![p] = l]
  BY <1>1 DEF ReadCount, Reads
<1> HIDE DEF l
<1>4. CASE ok
  <2>1. SameCall(p) /\ call'[p].at = "known" /\ said' = said
    BY <1>4, Went DEF ReadCount, Goto
  <2>2. QED BY <1>1, <1>2, <1>3, <1>4, <2>1, EarlyFine DEF Early
<1>5. CASE ~ok
  BY <1>1, <1>2, <1>3, <1>5, FailFine DEF ReadCount, Early
<1>6. QED BY <1>4, <1>5

-----------------------------------------------------------------------------
(* What is answered at once.                                               *)

AtKnown(p) == call[p].at = "known"

\* What is known of a program whose call has learned what it needs.
LEMMA KnownHas ==
    ASSUME DdmInv, NEW p \in setting.who, AtKnown(p)
    PROVE  /\ p \in DdmProcs /\ Shapes /\ Mine(p) /\ Proper(call[p].ask)
           /\ DOMAIN call[p] = {"at", "ask", "i", "buf", "missed"} /\ ddm[p] \in Library
           /\ call[p].i = 1 /\ call[p].buf = <<>>
           /\ call[p].ask.op \in Counted => ddm[p].cnt = setting.pages \/ (call[p].ask.op = "SaveInfoToIni" /\ call[p].missed)
<1>1. p \in DdmProcs /\ Shapes /\ Mine(p)
  BY SettingFacts DEF DdmInv, Shapes
<1>2. ddm[p] \in Library
  BY <1>1 DEF Shapes
<1>3. Proper(call[p].ask) /\ DOMAIN call[p] = {"at", "ask", "i", "buf", "missed"}
  BY <1>1 DEF Mine, CallShape, AtKnown
<1>4. call[p].i = 1 /\ call[p].buf = <<>>
  BY <1>1 DEF Mine, Place, AtKnown
<1>5. call[p].ask.op \in Counted => ddm[p].cnt = setting.pages \/ (call[p].ask.op = "SaveInfoToIni" /\ call[p].missed)
  BY <1>1 DEF Mine, Place, AtKnown
<1>6. QED BY <1>1, <1>2, <1>3, <1>4, <1>5

\* A call answered from what is known.
LEMMA AnswerFine ==
    ASSUME DdmInv, NEW p \in setting.who, NEW w, Settle(p, w) \/ Report(p, w),
           LET a == call[p].ask
           IN /\ a.op \in Versions \cup Identities \cup Sizes \cup Infos \cup {"GetBoardID", "SaveInfoToIni"}
              /\ a.op \in Sizes => w = <<setting.cols, setting.rows>>
              /\ a.op = "SaveInfoToIni" => call[p].missed \/ w = <<setting.pages>>
              /\ a.op \in Infos => a.ids = <<>>
    PROVE  Fine(p)
<1> DEFINE a == call[p].ask
<1>1. setting' = setting /\ disp' = disp /\ ddm' = ddm /\ Tell(p, w)
  BY DEF Settle, Report
<1>2. a.op \notin GetConfigs \cup SetConfigs \cup Texts \cup {"SaveOLED"}
  BY Kinds
<1>3. a.op \notin GetConfigs /\ a.op \notin SetConfigs /\ a.op \notin {"GetOLED", "SetOLED", "SaveOLED"}
  BY <1>2 DEF Texts
<1>4. ASSUME said'[p].what = w PROVE Told(p) /\ Obeyed(p)
  <2>1. a.op \in Infos => \A k \in DOMAIN a.ids : Described(a.ids[k], w[k])
    OBVIOUS
  <2>2. Told(p)
    BY <1>3, <1>4, <2>1, ToldWhen
  <2>3. Obeyed(p)
    BY <1>3, ObeyedWhen
  <2>4. QED BY <2>2, <2>3
<1>5. QED BY <1>1, <1>4, TellFine

\* The calls that only tell what is known.
LEMMA PlainFine ==
    ASSUME DdmInv, NEW p \in setting.who,
           \/ GetID(p) \/ AICVerify(p) \/ GetEKitVer(p) \/ GetVer(p) \/ GetBoardID(p)
           \/ GetFW(p) \/ GetBootLoad(p) \/ GetOLEDInfo(p) \/ GetOLEDInfoNI(p) \/ SaveInfoToIni(p)
    PROVE  Fine(p)
<1>1. AtKnown(p)
  BY DEF AtKnown, Calls, At, GetID, AICVerify, GetEKitVer, GetVer, GetBoardID, GetFW, GetBootLoad,
         GetOLEDInfo, GetOLEDInfoNI, SaveInfoToIni
<1> DEFINE o == call[p].ask.op
           Ok(w) == (Settle(p, w) \/ Report(p, w))
<1>2. CASE GetID(p) \/ AICVerify(p) \/ GetEKitVer(p) \/ GetVer(p) \/ GetBoardID(p)
  <2>1. o \in Identities \cup {"GetBoardID"} /\ Settle(p, <<>>)
    BY <1>2 DEF Calls, Request, GetID, AICVerify, GetEKitVer, GetVer, GetBoardID, Identities
  <2>2. o \notin Sizes /\ o # "SaveInfoToIni" /\ o \notin Infos
    BY <2>1, Kinds
  <2>3. QED BY <2>1, <2>2, AnswerFine
<1>3. CASE GetFW(p) \/ GetBootLoad(p)
  <2>1. o \in Versions /\ \E w : Report(p, w)
    BY <1>3 DEF Calls, Request, GetFW, GetBootLoad, Versions
  <2>2. o \notin Sizes /\ o # "SaveInfoToIni" /\ o \notin Infos
    BY <2>1, Kinds
  <2>3. QED BY <2>1, <2>2, AnswerFine
<1>4. CASE GetOLEDInfo(p) \/ GetOLEDInfoNI(p)
  <2>1. o \in Sizes /\ Report(p, <<setting.cols, setting.rows>>)
    BY <1>4 DEF Calls, Request, GetOLEDInfo, GetOLEDInfoNI, Sizes
  <2>2. o # "SaveInfoToIni" /\ o \notin Infos
    BY <2>1, Kinds
  <2>3. QED BY <2>1, <2>2, AnswerFine
<1>5. CASE SaveInfoToIni(p)
  <2>1. o = "SaveInfoToIni" /\ Report(p, <<ddm[p].cnt>>)
    BY <1>5 DEF Calls, Request, SaveInfoToIni
  <2>2. o \notin Sizes /\ o \notin Infos /\ o \in Counted
    BY <2>1, Kinds, Steps
  <2>3. call[p].missed \/ <<ddm[p].cnt>> = <<setting.pages>>
    BY <1>1, <2>2, KnownHas
  <2>4. QED BY <2>1, <2>2, <2>3, AnswerFine
<1>6. QED BY <1>2, <1>3, <1>4, <1>5

-----------------------------------------------------------------------------
(* Which pages a call is about.                                            *)

\* The ids a call goes on with are of its form, and the cursors stay counters.
LEMMA ChosenIs ==
    ASSUME DdmInv, NEW p \in setting.who, AtKnown(p), ddm[p].cnt = setting.pages
    PROVE  /\ Chosen(p) \in Seq(Nat) /\ Len(Chosen(p)) <= Len(call[p].ask.ids)
           /\ call[p].ask.op \in Singles => Len(Chosen(p)) = 1
<1> DEFINE a == call[p].ask  n == Least(Len(a.ids), ddm[p].cnt)
<1>1. a \in DdmAsk /\ (a.op \in Singles => Len(a.ids) = 1) /\ ddm[p] \in Library /\ setting.pages \in 1..4
  BY KnownHas, SettingFacts DEF Proper, DdmInv, Shapes
<1>2. a.ids \in Seq(Nat) /\ Len(a.ids) \in Nat
  BY <1>1 DEF DdmAsk
<1>3. n \in Nat /\ n <= Len(a.ids) /\ (a.op \in Singles => n = 1)
  <2> DEFINE m == Len(a.ids)  k == ddm[p].cnt
  <2>1. m \in Nat /\ k \in 1..4 /\ n = (IF m < k THEN m ELSE k)
    BY <1>1, <1>2 DEF Least
  <2>2. a.op \in Singles => m = 1
    BY <1>1
  <2> HIDE DEF m, k, n
  <2>3. n \in Nat /\ n <= m /\ (m = 1 => n = 1)
    BY <2>1
  <2>4. QED BY <2>2, <2>3 DEF m
<1>4. ddm[p][Cursor(a.op)] \in Nat
  BY <1>1 DEF Library, Cursor
<1> HIDE DEF n
<1>5. NextTurn(p, n) \in Seq(Nat) /\ Len(NextTurn(p, n)) = n
  <2> DEFINE c == ddm[p][Cursor(a.op)]  m == ddm[p].cnt
  <2>1. c \in Nat /\ m \in 1..4
    BY <1>1, <1>4
  <2>2. NextTurn(p, n) = [i \in 1..n |-> ((c + i - 1) % m) + 1]
    BY DEF NextTurn, Request
  <2> HIDE DEF c, m
  <2>3. \A i \in 1..n : ((c + i - 1) % m) + 1 \in Nat
    BY <1>3, <2>1
  <2>4. QED BY <1>3, <2>2, <2>3
<1>6. Chosen(p) = IF InTurn(p) THEN NextTurn(p, n) ELSE a.ids
  BY DEF Chosen, Request, n
<1>7. QED BY <1>1, <1>2, <1>3, <1>5, <1>6

\* A cursor moves; the rest of the library stays.
LEMMA CursorMoved ==
    ASSUME NEW r \in Library, NEW f \in {"InfoIdx", "GetCfgIdx", "SetCfgIdx"}, NEW v \in Nat
    PROVE  LET l == [r EXCEPT ![f] = v] IN l \in Library /\ l.text = r.text /\ l.cnt = r.cnt
<1>1. CASE f = "InfoIdx"
  BY <1>1 DEF Library
<1>2. CASE f = "GetCfgIdx"
  BY <1>2 DEF Library
<1>3. CASE f = "SetCfgIdx"
  BY <1>3 DEF Library
<1>4. QED BY <1>1, <1>2, <1>3

\* Moved changes no more than a cursor.
LEMMA MovedIs ==
    ASSUME DdmInv, NEW p \in setting.who, AtKnown(p), ddm[p].cnt = setting.pages, ddm' = Moved(p)
    PROVE  \E l \in Library : l.text = ddm[p].text /\ l.cnt = setting.pages /\ ddm' = [ddm EXCEPT ![p] = l]
<1> DEFINE f == Cursor(Request(p).op)
           v == (ddm[p][f] + Len(Chosen(p))) % ddm[p].cnt
           l == [ddm[p] EXCEPT ![f] = v]
<1>1. p \in DdmProcs /\ ddm \in [DdmProcs -> Library] /\ setting.pages \in 1..4
  BY KnownHas, SettingFacts DEF DdmInv, Shapes
<1>2. f \in {"InfoIdx", "GetCfgIdx", "SetCfgIdx"}
  BY DEF Cursor
<1>3. v \in Nat
  <2>1. ddm[p][f] \in Nat
    BY <1>1, <1>2 DEF Library
  <2>2. Len(Chosen(p)) \in Nat
    BY ChosenIs
  <2> HIDE DEF f
  <2>3. QED BY <1>1, <2>1, <2>2
<1>4. CASE InTurn(p)
  <2>1. ddm' = [ddm EXCEPT ![p][f] = v]
    BY <1>1, <1>2, <1>4 DEF Moved, Library
  <2> HIDE DEF v, f
  <2>2. l \in Library /\ l.text = ddm[p].text /\ l.cnt = setting.pages
    BY <1>1, <1>2, <1>3, CursorMoved
  <2>3. ddm' = [ddm EXCEPT ![p] = l]
    BY <2>1
  <2> HIDE DEF l
  <2>4. QED BY <2>2, <2>3
<1>5. CASE ~InTurn(p)
  BY <1>1, <1>5 DEF Moved
<1>6. QED BY <1>4, <1>5

\* A call that goes on to its pages.
Taken(p, t, b) ==
    LET c == call'[p]
    IN /\ DOMAIN call' = DdmProcs /\ \A q \in DdmProcs \ {p} : call'[q] = call[q]
       /\ DOMAIN c = {"at", "ask", "i", "buf", "missed"}
       /\ c.at = t /\ c.ask = [call[p].ask EXCEPT !.ids = Chosen(p)] /\ c.i = 1 /\ c.buf = b

\* The call that takes its pages.
LEMMA TakenIs ==
    ASSUME DdmInv, NEW p \in setting.who, AtKnown(p), ddm[p].cnt = setting.pages, NEW t, NEW b,
           \/ call' = [call EXCEPT ![p].at = t, ![p].ask.ids = Chosen(p)] /\ b = <<>>
           \/ call' = [call EXCEPT ![p].at = t, ![p].ask.ids = Chosen(p), ![p].buf = b]
    PROVE  /\ Taken(p, t, b) /\ CallShape(call'[p])
           /\ call'[p].ask.op = call[p].ask.op /\ call'[p].ask.ids = Chosen(p)
           /\ call'[p].ask.vis = call[p].ask.vis /\ call'[p].ask.seq = call[p].ask.seq
<1> DEFINE a == call[p].ask  ids == Chosen(p)  d == [a EXCEPT !.ids = ids]
<1>1. /\ p \in DdmProcs /\ DOMAIN call = DdmProcs /\ DOMAIN call[p] = {"at", "ask", "i", "buf", "missed"}
      /\ call[p].i = 1 /\ call[p].buf = <<>> /\ Proper(a)
  BY KnownHas DEF Shapes
<1>2. ids \in Seq(Nat) /\ Len(ids) <= Len(a.ids) /\ (a.op \in Singles => Len(ids) = 1)
  BY ChosenIs
<1> HIDE DEF ids
<1>3. /\ DOMAIN d = DOMAIN a /\ d \in DdmAsk /\ d.op = a.op /\ d.ids = ids /\ d.vis = a.vis /\ d.seq = a.seq
  BY <1>1, <1>2 DEF Proper, DdmAsk
<1>4. Proper(d)
  <2>1. /\ a.ids \in Seq(Nat) /\ a.vis \in Seq(BOOLEAN) /\ a.seq \in Seq(Nat)
        /\ a.op \in SetConfigs => Len(a.seq) >= Len(a.ids) /\ (a.vis = <<>> \/ Len(a.vis) >= Len(a.ids))
    BY <1>1 DEF Proper, DdmAsk
  <2>2. /\ Len(a.ids) \in Nat /\ Len(ids) \in Nat /\ Len(a.seq) \in Nat /\ Len(a.vis) \in Nat
    BY <1>2, <2>1
  <2>3. d.op \in SetConfigs => Len(d.seq) >= Len(d.ids) /\ (d.vis = <<>> \/ Len(d.vis) >= Len(d.ids))
    <3>1. d.op = a.op /\ d.ids = ids /\ d.vis = a.vis /\ d.seq = a.seq /\ Len(ids) <= Len(a.ids)
      BY <1>2, <1>3
    <3> HIDE DEF d, a
    <3>2. ASSUME d.op \in SetConfigs PROVE Len(d.seq) >= Len(d.ids) /\ (d.vis = <<>> \/ Len(d.vis) >= Len(d.ids))
      <4>1. Len(a.seq) >= Len(a.ids) /\ (a.vis = <<>> \/ Len(a.vis) >= Len(a.ids))
        BY <2>1, <3>1, <3>2
      <4>2. Len(d.seq) = Len(a.seq) /\ Len(d.ids) = Len(ids) /\ Len(d.vis) = Len(a.vis)
        BY <3>1
      <4>3. QED BY <2>2, <3>1, <4>1, <4>2
    <3>3. QED BY <3>2
  <2>4. d.op \in Singles => Len(d.ids) = 1
    BY <1>2, <1>3
  <2>5. QED BY <1>3, <2>3, <2>4 DEF Proper
<1>5. Taken(p, t, b)
  <2>1. CASE call' = [call EXCEPT ![p].at = t, ![p].ask.ids = ids] /\ b = <<>>
    BY <1>1, <2>1 DEF Taken, ids
  <2>2. CASE call' = [call EXCEPT ![p].at = t, ![p].ask.ids = ids, ![p].buf = b]
    BY <1>1, <2>2 DEF Taken, ids
  <2>3. QED BY <2>1, <2>2 DEF ids
<1>6. call'[p].ask = d
  BY <1>5 DEF Taken, ids
<1>7. CallShape(call'[p])
  BY <1>4, <1>5, <1>6 DEF Taken, CallShape
<1>8. QED BY <1>3, <1>5, <1>6, <1>7 DEF ids

\* A call for descriptions goes to its first page.
LEMMA InfosFine ==
    ASSUME DdmInv, NEW p \in setting.who, AtKnown(p), call[p].ask.op \in Infos, ToInfos(p)
    PROVE  Fine(p)
<1>1. ddm[p].cnt = setting.pages
  BY KnownHas, Steps, Kinds
<1>2. PICK l \in Library : l.text = ddm[p].text /\ l.cnt = setting.pages /\ ddm' = [ddm EXCEPT ![p] = l]
  BY <1>1, MovedIs DEF ToInfos
<1>3. /\ Taken(p, "next", <<>>) /\ CallShape(call'[p])
      /\ call'[p].ask.op = call[p].ask.op /\ call'[p].ask.ids = Chosen(p)
  BY <1>1, TakenIs DEF ToInfos
<1>4. Turn(p, l)
  BY <1>2, <1>3 DEF Taken, Turn, ToInfos
<1>5. Place(call'[p], l)
  <2> DEFINE c == call'[p]
  <2>1. c.at = "next" /\ c.i = 1 /\ c.buf = <<>> /\ c.ask.op \in Infos
    BY <1>3 DEF Taken
  <2>2. Len(c.ask.ids) \in Nat
    BY <1>1, <1>3, ChosenIs
  <2> HIDE DEF c
  <2>3. <<>> \in Seq(Descriptions) /\ Len(<<>>) = 0
    OBVIOUS
  <2>4. c.i \in 1..(Len(c.ask.ids) + 1) /\ c.buf \in Seq(Descriptions) /\ Len(c.buf) = c.i - 1
    BY <2>1, <2>2, <2>3
  <2>5. Place(c, l)
    BY <1>2, <2>1, <2>4 DEF Place
  <2>6. QED BY <2>5 DEF c
<1>6. Alone => Sees(call'[p], l, disp)
  <2>1. Mine(p) /\ call'[p].at = "next" /\ call'[p].i = 1
    BY <1>3, KnownHas DEF Taken
  <2>2. \A k \in 1..(call'[p].i - 1) : FALSE
    BY <2>1
  <2>3. QED BY <1>2, <2>1, <2>2 DEF Mine, Sees
<1>7. disp' = disp /\ call'[p].at # "idle"
  BY <1>3 DEF Taken, ToInfos
<1>8. QED BY <1>3, <1>4, <1>5, <1>6, <1>7, OnFine

\* The calls for descriptions, a list or one.
LEMMA ListFine ==
    ASSUME DdmInv, NEW p \in setting.who, GetDDMInfos(p) \/ GetDDMInfosNI(p) \/ GetDDMInfo(p) \/ GetDDMInfoNI(p)
    PROVE  Fine(p)
<1>1. AtKnown(p) /\ call[p].ask.op \in Infos
  BY DEF AtKnown, Calls, At, Request, GetDDMInfos, GetDDMInfosNI, GetDDMInfo, GetDDMInfoNI, Infos, InfoLists
<1>2. ToInfos(p) \/ (call[p].ask.ids = <<>> /\ Settle(p, <<ddm[p].cnt>>))
  BY DEF ListInfos, Request, GetDDMInfos, GetDDMInfosNI, GetDDMInfo, GetDDMInfoNI
<1>3. CASE ToInfos(p)
  BY <1>1, <1>3, InfosFine
<1>4. CASE call[p].ask.ids = <<>> /\ Settle(p, <<ddm[p].cnt>>)
  <2>1. call[p].ask.op \notin Sizes /\ call[p].ask.op # "SaveInfoToIni"
    BY <1>1, Kinds
  <2>2. QED BY <1>1, <1>4, <2>1, AnswerFine
<1>5. QED BY <1>2, <1>3, <1>4

\* A call that goes on to the bytes reads them.
LEMMA CtrlPlace ==
    ASSUME NEW c, NEW l, c.at = "ctrl", l.cnt = setting.pages, Within(c.ask.ids),
           c.ask.op \in GetConfigs \/ (c.ask.op \in SetConfigs /\ Injective(c.ask.ids))
    PROVE  Place(c, l)
BY DEF Place

\* The calls that get the bytes of pages.
LEMMA ConfigsFine ==
    ASSUME DdmInv, NEW p \in setting.who, GetDDMConfigs(p) \/ GetDDMConfigsNI(p) \/ GetDDMConfig(p) \/ GetDDMConfigNI(p)
    PROVE  Fine(p)
<1>1. AtKnown(p) /\ call[p].ask.op \in GetConfigs /\ Configured(p)
  BY DEF AtKnown, Calls, At, Request, GetDDMConfigs, GetDDMConfigsNI, GetDDMConfig, GetDDMConfigNI, GetConfigs, GetLists
<1>2. ddm[p].cnt = setting.pages /\ p \in DdmProcs /\ ddm[p] \in Library /\ Shapes
  BY <1>1, KnownHas, Steps, Kinds
<1>3. CASE Reject(p)
  BY <1>2, <1>3, RefuseFine DEF Reject, Shapes
<1>4. CASE AllPages(p) /\ ToConfigs(p)
  <2>1. PICK l \in Library : l.text = ddm[p].text /\ l.cnt = setting.pages /\ ddm' = [ddm EXCEPT ![p] = l]
    BY <1>1, <1>2, <1>4, MovedIs DEF ToConfigs
  <2>2. /\ Taken(p, "ctrl", <<>>) /\ CallShape(call'[p])
        /\ call'[p].ask.op = call[p].ask.op /\ call'[p].ask.ids = Chosen(p)
    BY <1>1, <1>2, <1>4, TakenIs DEF ToConfigs
  <2>3. Turn(p, l)
    BY <1>4, <2>1, <2>2 DEF Taken, Turn, ToConfigs
  <2>4. Within(call'[p].ask.ids) /\ call'[p].at = "ctrl"
    BY <1>2, <1>4, <2>2 DEF AllPages, Within, PageIds, Taken
  <2>5. Place(call'[p], l)
    BY <1>1, <2>1, <2>2, <2>4, CtrlPlace
  <2>6. Alone => Sees(call'[p], l, disp)
    <3>1. Mine(p)
      BY <1>1, KnownHas
    <3>2. QED BY <2>1, <2>4, <3>1 DEF Mine, Sees
  <2>7. disp' = disp
    BY <1>4 DEF ToConfigs
  <2>8. QED BY <2>2, <2>3, <2>4, <2>5, <2>6, <2>7, OnFine
<1>5. QED BY <1>1, <1>3, <1>4 DEF Configured

-----------------------------------------------------------------------------
(* The bytes to write.                                                     *)

\* A byte of DDMCTRL.
Fields == {"vis", "rest", "seq"}

\* The bytes to write: for the pages asked for what was asked, the bits of the others as they were.
LEMMA MergedIs ==
    ASSUME NEW n \in Nat, NEW got, DOMAIN got = 1..n, \A i \in 1..n : DOMAIN got[i] = Fields,
           NEW asked, DOMAIN asked \subseteq 1..n, \A i \in DOMAIN asked : DOMAIN asked[i] = Fields,
           NEW m, m = Merged(asked, got)
    PROVE  /\ DOMAIN m = 1..n /\ \A i \in 1..n : DOMAIN m[i] = Fields
           /\ \A i \in DOMAIN asked : m[i].vis = asked[i].vis /\ m[i].seq = asked[i].seq
           /\ \A i \in 1..n \ DOMAIN asked : m[i].vis = got[i].vis
<1> DEFINE own == {asked[i].seq : i \in DOMAIN asked}
           other == DOMAIN got \ DOMAIN asked
           loose == {i \in other : got[i].seq \in own \cup {got[j].seq : j \in {k \in other : k < i}}}
           twice == {got[i].seq : i \in loose} \cap 0..(Len(got) - 1)
           rank(S, x) == Cardinality({y \in S : y < x})
           hit(i) == i \in loose /\ rank(loose, i) < Cardinality(twice)
           new(i) == CHOOSE s \in twice : rank(twice, s) = rank(loose, i)
<1>1. m = [i \in DOMAIN got |->
             IF i \in DOMAIN asked THEN [asked[i] EXCEPT !.rest = got[i].rest]
             ELSE IF hit(i) THEN [got[i] EXCEPT !.seq = new(i)] ELSE got[i]]
  BY DEF Merged
<1> HIDE DEF hit, new
<1>2. ASSUME NEW i \in DOMAIN asked
      PROVE  m[i].vis = asked[i].vis /\ m[i].seq = asked[i].seq /\ DOMAIN m[i] = Fields
  <2>1. m[i] = [asked[i] EXCEPT !.rest = got[i].rest] /\ DOMAIN asked[i] = Fields
    BY <1>1
  <2>2. QED BY <2>1 DEF Fields
<1>3. ASSUME NEW i \in 1..n \ DOMAIN asked
      PROVE  m[i].vis = got[i].vis /\ DOMAIN m[i] = Fields
  <2>1. (m[i] = [got[i] EXCEPT !.seq = new(i)] \/ m[i] = got[i]) /\ DOMAIN got[i] = Fields
    BY <1>1
  <2>2. QED BY <2>1 DEF Fields
<1>4. DOMAIN m = 1..n
  BY <1>1
<1>5. QED BY <1>2, <1>3, <1>4

\* The bytes asked for are those of the call's lists.
LEMMA BytesIs ==
    ASSUME NEW p, NEW got, Injective(Chosen(p))
    PROVE  LET b == BytesOf(p, got) ids == Chosen(p) a == call[p].ask
           IN /\ DOMAIN b = {ids[k] : k \in DOMAIN ids} /\ \A i \in DOMAIN b : DOMAIN b[i] = Fields
              /\ \A k \in DOMAIN ids : b[ids[k]].seq = a.seq[k] /\ (a.vis # <<>> => b[ids[k]].vis = a.vis[k])
<1> DEFINE b == BytesOf(p, got)  ids == Chosen(p)  a == call[p].ask
           at(i) == CHOOSE x \in DOMAIN ids : ids[x] = i
           seen(i) == IF a.vis = <<>> THEN got[i].vis ELSE a.vis[at(i)]
<1>1. b = [i \in {ids[k] : k \in DOMAIN ids} |-> [vis |-> seen(i), rest |-> 0, seq |-> a.seq[at(i)]]]
  BY DEF BytesOf, Request
<1> HIDE DEF b, ids, seen
<1>2. ASSUME NEW k \in DOMAIN ids PROVE at(ids[k]) = k
  <2>1. at(ids[k]) \in DOMAIN ids /\ ids[at(ids[k])] = ids[k]
    BY <1>2
  <2>2. QED BY <2>1 DEF Injective, ids
<1> HIDE DEF at
<1>3. ASSUME NEW k \in DOMAIN ids PROVE b[ids[k]].seq = a.seq[k] /\ (a.vis # <<>> => b[ids[k]].vis = a.vis[k])
  <2>1. b[ids[k]] = [vis |-> seen(ids[k]), rest |-> 0, seq |-> a.seq[at(ids[k])]]
    BY <1>1
  <2>2. b[ids[k]].seq = a.seq[k] /\ b[ids[k]].vis = seen(ids[k])
    BY <1>2, <2>1
  <2>3. a.vis # <<>> => seen(ids[k]) = a.vis[k]
    BY <1>2 DEF seen
  <2>4. QED BY <2>2, <2>3
<1>4. DOMAIN b = {ids[k] : k \in DOMAIN ids} /\ \A i \in DOMAIN b : DOMAIN b[i] = Fields
  BY <1>1 DEF Fields
<1>5. QED BY <1>3, <1>4 DEF b, ids

\* What a call that sets pages writes over got: the named pages have what it
\* gives them, the others keep their bits.
Overwritten(p, n, m, got) ==
    LET ids == Chosen(p) a == call[p].ask
    IN /\ DOMAIN m = 1..n /\ \A i \in 1..n : DOMAIN m[i] = Fields
       /\ \A k \in DOMAIN ids : m[ids[k]].seq = a.seq[k] /\ (a.vis # <<>> => m[ids[k]].vis = a.vis[k])
       /\ \A i \in 1..n : i \in {ids[k] : k \in DOMAIN ids} \/ m[i].vis = got[i].vis

LEMMA SetsMerged ==
    ASSUME NEW p, NEW n \in Nat, NEW got, DOMAIN got = 1..n, \A i \in 1..n : DOMAIN got[i] = Fields,
           Injective(Chosen(p)), \A k \in DOMAIN Chosen(p) : Chosen(p)[k] \in 1..n
    PROVE  Overwritten(p, n, Merged(BytesOf(p, got), got), got)
<1> DEFINE b == BytesOf(p, got)  m == Merged(b, got)  ids == Chosen(p)  a == call[p].ask
<1>1. /\ DOMAIN b = {ids[k] : k \in DOMAIN ids} /\ \A i \in DOMAIN b : DOMAIN b[i] = Fields
      /\ \A k \in DOMAIN ids : b[ids[k]].seq = a.seq[k] /\ (a.vis # <<>> => b[ids[k]].vis = a.vis[k])
  BY BytesIs
<1>2. DOMAIN b \subseteq 1..n
  BY <1>1
<1>m. m = Merged(b, got)
  OBVIOUS
<1> HIDE DEF b, m
<1>3. /\ DOMAIN m = 1..n /\ \A i \in 1..n : DOMAIN m[i] = Fields
      /\ \A i \in DOMAIN b : m[i].vis = b[i].vis /\ m[i].seq = b[i].seq
      /\ \A i \in 1..n \ DOMAIN b : m[i].vis = got[i].vis
  <2>1. DOMAIN m = 1..n /\ \A i \in 1..n : DOMAIN m[i] = Fields
    BY <1>1, <1>2, <1>m, MergedIs
  <2>2. \A i \in DOMAIN b : m[i].vis = b[i].vis /\ m[i].seq = b[i].seq
    BY <1>1, <1>2, <1>m, MergedIs
  <2>3. \A i \in 1..n \ DOMAIN b : m[i].vis = got[i].vis
    BY <1>1, <1>2, <1>m, MergedIs
  <2>4. QED BY <2>1, <2>2, <2>3
<1> HIDE DEF ids, a
<1>4. \A k \in DOMAIN ids : m[ids[k]].seq = a.seq[k] /\ (a.vis # <<>> => m[ids[k]].vis = a.vis[k])
  BY <1>1, <1>3
<1>5. \A i \in 1..n : i \in {ids[k] : k \in DOMAIN ids} \/ m[i].vis = got[i].vis
  BY <1>1, <1>3
<1>6. QED BY <1>3, <1>4, <1>5 DEF b, m, ids, a, Overwritten

\* A list of as many pages as there are, none of them twice, names them all.
LEMMA NamesAll ==
    ASSUME NEW n \in Nat, NEW s \in Seq(Nat), Len(s) = n, Injective(s), \A k \in DOMAIN s : s[k] \in 1..n
    PROVE  \A i \in 1..n : i \in {s[k] : k \in DOMAIN s}
<1> DEFINE R == {s[k] : k \in DOMAIN s}
<1>1. DOMAIN s = 1..n
  OBVIOUS
<1>2. IsFiniteSet(1..n) /\ Cardinality(1..n) = n
  BY FS_Interval
<1>3. R \subseteq 1..n
  OBVIOUS
<1>4. s \in Bijection(1..n, R)
  <2>1. s \in [1..n -> R]
    BY <1>1
  <2>2. s \in Injection(1..n, R)
    BY <1>1, <2>1 DEF Injection, IsInjective, Injective
  <2>3. s \in Surjection(1..n, R)
    BY <1>1, <2>1 DEF Surjection
  <2>4. QED BY <2>2, <2>3 DEF Bijection
<1>5. IsFiniteSet(R) /\ Cardinality(R) = n
  BY <1>2, <1>4, FS_Bijection DEF ExistsBijection
<1>6. R = 1..n
  BY <1>2, <1>3, <1>5, FS_Subset
<1>7. QED BY <1>6

\* A call that has its bytes to write.
LEMMA WritePlace ==
    ASSUME NEW c, NEW l, c.at = "write", c.ask.op \in SetConfigs, Within(c.ask.ids),
           DOMAIN c.buf = 1..setting.pages, \A i \in 1..setting.pages : DOMAIN c.buf[i] = Fields,
           Misses(c.ask) \/ Given(c.ask, c.buf)
    PROVE  Place(c, l)
BY DEF Place, Fields

\* A call that sets pages goes to write at once if it names them all, else reads first.
LEMMA ToSetsFine ==
    ASSUME DdmInv, NEW p \in setting.who, AtKnown(p), call[p].ask.op \in SetConfigs, Acceptable(p), NEW all, ToSets(p, all),
           \/ all = Merged(BytesOf(p, Zeros(p)), Zeros(p))
           \/ all = Zeros(p) /\ call[p].ask.op \in SetSingles
    PROVE  Fine(p)
<1> DEFINE c == call'[p]  ids == Chosen(p)  a == call[p].ask  n == setting.pages
           t == IF Everything(p) THEN "write" ELSE "ctrl"
<1>1. ddm[p].cnt = n /\ p \in DdmProcs /\ ddm[p] \in Library /\ Shapes /\ Mine(p) /\ n \in 1..4
  BY KnownHas, Steps, Kinds, SettingFacts DEF Shapes
<1>2. PICK l \in Library : l.text = ddm[p].text /\ l.cnt = n /\ ddm' = [ddm EXCEPT ![p] = l]
  BY <1>1, MovedIs DEF ToSets
<1>3. /\ Taken(p, t, all) /\ CallShape(c) /\ c.ask.op = a.op /\ c.ask.ids = ids
      /\ c.ask.vis = a.vis /\ c.ask.seq = a.seq
  BY <1>1, TakenIs DEF ToSets
<1>4. c.at = t /\ c.i = 1 /\ c.buf = all
  BY <1>3 DEF Taken
<1>5. Turn(p, l) /\ disp' = disp
  BY <1>2, <1>3 DEF Taken, Turn, ToSets
<1>6. Injective(ids) /\ \A k \in DOMAIN ids : ids[k] \in 1..n
  BY <1>1 DEF Acceptable, AllPages, PageIds
<1>7. Within(c.ask.ids)
  BY <1>3, <1>6 DEF Within
<1>8. DOMAIN Zeros(p) = 1..n /\ \A i \in 1..n : DOMAIN Zeros(p)[i] = Fields
  BY <1>1 DEF Zeros, PageIds, Zero, Fields
<1>9. CASE Everything(p)
  <2>1. t = "write" /\ Len(ids) = n
    BY <1>1, <1>9 DEF Everything
  <2>2. ids \in Seq(Nat) /\ (a.op \in Singles => Len(ids) = 1)
    BY <1>1, ChosenIs
  <2> HIDE DEF ids, c
  <2>3. CASE all = Zeros(p) /\ a.op \in SetSingles
    <3>1. n = 1
      BY <2>1, <2>2, <2>3 DEF Singles
    <3>2. Misses(c.ask)
      BY <1>3, <2>3, <3>1 DEF Misses
    <3>3. Place(c, l)
      BY <1>3, <1>4, <1>7, <1>8, <2>1, <2>3, <3>2, WritePlace
    <3>4. Alone => Sees(c, l, disp)
      BY <1>1, <1>2, <1>4, <2>1, <3>2 DEF Mine, Sees
    <3>5. QED BY <1>3, <1>4, <1>5, <2>1, <3>3, <3>4, OnFine DEF c
  <2>4. CASE all = Merged(BytesOf(p, Zeros(p)), Zeros(p))
    <3>1. /\ DOMAIN all = 1..n /\ \A i \in 1..n : DOMAIN all[i] = Fields
          /\ \A k \in DOMAIN ids : all[ids[k]].seq = a.seq[k] /\ (a.vis # <<>> => all[ids[k]].vis = a.vis[k])
      BY <1>1, <1>6, <1>8, <2>4, SetsMerged DEF ids, Overwritten
    <3>2. Given(c.ask, c.buf)
      BY <1>3, <1>4, <3>1 DEF Given
    <3>3. Place(c, l)
      BY <1>3, <1>4, <1>7, <2>1, <3>1, <3>2, WritePlace
    <3>4. Unhidden(c.ask, c.buf, disp.ctrl)
      <4>1. \A i \in 1..n : i \in {ids[k] : k \in DOMAIN ids}
        BY <1>1, <1>6, <2>1, <2>2, NamesAll DEF ids
      <4>2. QED BY <1>3, <4>1 DEF Unhidden, Named
    <3>5. Alone => Sees(c, l, disp)
      BY <1>1, <1>2, <1>4, <2>1, <3>4 DEF Mine, Sees
    <3>6. QED BY <1>3, <1>4, <1>5, <2>1, <3>3, <3>5, OnFine DEF c
  <2>5. QED BY <2>3, <2>4
<1>10. CASE ~Everything(p)
  <2>1. t = "ctrl"
    BY <1>10
  <2>2. Place(c, l)
    BY <1>2, <1>3, <1>4, <1>6, <1>7, <2>1, CtrlPlace
  <2>3. Alone => Sees(c, l, disp)
    BY <1>1, <1>2, <1>4, <2>1 DEF Mine, Sees
  <2>4. QED BY <1>3, <1>4, <1>5, <2>1, <2>2, <2>3, OnFine
<1>11. QED BY <1>9, <1>10

\* The calls that set pages.
LEMMA SetsFine ==
    ASSUME DdmInv, NEW p \in setting.who, SetDDMConfigs(p) \/ SetDDMConfigsNI(p) \/ SetDDMConfig(p) \/ SetDDMConfigNI(p)
    PROVE  Fine(p)
<1>1. AtKnown(p) /\ call[p].ask.op \in SetConfigs
  BY DEF AtKnown, Calls, At, Request, SetDDMConfigs, SetDDMConfigsNI, SetDDMConfig, SetDDMConfigNI, SetConfigs, SetLists, SetSingles
<1>2. SetList(p) \/ (SetOne(p) /\ call[p].ask.op \in SetSingles)
  BY DEF Calls, Request, SetDDMConfigs, SetDDMConfigsNI, SetDDMConfig, SetDDMConfigNI, SetSingles
<1>3. ddm[p].cnt = setting.pages /\ p \in DdmProcs /\ ddm[p] \in Library /\ Shapes
  BY <1>1, KnownHas, Steps, Kinds
<1>4. CASE Acceptable(p)
  BY <1>1, <1>2, <1>4, ToSetsFine DEF SetList, SetOne
<1>5. CASE ~Acceptable(p)
  <2>1. CASE SetList(p)
    <3>1. PICK l \in Library : l.text = ddm[p].text /\ l.cnt = setting.pages /\ ddm' = [ddm EXCEPT ![p] = l]
      BY <1>1, <1>3, <1>5, <2>1, MovedIs DEF SetList
    <3>2. QED BY <1>5, <2>1, <3>1, RefuseFine DEF SetList
  <2>2. CASE SetOne(p)
    BY <1>3, <1>5, <2>2, RefuseFine DEF SetOne, Reject, Shapes
  <2>3. QED BY <1>2, <2>1, <2>2
<1>6. QED BY <1>4, <1>5

-----------------------------------------------------------------------------
(* Text.                                                                   *)

\* The calls on the text.
LEMMA TextFine ==
    ASSUME DdmInv, NEW p \in setting.who, GetOLED(p) \/ SetOLED(p)
    PROVE  Fine(p)
<1>1. AtKnown(p) /\ call[p].ask.op \in {"GetOLED", "SetOLED"} /\ ToText(p) /\ Request(p) = call[p].ask
  BY DEF AtKnown, Calls, At, Request, GetOLED, SetOLED
<1>2. p \in DdmProcs /\ ddm[p] \in Library /\ Shapes /\ Mine(p)
  BY <1>1, KnownHas
<1>3. CASE TextFits(Request(p))
  <2>1. /\ SameCall(p) /\ call'[p].at = "row" /\ said' = said
        /\ setting' = setting /\ disp' = disp /\ ddm' = ddm
    BY <1>1, <1>3, Went DEF ToText, Goto
  <2>2. Turn(p, ddm[p])
    BY <1>2, <2>1 DEF Turn, SameCall, Shapes
  <2>3. CallShape(call'[p])
    BY <1>1, <1>2, <2>1 DEF Mine, CallShape, SameCall, AtKnown
  <2>4. Place(call'[p], ddm[p])
    BY <1>1, <1>2, <1>3, <2>1 DEF Mine, Place, SameCall, AtKnown
  <2>5. Alone => Sees(call'[p], ddm[p], disp)
    BY <1>2, <2>1 DEF Mine, Sees
  <2>6. QED BY <2>1, <2>2, <2>3, <2>4, <2>5, OnFine
<1>4. CASE ~TextFits(Request(p))
  BY <1>1, <1>2, <1>4, RefuseFine DEF ToText, Reject, Shapes
<1>5. QED BY <1>3, <1>4

\* Every call once what it needs is known.
LEMMA KnownFine ==
    ASSUME DdmInv, NEW p \in setting.who, KnownStep(p)
    PROVE  Fine(p)
BY PlainFine, ListFine, ConfigsFine, SetsFine, TextFine DEF KnownStep

-----------------------------------------------------------------------------
(* Descriptions.                                                           *)

\* Cached descriptions are the pages' own.
TextsTrue(l) == \A i \in 1..4 : l.text[i] # "" => i \in 1..setting.pages /\ l.text[i] = Descr(i)

\* What is known within a call for descriptions.
LEMMA InInfos ==
    ASSUME DdmInv, NEW p \in setting.who, call[p].at \in {"next", "desc", "text"}
    PROVE  LET c == call[p] a == c.ask
           IN /\ p \in DdmProcs /\ Shapes /\ ddm[p] \in Library /\ CallShape(c) /\ Proper(a) /\ a.ids \in Seq(Nat)
              /\ a.op \in Infos /\ ddm[p].cnt = setting.pages /\ setting.pages \in 1..4
              /\ c.i \in Nat /\ c.i > 0 /\ c.i <= Len(a.ids) + 1
              /\ c.buf \in Seq(Descriptions) /\ Len(c.buf) = c.i - 1
              /\ c.at # "next" => c.i <= Len(a.ids) /\ a.ids[c.i] \in 1..setting.pages
              /\ Alone => \A k \in 1..(c.i - 1) : Described(a.ids[k], c.buf[k])
              /\ Alone => TextsTrue(ddm[p])
              /\ Alone /\ c.at = "text" => disp.page = a.ids[c.i]
<1> DEFINE c == call[p]  a == c.ask
<1>1. p \in DdmProcs /\ Shapes /\ ddm[p] \in Library /\ CallShape(c) /\ Place(c, ddm[p]) /\ (Alone => Sees(c, ddm[p], disp))
  BY SettingFacts DEF DdmInv, Shapes, Mine
<1>2. Proper(a) /\ a.ids \in Seq(Nat)
  BY <1>1 DEF CallShape, Proper, DdmAsk
<1>3. setting.pages \in 1..4
  BY <1>1, SettingFacts DEF Shapes
<1> HIDE DEF c
<1>4. c.at \in {"next", "desc", "text"}
  BY DEF c
<1>5. /\ a.op \in Infos /\ ddm[p].cnt = setting.pages /\ c.i \in 1..(Len(a.ids) + 1)
      /\ c.buf \in Seq(Descriptions) /\ Len(c.buf) = c.i - 1
      /\ c.at # "next" => c.i <= Len(a.ids) /\ a.ids[c.i] \in 1..setting.pages
  BY <1>1, <1>4 DEF Place
<1>6. Len(a.ids) \in Nat
  BY <1>2
<1>7. c.i \in Nat /\ c.i > 0 /\ c.i <= Len(a.ids) + 1
  BY <1>5, <1>6
<1>8. Alone => /\ \A k \in 1..(c.i - 1) : Described(a.ids[k], c.buf[k])
               /\ TextsTrue(ddm[p])
               /\ c.at = "text" => disp.page = a.ids[c.i]
  BY <1>1, <1>4 DEF Sees, TextsTrue
<1>9. QED BY <1>1, <1>2, <1>3, <1>5, <1>7, <1>8 DEF c

\* A word more in the buffer.
LEMMA AppendIs ==
    ASSUME NEW S, NEW s \in Seq(S), NEW w \in S, NEW i \in Nat, i > 0, Len(s) = i - 1
    PROVE  /\ Append(s, w) \in Seq(S) /\ Len(Append(s, w)) = i /\ Append(s, w)[i] = w
           /\ \A k \in 1..(i - 1) : Append(s, w)[k] = s[k]
OBVIOUS

\* One more of a range.
LEMMA UpTo ==
    ASSUME NEW i \in Nat, i > 0, NEW n \in Nat
    PROVE  /\ i <= n => i \in 1..(n + 1) /\ i + 1 \in 1..(n + 1) /\ i \in 1..n
           /\ i <= n + 1 => i \in 1..(n + 1)
           /\ i <= n + 1 /\ i > n => i - 1 = n
           /\ ~(i > n) => i <= n
           /\ (i + 1) - 1 = i
           /\ \A k \in 1..i : k = i \/ k \in 1..(i - 1)
OBVIOUS

\* One more page of a list is told.
LEMMA PutFine ==
    ASSUME DdmInv, NEW p \in setting.who, call[p].at \in {"next", "desc", "text"}, call[p].i <= Len(call[p].ask.ids),
           NEW w \in Descriptions, Put(p, w), said' = said, setting' = setting, disp' = disp,
           NEW l \in Library, ddm' = [ddm EXCEPT ![p] = l], l.cnt = setting.pages,
           Alone => Described(call[p].ask.ids[call[p].i], w) /\ TextsTrue(l)
    PROVE  Fine(p)
<1> DEFINE c == call[p]  a == c.ask  d == call'[p]  i == c.i  ids == a.ids  n == Len(ids)  b == c.buf
<1>1. p \in DdmProcs /\ Shapes /\ CallShape(c) /\ Proper(a)
  BY InInfos
<1>2. i \in Nat /\ i > 0 /\ n \in Nat /\ i <= n
  <2>1. ids \in Seq(Nat) /\ i \in Nat /\ i > 0
    BY InInfos
  <2>2. QED BY <2>1
<1>3. b \in Seq(Descriptions) /\ Len(b) = i - 1 /\ a.op \in Infos
  BY InInfos
<1>4. Alone => \A k \in 1..(i - 1) : Described(ids[k], b[k])
  BY InInfos
<1>5. /\ DOMAIN call' = DdmProcs /\ \A q \in DdmProcs \ {p} : call'[q] = call[q]
      /\ DOMAIN d = {"at", "ask", "i", "buf", "missed"}
      /\ d.at = "next" /\ d.ask = a /\ d.i = i + 1 /\ d.buf = Append(b, w)
  BY <1>1 DEF Put, Shapes, CallShape
<1>6. Turn(p, l)
  BY <1>5 DEF Turn
<1>7. CallShape(d)
  BY <1>1, <1>5 DEF CallShape
<1>8. Alone => Described(ids[i], w)
  OBVIOUS
<1>9. d.ask.ids = ids /\ d.ask.op = a.op
  BY <1>5
<1> HIDE DEF d, c, a, i, ids, n, b
<1>10. d.buf \in Seq(Descriptions) /\ Len(d.buf) = i /\ d.buf[i] = w /\ \A k \in 1..(i - 1) : d.buf[k] = b[k]
  BY <1>2, <1>3, <1>5, AppendIs
<1>11. Place(d, l)
  <2>1. d.i \in 1..(n + 1) /\ Len(d.buf) = d.i - 1 /\ n = Len(d.ask.ids)
    BY <1>2, <1>5, <1>9, <1>10, UpTo DEF n
  <2>2. QED BY <1>3, <1>5, <1>9, <1>10, <2>1 DEF Place
<1>12. ASSUME Alone PROVE Sees(d, l, disp)
  <2>1. ASSUME NEW k \in 1..(d.i - 1) PROVE Described(d.ask.ids[k], d.buf[k])
    <3>1. k = i \/ k \in 1..(i - 1)
      <4>1. k \in 1..i
        BY <1>2, <1>5, UpTo
      <4>2. QED BY <1>2, <4>1, UpTo
    <3>2. QED BY <1>4, <1>8, <1>9, <1>10, <1>12, <3>1
  <2>2. \A j \in 1..4 : l.text[j] # "" => j \in 1..setting.pages /\ l.text[j] = Descr(j)
    BY <1>12 DEF TextsTrue
  <2>3. QED BY <1>5, <2>1, <2>2 DEF Sees
<1>13. d.at # "idle"
  BY <1>5
<1>14. QED BY <1>6, <1>7, <1>11, <1>12, <1>13, OnFine DEF d

\* On to the next page, or the answer.
LEMMA NextFine ==
    ASSUME DdmInv, NEW p \in setting.who, NextInfo(p)
    PROVE  Fine(p)
<1> DEFINE c == call[p]  a == c.ask  i == c.i  ids == a.ids  n == Len(ids)  b == c.buf  j == ids[i]
<1>1. c.at = "next" /\ setting' = setting /\ disp' = disp /\ ddm' = ddm /\ Request(p) = a
  BY DEF NextInfo, At, Request
<1>2. /\ p \in DdmProcs /\ Shapes /\ CallShape(c) /\ Proper(a)
      /\ ddm[p] \in Library /\ ddm[p].cnt = setting.pages /\ setting.pages \in 1..4
  BY <1>1, InInfos
<1>3. i \in Nat /\ i > 0 /\ n \in Nat /\ i <= n + 1 /\ DOMAIN ids = 1..n
  <2>1. ids \in Seq(Nat) /\ i \in Nat /\ i > 0 /\ i <= n + 1
    BY <1>1, InInfos
  <2>2. QED BY <2>1
<1>4. b \in Seq(Descriptions) /\ Len(b) = i - 1 /\ a.op \in Infos
  BY <1>1, InInfos
<1>5. Alone => TextsTrue(ddm[p]) /\ \A k \in 1..(i - 1) : Described(ids[k], b[k])
  BY <1>1, InInfos
<1>6. ddm' = [ddm EXCEPT ![p] = ddm[p]]
  BY <1>1, <1>2 DEF Shapes
<1>7. CASE i > n
  <2>1. Tell(p, b)
    BY <1>1, <1>7 DEF NextInfo
  <2>2. a.op \notin Sizes /\ a.op # "SaveInfoToIni" /\ a.op \notin GetConfigs \cup SetConfigs /\ a.op \notin {"GetOLED", "SetOLED", "SaveOLED"}
    BY <1>4, Kinds DEF Texts
  <2>3. Obeyed(p)
    BY <2>2, ObeyedWhen
  <2>4. ASSUME said'[p].what = b, Alone PROVE Told(p)
    <3> HIDE DEF i, n, ids, b
    <3>1. DOMAIN ids = 1..(i - 1)
      BY <1>3, <1>7, UpTo
    <3>2. \A k \in DOMAIN ids : Described(ids[k], b[k])
      BY <1>5, <2>4, <3>1
    <3>3. QED BY <2>2, <2>4, <3>2, ToldWhen DEF ids
  <2>5. QED BY <1>1, <2>1, <2>3, <2>4, TellFine
<1>8. CASE ~(i > n) /\ Missing(p)
  <2>1. call' = [call EXCEPT ![p].at = "desc"] /\ said' = said
    BY <1>1, <1>8 DEF NextInfo
  <2>2. SameCall(p) /\ call'[p].at = "desc"
    BY <1>2, <2>1 DEF SameCall, CallShape, Shapes
  <2>3. j \in 1..setting.pages
    BY <1>2, <1>8 DEF Missing, PageIds
  <2>4. Turn(p, ddm[p])
    BY <1>1, <1>2, <1>6, <2>1, <2>2 DEF Turn, SameCall
  <2>5. CallShape(call'[p])
    BY <1>2, <2>2 DEF SameCall, CallShape
  <2>6. i <= n /\ i \in 1..(n + 1)
    <3> HIDE DEF i, n
    <3>1. QED BY <1>3, <1>8, UpTo
  <2>7. Place(call'[p], ddm[p])
    BY <1>2, <1>4, <2>2, <2>3, <2>6 DEF Place, SameCall
  <2>8. Alone => Sees(call'[p], ddm[p], disp)
    BY <1>5, <2>2 DEF Sees, SameCall, TextsTrue
  <2>9. QED BY <1>1, <2>2, <2>4, <2>5, <2>7, <2>8, OnFine
<1>9. CASE ~(i > n) /\ ~Missing(p)
  <2> DEFINE w == IF j \in 1..setting.pages THEN ddm[p].text[j] ELSE "none"
  <2>1. Put(p, w) /\ said' = said
    BY <1>1, <1>2, <1>9 DEF NextInfo, PageIds
  <2>2. j \in 1..setting.pages => ddm[p].text[j] # ""
    BY <1>2, <1>9 DEF Missing, PageIds
  <2> HIDE DEF j
  <2>3. j \in 1..setting.pages => j \in 1..4
    BY <1>2
  <2>4. w \in Descriptions
    BY <1>2, <2>2, <2>3 DEF Descriptions, Library
  <2>5. Alone => Described(j, w)
    BY <1>5, <2>2, <2>3 DEF Described, TextsTrue
  <2>6. i <= n
    <3> HIDE DEF i, n
    <3>1. QED BY <1>3, <1>9, UpTo
  <2> HIDE DEF w
  <2>7. QED BY <1>1, <1>2, <1>5, <1>6, <2>1, <2>4, <2>5, <2>6, PutFine DEF j
<1>10. QED BY <1>7, <1>8, <1>9

\* A display that has its form.
Panel(d) ==
    /\ DOMAIN d = {"ctrl", "row", "page", "cells", "saved"}
    /\ d.page \in 1..setting.pages
    /\ DOMAIN d.ctrl = 1..setting.pages
    /\ \A i \in 1..setting.pages : DOMAIN d.ctrl[i] = {"vis", "rest", "seq"}
    /\ DOMAIN d.cells = Cells

\* The rest of the library, where the display keeps its form.
LEMMA ShapesMove ==
    ASSUME DdmInv, NEW p \in setting.who, NEW l, Turn(p, l), NEW d, disp' = d, Panel(d)
    PROVE  Shapes' /\ Aside(p) /\ ddm'[p] = l
<1>1. p \in DdmProcs /\ Shapes
  BY SettingFacts DEF DdmInv, Shapes
<1>2. Library' = Library /\ Cells' = Cells /\ setting' = setting
  BY DEF Library, Cells, Turn
<1>3. DOMAIN call' = DdmProcs /\ ddm' \in [DdmProcs -> Library] /\ ddm'[p] = l
  BY <1>1 DEF Shapes, Turn
<1>4. DOMAIN said' = DdmProcs
  BY <1>1 DEF Shapes, Turn
<1>5. Aside(p)
  BY <1>1 DEF Aside, Shapes, Turn
<1>6. Shapes'
  BY <1>1, <1>2, <1>3, <1>4 DEF Shapes, Panel
<1>7. QED BY <1>3, <1>5, <1>6

\* The page is selected, or not.
LEMMA SelectDescFine ==
    ASSUME DdmInv, NEW p \in setting.who, NEW ok \in BOOLEAN, SelectDesc(p, ok)
    PROVE  Fine(p)
<1> DEFINE c == call[p]  a == c.ask  i == c.i  ids == a.ids  n == Len(ids)  j == ids[i]
           d == [disp EXCEPT !.page = j]
<1>1. c.at = "desc" /\ setting' = setting /\ ddm' = ddm /\ Request(p) = a
  BY DEF SelectDesc, At, Request
<1>2. /\ p \in DdmProcs /\ Shapes /\ CallShape(c) /\ Proper(a)
      /\ ddm[p] \in Library /\ ddm[p].cnt = setting.pages
  BY <1>1, InInfos
<1>3. i <= n /\ j \in 1..setting.pages
  BY <1>1, InInfos
<1>4. Alone => TextsTrue(ddm[p]) /\ \A k \in 1..(i - 1) : Described(ids[k], c.buf[k])
  BY <1>1, InInfos
<1>5. ddm' = [ddm EXCEPT ![p] = ddm[p]]
  BY <1>1, <1>2 DEF Shapes
<1>6. CASE ok
  <2>1. disp' = d /\ SameCall(p) /\ call'[p].at = "text" /\ said' = said
    BY <1>1, <1>6, Went DEF SelectDesc, Goto
  <2>2. Panel(d) /\ d.page = j /\ d.cells = disp.cells /\ d.ctrl = disp.ctrl
    BY <1>2, <1>3 DEF Panel, Shapes
  <2>3. Turn(p, ddm[p])
    BY <1>1, <1>2, <1>5, <2>1 DEF Turn, SameCall
  <2>4. Shapes' /\ Aside(p) /\ ddm'[p] = ddm[p]
    BY <2>1, <2>2, <2>3, ShapesMove
  <2>5. CallShape(call'[p])
    BY <1>2, <2>1 DEF SameCall, CallShape
  <2>6. Place(call'[p], ddm'[p])
    <3>1. a.op \in Infos /\ c.buf \in Seq(Descriptions) /\ Len(c.buf) = i - 1 /\ i \in 1..(n + 1)
      <4>1. a.op \in Infos /\ c.buf \in Seq(Descriptions) /\ Len(c.buf) = i - 1 /\ i \in Nat /\ i > 0 /\ ids \in Seq(Nat)
        BY <1>1, InInfos
      <4>2. n \in Nat
        BY <4>1
      <4> HIDE DEF n, i
      <4>3. QED BY <1>3, <4>1, <4>2, UpTo
    <3>2. QED BY <1>2, <1>3, <2>1, <2>4, <3>1 DEF Place, SameCall
  <2>7. Alone => Sees(call'[p], ddm'[p], disp')
    BY <1>4, <2>1, <2>2, <2>4 DEF Sees, SameCall, TextsTrue
  <2>8. Spared(p)
    BY <2>1, <2>2 DEF Spared
  <2>9. QED BY <2>1, <2>4, <2>5, <2>6, <2>7, <2>8, StayFine
<1>7. CASE ~ok
  <2>1. disp' = disp /\ Put(p, "kept") /\ said' = said
    BY <1>1, <1>7 DEF SelectDesc
  <2>2. "kept" \in Descriptions /\ Described(j, "kept")
    BY <1>3 DEF Descriptions, Described
  <2>3. QED BY <1>1, <1>2, <1>3, <1>4, <1>5, <2>1, <2>2, PutFine
<1>8. QED BY <1>6, <1>7

\* A program on its own reads the description of the page it has selected.
LEMMA ReadDescFine ==
    ASSUME DdmInv, NEW p \in setting.who, NEW ok \in BOOLEAN, ReadDesc(p, ok)
    PROVE  Fine(p)
<1> DEFINE c == call[p]  a == c.ask  i == c.i  ids == a.ids  n == Len(ids)  j == ids[i]
           t == Descr(disp.page)  l == [ddm[p] EXCEPT !.text[j] = t]
<1>1. c.at = "text" /\ setting' = setting /\ disp' = disp /\ said' = said /\ Request(p) = a
  BY DEF ReadDesc, Reads, At, Request
<1>2. /\ p \in DdmProcs /\ Shapes
      /\ ddm \in [DdmProcs -> Library] /\ ddm[p].cnt = setting.pages /\ setting.pages \in 1..4
  BY <1>1, InInfos DEF Shapes
<1>3. i <= n /\ j \in 1..setting.pages
  BY <1>1, InInfos
<1>4. Alone => TextsTrue(ddm[p]) /\ disp.page = j
  BY <1>1, InInfos
<1>5. t \in {"", "p1", "p2", "p3", "p4"} /\ disp.page \in 1..setting.pages
  <2>1. disp.page \in {1, 2, 3, 4} /\ disp.page \in 1..setting.pages
    BY <1>2 DEF Shapes
  <2>2. Names[1] = "p1" /\ Names[2] = "p2" /\ Names[3] = "p3" /\ Names[4] = "p4"
    BY DEF Names
  <2>3. Names[disp.page] \in {"p1", "p2", "p3", "p4"}
    BY <2>1, <2>2
  <2>4. QED BY <2>1, <2>3 DEF Descr
<1>6. CASE ok
  <2>1. ddm' = [ddm EXCEPT ![p].text[j] = t] /\ Put(p, t)
    BY <1>1, <1>6 DEF ReadDesc, Descr
  <2> HIDE DEF t, j
  <2>2. ddm[p] \in Library /\ j \in 1..4
    BY <1>2, <1>3
  <2>3. l.text = [ddm[p].text EXCEPT ![j] = t]
    BY <2>2 DEF Library
  <2>4. l \in Library /\ l.cnt = setting.pages /\ ddm' = [ddm EXCEPT ![p] = l]
    BY <1>2, <1>5, <2>1, <2>2 DEF Library
  <2>5. Alone => TextsTrue(l)
    <3>1. ddm[p].text \in [1..4 -> {"", "p1", "p2", "p3", "p4"}]
      BY <2>2 DEF Library
    <3>2. ASSUME Alone, NEW k \in 1..4, l.text[k] # "" PROVE k \in 1..setting.pages /\ l.text[k] = Descr(k)
      <4>1. CASE k = j
        BY <1>3, <1>4, <2>3, <3>1, <3>2, <4>1 DEF t
      <4>2. CASE k # j
        BY <1>4, <2>3, <3>1, <3>2, <4>2 DEF TextsTrue
      <4>3. QED BY <4>1, <4>2
    <3>3. QED BY <3>2 DEF TextsTrue
  <2>6. Alone => Described(j, t)
    BY <1>3, <1>4 DEF Described, t
  <2>7. t \in Descriptions
    BY <1>5 DEF Descriptions
  <2> HIDE DEF l
  <2>8. QED BY <1>1, <1>3, <2>1, <2>4, <2>5, <2>6, <2>7, PutFine DEF j
<1>7. CASE ~ok
  <2>1. ddm' = ddm /\ Put(p, "kept")
    BY <1>1, <1>7 DEF ReadDesc
  <2>2. "kept" \in Descriptions /\ Described(j, "kept")
    BY <1>3 DEF Descriptions, Described
  <2>3. ddm[p] \in Library /\ ddm' = [ddm EXCEPT ![p] = ddm[p]]
    BY <1>2, <2>1
  <2>4. QED BY <1>1, <1>2, <1>3, <1>4, <2>1, <2>2, <2>3, PutFine
<1>8. QED BY <1>6, <1>7

-----------------------------------------------------------------------------
(* The bytes of the pages.                                                 *)

\* What is known within a call on bytes.
LEMMA InBytes ==
    ASSUME DdmInv, NEW p \in setting.who, call[p].at \in {"ctrl", "default", "write"}
    PROVE  LET c == call[p] a == c.ask
           IN /\ p \in DdmProcs /\ Shapes /\ Mine(p) /\ ddm[p] \in Library /\ CallShape(c) /\ Proper(a) /\ a.ids \in Seq(Nat)
              /\ ddm[p].text = ddm[p].text /\ setting.pages \in 1..4 /\ Within(a.ids)
              /\ c.at # "write" => ddm[p].cnt = setting.pages
              /\ c.at = "ctrl" => a.op \in GetConfigs \/ (a.op \in SetConfigs /\ Injective(a.ids))
              /\ c.at = "default" => a.op \in GetConfigs /\ c.buf = Default(setting.pages) /\ (Alone => Blank(disp.ctrl))
              /\ c.at = "write" => /\ a.op \in SetConfigs /\ DOMAIN c.buf = 1..setting.pages
                                   /\ \A i \in 1..setting.pages : DOMAIN c.buf[i] = Fields
                                   /\ Misses(a) \/ Given(a, c.buf)
                                   /\ Alone => Misses(a) \/ Unhidden(a, c.buf, disp.ctrl)
<1> DEFINE c == call[p]  a == c.ask
<1>1. /\ p \in DdmProcs /\ Shapes /\ Mine(p) /\ ddm[p] \in Library /\ CallShape(c) /\ Place(c, ddm[p])
      /\ Alone => Sees(c, ddm[p], disp)
  BY SettingFacts DEF DdmInv, Shapes, Mine
<1>2. Proper(a) /\ a.ids \in Seq(Nat)
  BY <1>1 DEF CallShape, Proper, DdmAsk
<1>3. setting.pages \in 1..4
  BY <1>1, SettingFacts DEF Shapes
<1>4. c.at \in {"ctrl", "default", "write"}
  OBVIOUS
<1> HIDE DEF c
<1>5. /\ Within(a.ids)
      /\ c.at # "write" => ddm[p].cnt = setting.pages
      /\ c.at = "ctrl" => a.op \in GetConfigs \/ (a.op \in SetConfigs /\ Injective(a.ids))
      /\ c.at = "default" => a.op \in GetConfigs /\ c.buf = Default(setting.pages)
  BY <1>1, <1>4 DEF Place
<1>6. c.at = "write" => /\ a.op \in SetConfigs /\ DOMAIN c.buf = 1..setting.pages
                        /\ \A i \in 1..setting.pages : DOMAIN c.buf[i] = Fields
                        /\ Misses(a) \/ Given(a, c.buf)
  BY <1>1 DEF Place, Fields
<1>7. Alone => /\ c.at = "default" => Blank(disp.ctrl)
               /\ c.at = "write" => Misses(a) \/ Unhidden(a, c.buf, disp.ctrl)
  BY <1>1 DEF Sees
<1>8. QED BY <1>1, <1>2, <1>3, <1>5, <1>6, <1>7 DEF c

\* Configs tells of each page what is in its byte.
LEMMA ConfigsIs ==
    ASSUME NEW ids, NEW s, NEW k \in DOMAIN Configs(ids, s)
    PROVE  LET w == Configs(ids, s)
           IN w[k].vis = s[w[k].page].vis /\ w[k].seq = s[w[k].page].seq
BY DEF Configs

\* An answer of bytes is right if each is its page's.
LEMMA ToldGets ==
    ASSUME NEW p, call[p].ask.op \in GetConfigs, NEW w, w = said'[p].what,
           \A k \in DOMAIN w : w[k].vis = disp'.ctrl[w[k].page].vis /\ w[k].seq = disp'.ctrl[w[k].page].seq
    PROVE  Told(p)
<1> DEFINE a == call[p].ask
           D == \A k \in DOMAIN w : w[k].vis = disp'.ctrl[w[k].page].vis /\ w[k].seq = disp'.ctrl[w[k].page].seq
<1>1. a.op \notin Sizes /\ a.op # "SaveInfoToIni" /\ a.op \notin Infos /\ a.op # "GetOLED"
  BY Kinds DEF Texts
<1> DEFINE A == w = <<setting.cols, setting.rows>>
           B == call[p].missed \/ w = <<setting.pages>>
           C == \A k \in DOMAIN a.ids :
                 w[k] \in IF a.ids[k] \in 1..setting.pages
                          THEN {"kept", IF a.ids[k] \in setting.blank THEN "" ELSE Names[a.ids[k]]}
                          ELSE {"none"}
           E == \A k \in DOMAIN w :
              LET c == disp.cells[a.y * setting.cols + a.x + k - 1]
              IN w[k] = IF c \in Printable THEN c ELSE " "
           sizes == a.op \in Sizes
           infos == a.op \in Infos /\ a.ids # <<>>
           gets == a.op \in GetConfigs
<1>2. Told(p) = CASE sizes -> A [] a.op = "SaveInfoToIni" -> B [] infos -> C
                  [] gets -> D [] a.op = "GetOLED" -> E [] OTHER -> TRUE
  BY DEF Told
<1>3. ~sizes /\ a.op # "SaveInfoToIni" /\ ~infos /\ a.op # "GetOLED" /\ gets /\ D
  BY <1>1
<1> HIDE DEF A, B, C, D, E, sizes, infos, gets, a
<1>4. QED BY <1>2, <1>3

\* What a Get tells.
LEMMA GetTells ==
    ASSUME NEW p, NEW s, disp'.ctrl = s, said'[p].what = Configs(call[p].ask.ids, s), call[p].ask.op \in GetConfigs
    PROVE  Told(p) /\ Obeyed(p)
<1> DEFINE a == call[p].ask  w == Configs(a.ids, s)
<1>1. /\ a.op \notin Sizes /\ a.op # "SaveInfoToIni" /\ a.op \notin Infos /\ a.op \notin SetConfigs
      /\ a.op \notin {"GetOLED", "SetOLED", "SaveOLED"}
  BY Kinds DEF Texts
<1>2. \A k \in DOMAIN w : w[k].vis = s[w[k].page].vis /\ w[k].seq = s[w[k].page].seq
  BY ConfigsIs
<1> HIDE DEF w
<1>3. \A k \in DOMAIN w : w[k].vis = disp'.ctrl[w[k].page].vis /\ w[k].seq = disp'.ctrl[w[k].page].seq
  BY <1>2
<1>4. w = said'[p].what
  BY DEF w
<1>5. Told(p)
  BY <1>3, <1>4, ToldGets
<1>6. Obeyed(p)
  BY <1>1, ObeyedWhen
<1>7. QED BY <1>5, <1>6

\* What a Set tells: nothing, and is obeyed if the bytes are as it wants them.
LEMMA SetTells ==
    ASSUME NEW p, call[p].ask.op \in SetConfigs, Misses(call[p].ask) \/ Given(call[p].ask, disp'.ctrl)
    PROVE  Told(p) /\ Obeyed(p)
<1> DEFINE a == call[p].ask
<1>1. /\ a.op \notin Sizes /\ a.op # "SaveInfoToIni" /\ a.op \notin Infos /\ a.op \notin GetConfigs
      /\ a.op \notin {"GetOLED", "SetOLED", "SaveOLED"}
  BY Kinds DEF Texts
<1>2. QED BY <1>1, ToldWhen, ObeyedWhen

\* A call that reads the bytes is still about the pages it took.
LEMMA ChosenAgain ==
    ASSUME DdmInv, NEW p \in setting.who, call[p].at = "ctrl"
    PROVE  Chosen(p) = call[p].ask.ids
<1> DEFINE a == call[p].ask  ids == a.ids
<1>1. ids \in Seq(Nat) /\ Within(ids) /\ ddm[p].cnt = setting.pages /\ setting.pages \in 1..4 /\ Proper(a)
  BY InBytes
<1>2. DOMAIN ids = 1..Len(ids) /\ Len(ids) \in Nat
  BY <1>1
<1>3. CASE ids = <<>>
  <2>1. a.op \notin Singles
    BY <1>1, <1>3 DEF Proper
  <2>2. InTurn(p) /\ Least(Len(ids), ddm[p].cnt) = 0
    BY <1>1, <1>3, <2>1 DEF InTurn, Request, Least
  <2>3. Chosen(p) = NextTurn(p, 0)
    BY <2>2 DEF Chosen, Request
  <2>4. NextTurn(p, 0) = <<>>
    BY DEF NextTurn
  <2>5. QED BY <1>3, <2>3, <2>4
<1>4. CASE ids # <<>>
  <2>1. 1 \in DOMAIN ids
    BY <1>1, <1>2, <1>4
  <2>2. ids[1] \in 1..setting.pages
    BY <1>1, <2>1 DEF Within
  <2>3. ids # <<0>>
    BY <2>2
  <2>4. ~InTurn(p)
    BY <1>1, <2>1, <2>2, <2>3 DEF InTurn, Request, PageIds
  <2>5. QED BY <2>4 DEF Chosen, Request
<1>5. QED BY <1>3, <1>4

\* A call that goes on with bytes in hand.
LEMMA WithBytes ==
    ASSUME DdmInv, NEW p \in setting.who, call[p].at = "ctrl", NEW t, NEW b,
           call' = [call EXCEPT ![p].at = t, ![p].buf = b], t # "idle"
    PROVE  LET d == call'[p]
           IN /\ DOMAIN call' = DdmProcs /\ \A q \in DdmProcs \ {p} : call'[q] = call[q]
              /\ d.at = t /\ d.buf = b /\ d.ask = call[p].ask /\ CallShape(d)
<1>1. p \in DdmProcs /\ Shapes /\ CallShape(call[p]) /\ Proper(call[p].ask)
  BY InBytes
<1>2. QED BY <1>1 DEF Shapes, CallShape

\* The bytes are read, and told or merged.
LEMMA ReadCtrlFine ==
    ASSUME DdmInv, NEW p \in setting.who, NEW ok \in BOOLEAN, ReadCtrl(p, ok)
    PROVE  Fine(p)
<1> DEFINE c == call[p]  a == c.ask  n == setting.pages  d == call'[p]  s == disp.ctrl
           new == Merged(BytesOf(p, s), s)
<1>1. c.at = "ctrl" /\ setting' = setting /\ disp' = disp /\ ddm' = ddm /\ Request(p) = a
  BY DEF ReadCtrl, Reads, At, Request
<1>2. /\ p \in DdmProcs /\ Shapes /\ Mine(p) /\ ddm[p] \in Library /\ ddm[p].cnt = n
      /\ a.op \in GetConfigs \/ (a.op \in SetConfigs /\ Injective(a.ids))
      /\ Within(a.ids) /\ n \in 1..4
  BY <1>1, InBytes
<1>3. ddm' = [ddm EXCEPT ![p] = ddm[p]]
  BY <1>1, <1>2 DEF Shapes
<1>4. CASE ~ok
  BY <1>1, <1>2, <1>3, <1>4, RefuseFine DEF ReadCtrl
<1>5. CASE ok /\ a.op \in GetConfigs
  <2>1. CASE Blank(s)
    <3>1. call' = [call EXCEPT ![p].at = "default", ![p].buf = Default(n)] /\ said' = said
      BY <1>1, <1>2, <1>5, <2>1 DEF ReadCtrl
    <3>2. /\ DOMAIN call' = DdmProcs /\ \A q \in DdmProcs \ {p} : call'[q] = call[q]
          /\ d.at = "default" /\ d.buf = Default(n) /\ d.ask = a /\ CallShape(d)
      BY <1>1, <3>1, WithBytes
    <3>3. Turn(p, ddm[p])
      BY <1>1, <1>2, <1>3, <3>1, <3>2 DEF Turn
    <3> HIDE DEF d
    <3>4. Place(d, ddm[p])
      BY <1>2, <1>5, <3>2 DEF Place
    <3>5. Alone => Sees(d, ddm[p], disp)
      BY <1>2, <2>1, <3>2 DEF Sees, Mine
    <3>6. QED BY <1>1, <3>2, <3>3, <3>4, <3>5, OnFine DEF d
  <2>2. CASE ~Blank(s)
    <3>1. Tell(p, Configs(a.ids, s))
      BY <1>1, <1>5, <2>2 DEF ReadCtrl
    <3>2. QED BY <1>1, <1>5, <3>1, GetTells, TellFine
  <2>3. QED BY <2>1, <2>2
<1>6. CASE ok /\ a.op \in SetConfigs
  <2>1. a.op \notin GetConfigs
    BY <1>6, Kinds
  <2>2. Chosen(p) = a.ids /\ Injective(a.ids)
    BY <1>1, <1>2, <2>1, ChosenAgain
  <2>3. DOMAIN s = 1..n /\ \A i \in 1..n : DOMAIN s[i] = Fields
    BY <1>2 DEF Shapes, Fields
  <2>4. /\ DOMAIN new = 1..n /\ \A i \in 1..n : DOMAIN new[i] = Fields
        /\ \A k \in DOMAIN a.ids : new[a.ids[k]].seq = a.seq[k] /\ (a.vis # <<>> => new[a.ids[k]].vis = a.vis[k])
        /\ \A i \in 1..n : i \in {a.ids[k] : k \in DOMAIN a.ids} \/ new[i].vis = s[i].vis
    <3> DEFINE ids == Chosen(p)
    <3>1. \A k \in DOMAIN ids : ids[k] \in 1..n
      BY <1>2, <2>2 DEF Within
    <3>2. n \in Nat /\ Injective(ids)
      BY <1>2, <2>2
    <3>3. /\ DOMAIN new = 1..n /\ \A i \in 1..n : DOMAIN new[i] = Fields
          /\ \A k \in DOMAIN ids : new[ids[k]].seq = a.seq[k] /\ (a.vis # <<>> => new[ids[k]].vis = a.vis[k])
          /\ \A i \in 1..n : i \in {ids[k] : k \in DOMAIN ids} \/ new[i].vis = s[i].vis
      <4> HIDE DEF n, new
      <4>1. Overwritten(p, n, Merged(BytesOf(p, s), s), s)
        <5> HIDE DEF s
        <5>1. QED BY <2>3, <3>1, <3>2, SetsMerged
      <4>2. Overwritten(p, n, new, s)
        BY <4>1 DEF new
      <4>3. QED BY <4>2 DEF Overwritten
    <3>4. QED BY <2>2, <3>3
  <2> HIDE DEF new
  <2>5. Given(a, new) /\ Unhidden(a, new, s)
    BY <2>4 DEF Given, Unhidden, Named
  <2>6. CASE new = s
    <3>1. Tell(p, <<>>)
      BY <1>1, <1>6, <2>1, <2>6 DEF ReadCtrl, new
    <3>2. Given(a, disp'.ctrl)
      BY <1>1, <2>5, <2>6
    <3>3. QED BY <1>1, <1>6, <3>1, <3>2, SetTells, TellFine
  <2>7. CASE new # s
    <3>1. call' = [call EXCEPT ![p].at = "write", ![p].buf = new] /\ said' = said
      BY <1>1, <1>6, <2>1, <2>7 DEF ReadCtrl, new
    <3>2. /\ DOMAIN call' = DdmProcs /\ \A q \in DdmProcs \ {p} : call'[q] = call[q]
          /\ d.at = "write" /\ d.buf = new /\ d.ask = a /\ CallShape(d)
      BY <1>1, <3>1, WithBytes
    <3>3. Turn(p, ddm[p])
      BY <1>1, <1>2, <1>3, <3>1, <3>2 DEF Turn
    <3> HIDE DEF d
    <3>4. Place(d, ddm[p])
      BY <1>2, <1>6, <2>4, <2>5, <3>2, WritePlace
    <3>5. Alone => Sees(d, ddm[p], disp)
      BY <1>2, <2>5, <3>2 DEF Sees, Mine
    <3>6. QED BY <1>1, <3>2, <3>3, <3>4, <3>5, OnFine DEF d
  <2>8. QED BY <2>6, <2>7
<1>7. QED BY <1>2, <1>4, <1>5, <1>6

\* The form of the default bytes.
LEMMA DefaultRows ==
    ASSUME NEW n \in Nat
    PROVE  DOMAIN Default(n) = 1..n /\ \A i \in 1..n : DOMAIN Default(n)[i] = {"vis", "rest", "seq"}
BY DEF Default

\* The bytes in hand are written, and the call ends.
LEMMA BytesWritten ==
    ASSUME DdmInv, NEW p \in setting.who, call[p].at \in {"default", "write"}, setting' = setting, ddm' = ddm,
           disp' = [disp EXCEPT !.ctrl = call[p].buf], NEW w, Tell(p, w),
           DOMAIN call[p].buf = 1..setting.pages,
           \A i \in 1..setting.pages : DOMAIN call[p].buf[i] = {"vis", "rest", "seq"},
           disp'.ctrl = call[p].buf /\ said'[p].what = w => (Alone => Told(p)) /\ Obeyed(p),
           Alone => \/ call[p].ask.op \in GetConfigs /\ Blank(disp.ctrl)
                    \/ call[p].ask.op \in SetConfigs /\ Misses(call[p].ask)
                    \/ Unhidden(call[p].ask, call[p].buf, disp.ctrl)
    PROVE  Fine(p)
<1> DEFINE d == [disp EXCEPT !.ctrl = call[p].buf]
<1>1. p \in DdmProcs /\ Shapes /\ ddm[p] \in Library
  BY InBytes
<1>2. Panel(d) /\ d.ctrl = call[p].buf /\ d.cells = disp.cells
  BY <1>1 DEF Shapes, Panel
<1>3. ddm' = [ddm EXCEPT ![p] = ddm[p]]
  BY <1>1 DEF Shapes
<1>4. Turn(p, ddm[p])
  BY <1>1, <1>3 DEF Turn, Tell, Shapes
<1>5. Shapes' /\ Aside(p) /\ ddm'[p] = ddm[p]
  BY <1>2, <1>4, ShapesMove
<1>6. said'[p].what = w
  BY <1>1 DEF Tell, Shapes
<1>7. Spared(p)
  BY <1>2 DEF Spared, Unhidden, Named
<1>8. Answered(p)
  BY <1>2, <1>6, <1>7 DEF Answered
<1>9. QED BY <1>5, <1>8, IdleFine DEF Tell

\* Default bytes are written only over those never written.
LEMMA WriteDefaultFine ==
    ASSUME DdmInv, NEW p \in setting.who, NEW ok \in BOOLEAN, WriteDefault(p, ok)
    PROVE  Fine(p)
<1> DEFINE c == call[p]  a == c.ask  n == setting.pages
<1>1. c.at = "default" /\ setting' = setting /\ ddm' = ddm /\ Request(p) = a
  BY DEF WriteDefault, At, Request
<1>2. /\ p \in DdmProcs /\ Shapes /\ ddm[p] \in Library /\ n \in 1..4
      /\ a.op \in GetConfigs /\ c.buf = Default(n) /\ (Alone => Blank(disp.ctrl))
  BY <1>1, InBytes
<1>3. CASE ok
  <2> DEFINE w == Configs(a.ids, c.buf)
  <2>1. disp' = [disp EXCEPT !.ctrl = c.buf] /\ Tell(p, w)
    BY <1>1, <1>3 DEF WriteDefault
  <2>2. disp'.ctrl = c.buf /\ said'[p].what = w => (Alone => Told(p)) /\ Obeyed(p)
    BY <1>2, GetTells
  <2>3. n \in Nat
    BY <1>2
  <2>4. DOMAIN c.buf = 1..n /\ \A i \in 1..n : DOMAIN c.buf[i] = {"vis", "rest", "seq"}
    BY <1>2, <2>3, DefaultRows
  <2>5. Alone => a.op \in GetConfigs /\ Blank(disp.ctrl)
    BY <1>2
  <2> HIDE DEF w
  <2>6. QED BY <1>1, <2>1, <2>2, <2>4, <2>5, BytesWritten
<1>4. CASE ~ok
  <2>1. disp' = disp /\ Refuse(p) /\ ddm' = [ddm EXCEPT ![p] = ddm[p]]
    BY <1>1, <1>2, <1>4 DEF WriteDefault, Shapes
  <2>2. QED BY <1>1, <1>2, <2>1, RefuseFine
<1>5. QED BY <1>3, <1>4

\* The bytes in hand are written.
LEMMA WriteCtrlFine ==
    ASSUME DdmInv, NEW p \in setting.who, NEW ok \in BOOLEAN, WriteCtrl(p, ok)
    PROVE  Fine(p)
<1> DEFINE c == call[p]  a == c.ask  n == setting.pages
<1>1. c.at = "write" /\ setting' = setting /\ ddm' = ddm /\ Request(p) = a
  BY DEF WriteCtrl, At, Request
<1>2. p \in DdmProcs /\ Shapes /\ ddm[p] \in Library
  BY <1>1, InBytes
<1>3. a.op \in SetConfigs /\ (Misses(a) \/ Given(a, c.buf)) /\ (Alone => Misses(a) \/ Unhidden(a, c.buf, disp.ctrl))
  BY <1>1, InBytes
<1>4. DOMAIN c.buf = 1..n /\ \A i \in 1..n : DOMAIN c.buf[i] = {"vis", "rest", "seq"}
  BY <1>1, InBytes DEF Fields
<1>5. CASE ok
  <2>1. disp' = [disp EXCEPT !.ctrl = c.buf] /\ Tell(p, <<>>)
    BY <1>1, <1>5 DEF WriteCtrl
  <2>2. disp'.ctrl = c.buf => (Alone => Told(p)) /\ Obeyed(p)
    BY <1>3, SetTells
  <2>3. QED BY <1>1, <1>3, <1>4, <2>1, <2>2, BytesWritten
<1>6. CASE ~ok
  <2>1. disp' = disp /\ Refuse(p) /\ ddm' = [ddm EXCEPT ![p] = ddm[p]]
    BY <1>1, <1>2, <1>6 DEF WriteCtrl, Shapes
  <2>2. QED BY <1>1, <1>2, <2>1, RefuseFine
<1>7. QED BY <1>5, <1>6

-----------------------------------------------------------------------------
(* The text.                                                               *)

\* What is shown of a text is a part of it.
LEMMA ShownIs ==
    ASSUME NEW t \in Seq(STRING)
    PROVE  Shown(t) \in Seq(STRING) /\ Len(Shown(t)) <= Len(t)
<1> DEFINE S == {k \in 1..Len(t) : \A j \in 1..k : t[j] \in Printable}  n == Cardinality(S)  m == Len(t)
<1>1. m \in Nat
  OBVIOUS
<1>2. IsFiniteSet(1..m) /\ Cardinality(1..m) = m
  BY <1>1, FS_Interval
<1>3. S \in SUBSET (1..m)
  OBVIOUS
<1>4. IsFiniteSet(S) /\ n <= m
  BY <1>2, <1>3, FS_Subset
<1>5. n \in Nat
  BY <1>4, FS_CardinalityType
<1>6. Shown(t) = SubSeq(t, 1, n)
  BY DEF Shown
<1> HIDE DEF S, n
<1>7. SubSeq(t, 1, n) \in Seq(STRING) /\ Len(SubSeq(t, 1, n)) = n
  BY <1>1, <1>4, <1>5
<1>8. QED BY <1>4, <1>6, <1>7

\* Which cells a piece covers: Y is the first cell of the row.
LEMMA Covers ==
    ASSUME NEW Y \in Nat, NEW x \in Nat, NEW i \in Nat, NEW n \in Nat, NEW c \in Nat, i > 0, n > 0
    PROVE  /\ c \in (Y + x + i - 1)..(Y + x + (i + n - 1) - 1) =>
                 /\ c - (Y + x + 1 - 1) + 1 \in i..(i + n - 1)
                 /\ c = Y + x + (c - (Y + x + 1 - 1) + 1) - 1
           /\ \A k \in Nat : c = Y + x + k - 1 =>
                 /\ c \in (Y + x + i - 1)..(Y + x + (i + n - 1) - 1) <=> k \in i..(i + n - 1)
                 /\ c - (Y + x + 1 - 1) + 1 = k
OBVIOUS

\* A place in a row is a cell of the panel.
LEMMA InPanel ==
    ASSUME NEW rows \in Nat, NEW cols \in Nat, NEW x \in Nat, NEW y \in Nat, NEW k \in Nat,
           y < rows, k > 0, x + k <= cols
    PROVE  /\ y * cols \in Nat
           /\ y * cols + x + k - 1 \in 0..(rows * cols - 1)
<1>1. y * cols \in Nat /\ rows * cols \in Nat
  OBVIOUS
<1>2. y * cols + cols <= rows * cols
  <2>1. PICK d \in Nat : rows = y + 1 + d
    <3>1. rows - (y + 1) \in Nat /\ rows = y + 1 + (rows - (y + 1))
      OBVIOUS
    <3>2. QED BY <3>1
  <2>2. rows * cols = y * cols + cols + d * cols
    BY <2>1
  <2>3. d * cols \in Nat
    BY <2>1
  <2>4. QED BY <1>1, <2>2, <2>3
<1>3. QED BY <1>1, <1>2

\* What is known within a call on the text.
LEMMA InText ==
    ASSUME DdmInv, NEW p \in setting.who, call[p].at \in {"row", "cells", "put"}
    PROVE  LET c == call[p] a == c.ask t == Shown(a.text)
           IN /\ p \in DdmProcs /\ Shapes /\ Mine(p) /\ ddm[p] \in Library /\ CallShape(c) /\ Proper(a)
              /\ a.x \in Nat /\ a.y \in Nat /\ a.text \in Seq(STRING) /\ t \in Seq(STRING)
              /\ Len(t) \in Nat /\ Len(a.text) \in Nat /\ Len(t) <= Len(a.text)
              /\ setting.cols \in Nat /\ setting.rows \in Nat
              /\ a.op \in {"GetOLED", "SetOLED"} /\ TextFits(a)
              /\ c.at = "put" => a.op = "SetOLED" /\ c.i \in Nat /\ c.i > 0 /\ c.i <= Len(t) + 1
              /\ c.at # "put" => c.i = 1
              /\ Alone /\ c.at = "cells" => disp.row = a.y
              /\ Alone => TextsTrue(ddm[p])
<1> DEFINE c == call[p]  a == c.ask  t == Shown(a.text)
<1>1. /\ p \in DdmProcs /\ Shapes /\ Mine(p) /\ ddm[p] \in Library /\ CallShape(c) /\ Place(c, ddm[p])
      /\ Alone => Sees(c, ddm[p], disp)
  BY SettingFacts DEF DdmInv, Shapes, Mine
<1>2. Proper(a) /\ a.x \in Nat /\ a.y \in Nat /\ a.text \in Seq(STRING)
  BY <1>1 DEF CallShape, Proper, DdmAsk
<1>3. setting.cols \in Nat /\ setting.rows \in Nat
  BY <1>1, SettingFacts DEF Shapes
<1>4. t \in Seq(STRING) /\ Len(t) <= Len(a.text)
  BY <1>2, ShownIs
<1>5. Len(t) \in Nat /\ Len(a.text) \in Nat
  BY <1>2, <1>4
<1>6. c.at \in {"row", "cells", "put"}
  OBVIOUS
<1> HIDE DEF c, t
<1>7. a.op \in {"GetOLED", "SetOLED"} /\ TextFits(a) /\ (c.at = "put" => a.op = "SetOLED" /\ c.i \in 1..(Len(t) + 1))
  BY <1>1, <1>6 DEF Place, t
<1>8. c.at = "put" => c.i \in Nat /\ c.i > 0 /\ c.i <= Len(t) + 1
  BY <1>5, <1>7
<1>9. c.at # "put" => c.i = 1
  BY <1>1, <1>6 DEF Place
<1>10. Alone => (c.at = "cells" => disp.row = a.y) /\ TextsTrue(ddm[p])
  BY <1>1 DEF Sees, TextsTrue
<1>11. QED BY <1>1, <1>2, <1>3, <1>4, <1>5, <1>7, <1>8, <1>9, <1>10 DEF c, t

\* Where a call on the text may be.
LEMMA TextPlace ==
    ASSUME NEW c, NEW l, c.at \in {"row", "cells", "put"}, c.ask.op \in {"GetOLED", "SetOLED"}, TextFits(c.ask),
           c.at \in {"row", "cells"} => c.i = 1,
           c.at = "put" => c.ask.op = "SetOLED" /\ c.i \in 1..(Len(Shown(c.ask.text)) + 1)
    PROVE  Place(c, l)
BY DEF Place

\* The row is selected.
LEMMA SelectRowFine ==
    ASSUME DdmInv, NEW p \in setting.who, NEW ok \in BOOLEAN, SelectRow(p, ok)
    PROVE  Fine(p)
<1> DEFINE c == call[p]  a == c.ask  d == [disp EXCEPT !.row = a.y]
<1>1. c.at = "row" /\ setting' = setting /\ ddm' = ddm /\ Request(p) = a
  BY DEF SelectRow, At, Request
<1>2. /\ p \in DdmProcs /\ Shapes /\ ddm[p] \in Library /\ CallShape(c) /\ Proper(a) /\ c.i = 1
      /\ a.op \in {"GetOLED", "SetOLED"} /\ TextFits(a) /\ (Alone => TextsTrue(ddm[p]))
  BY <1>1, InText
<1>3. ddm' = [ddm EXCEPT ![p] = ddm[p]]
  BY <1>1, <1>2 DEF Shapes
<1>4. CASE ok
  <2>1. disp' = d /\ SameCall(p) /\ call'[p].at = "cells" /\ said' = said
    BY <1>1, <1>4, Went DEF SelectRow, Goto
  <2>2. Panel(d) /\ d.row = a.y /\ d.cells = disp.cells /\ d.ctrl = disp.ctrl
    BY <1>2 DEF Panel, Shapes
  <2>3. Turn(p, ddm[p])
    BY <1>1, <1>2, <1>3, <2>1 DEF Turn, SameCall
  <2>4. Shapes' /\ Aside(p) /\ ddm'[p] = ddm[p]
    BY <2>1, <2>2, <2>3, ShapesMove
  <2>5. CallShape(call'[p])
    BY <1>2, <2>1 DEF SameCall, CallShape
  <2>6. Place(call'[p], ddm'[p])
    BY <1>2, <2>1, TextPlace DEF SameCall
  <2>7. Alone => Sees(call'[p], ddm'[p], disp')
    BY <1>2, <2>1, <2>2, <2>4 DEF Sees, SameCall, TextsTrue
  <2>8. Spared(p)
    BY <2>1, <2>2 DEF Spared
  <2>9. QED BY <2>1, <2>4, <2>5, <2>6, <2>7, <2>8, StayFine
<1>5. CASE ~ok
  <2>1. disp' = disp /\ Refuse(p)
    BY <1>5 DEF SelectRow
  <2>2. QED BY <1>1, <1>2, <1>3, <2>1, RefuseFine
<1>6. QED BY <1>4, <1>5

\* What the text calls tell.
LEMMA ToldText ==
    ASSUME NEW p, call[p].ask.op = "GetOLED", NEW w, w = said'[p].what,
           \A k \in DOMAIN w :
              LET c == disp.cells[call[p].ask.y * setting.cols + call[p].ask.x + k - 1]
              IN w[k] = IF c \in Printable THEN c ELSE " "
    PROVE  Told(p)
<1> DEFINE a == call[p].ask
           E == \A k \in DOMAIN w :
              LET c == disp.cells[a.y * setting.cols + a.x + k - 1]
              IN w[k] = IF c \in Printable THEN c ELSE " "
<1>1. a.op \notin Sizes /\ a.op # "SaveInfoToIni" /\ a.op \notin Infos /\ a.op \notin GetConfigs
  BY Kinds DEF Texts
<1> DEFINE A == w = <<setting.cols, setting.rows>>
           B == call[p].missed \/ w = <<setting.pages>>
           C == \A k \in DOMAIN a.ids :
                 w[k] \in IF a.ids[k] \in 1..setting.pages
                          THEN {"kept", IF a.ids[k] \in setting.blank THEN "" ELSE Names[a.ids[k]]}
                          ELSE {"none"}
           D == \A k \in DOMAIN w : w[k].vis = disp'.ctrl[w[k].page].vis /\ w[k].seq = disp'.ctrl[w[k].page].seq
           sizes == a.op \in Sizes
           infos == a.op \in Infos /\ a.ids # <<>>
           gets == a.op \in GetConfigs
<1>2. Told(p) = CASE sizes -> A [] a.op = "SaveInfoToIni" -> B [] infos -> C
                  [] gets -> D [] a.op = "GetOLED" -> E [] OTHER -> TRUE
  BY DEF Told
<1>3. ~sizes /\ a.op # "SaveInfoToIni" /\ ~infos /\ a.op = "GetOLED" /\ ~gets /\ E
  BY <1>1
<1> HIDE DEF A, B, C, D, E, sizes, infos, gets, a
<1>4. QED BY <1>2, <1>3

\* A row holds the characters of its cells.
LEMMA RowIs ==
    ASSUME NEW d, NEW y \in Nat, NEW x \in Nat, NEW k \in Nat, k > 0,
           setting.cols \in Nat, x + k <= setting.cols
    PROVE  RowCells(d, y)[x + k] = d.cells[y * setting.cols + x + k - 1]
<1> DEFINE cols == setting.cols  Y == y * cols
<1>1. x + k \in 1..cols
  OBVIOUS
<1>2. RowCells(d, y)[x + k] = d.cells[Y + (x + k) - 1]
  BY <1>1 DEF RowCells
<1>3. Y \in Nat
  OBVIOUS
<1>4. Y + (x + k) - 1 = Y + x + k - 1
  <2> HIDE DEF Y
  <2>1. QED BY <1>3
<1>5. QED BY <1>2, <1>4

\* A program on its own reads the row it has selected.
LEMMA ReadRowFine ==
    ASSUME DdmInv, NEW p \in setting.who, NEW ok \in BOOLEAN, ReadRow(p, ok)
    PROVE  Fine(p)
<1> DEFINE c == call[p]  a == c.ask  cols == setting.cols  r == RowCells(disp, disp.row)
           n == Least(Len(a.text), cols - a.x)
           w == [k \in 1..n |-> IF r[a.x + k] \in Printable THEN r[a.x + k] ELSE " "]
<1>1. c.at = "cells" /\ setting' = setting /\ disp' = disp /\ ddm' = ddm /\ Request(p) = a
  BY DEF ReadRow, Reads, At, Request
<1>2. /\ p \in DdmProcs /\ Shapes /\ ddm[p] \in Library /\ CallShape(c) /\ Proper(a) /\ c.i = 1
      /\ a.op \in {"GetOLED", "SetOLED"} /\ TextFits(a)
      /\ Alone => disp.row = a.y /\ TextsTrue(ddm[p])
      /\ a.x \in Nat /\ a.y \in Nat /\ Len(a.text) \in Nat /\ cols \in Nat /\ Len(Shown(a.text)) \in Nat
  BY <1>1, InText
<1>3. ddm' = [ddm EXCEPT ![p] = ddm[p]]
  BY <1>1, <1>2 DEF Shapes
<1>4. CASE ~ok
  BY <1>1, <1>2, <1>3, <1>4, RefuseFine DEF ReadRow
<1>5. CASE ok /\ a.op = "SetOLED"
  <2>1. SameCall(p) /\ call'[p].at = "put" /\ said' = said
    BY <1>1, <1>5, Went DEF ReadRow, Goto
  <2>2. Turn(p, ddm[p])
    BY <1>1, <1>2, <1>3, <2>1 DEF Turn, SameCall
  <2>3. CallShape(call'[p])
    BY <1>2, <2>1 DEF SameCall, CallShape
  <2>4. call'[p].ask = a /\ call'[p].i = 1
    BY <1>2, <2>1 DEF SameCall
  <2>5. 1 \in 1..(Len(Shown(a.text)) + 1)
    BY <1>2
  <2>6. Place(call'[p], ddm[p])
    BY <1>2, <1>5, <2>1, <2>4, <2>5, TextPlace
  <2>7. \A k \in 1..(call'[p].i - 1) : FALSE
    BY <2>4
  <2>8. Alone => Sees(call'[p], ddm[p], disp)
    BY <1>2, <2>1, <2>7 DEF Sees, TextsTrue
  <2>9. QED BY <1>1, <2>1, <2>2, <2>3, <2>6, <2>8, OnFine
<1>6. CASE ok /\ a.op = "GetOLED"
  <2>1. Tell(p, w)
    BY <1>1, <1>6 DEF ReadRow
  <2>2. n \in Int /\ n <= cols - a.x
    BY <1>2 DEF Least
  <2>3. DOMAIN w = 1..n
    OBVIOUS
  <2>4. ASSUME Alone, NEW k \in DOMAIN w
        PROVE  LET e == disp.cells[a.y * cols + a.x + k - 1]
               IN w[k] = IF e \in Printable THEN e ELSE " "
    <3>1. k \in Nat /\ k > 0 /\ a.x + k <= cols /\ k \in 1..n
      <4> HIDE DEF n, cols
      <4>1. QED BY <1>2, <2>2, <2>3, <2>4
    <3>2. r[a.x + k] = disp.cells[a.y * cols + a.x + k - 1]
      <4>1. r = RowCells(disp, a.y)
        BY <1>2, <2>4
      <4> HIDE DEF r
      <4>2. RowCells(disp, a.y)[a.x + k] = disp.cells[a.y * cols + a.x + k - 1]
        <5>1. a.x \in Nat /\ a.y \in Nat /\ cols \in Nat /\ k \in Nat /\ k > 0 /\ a.x + k <= cols
          BY <1>2, <3>1
        <5> HIDE DEF a, w, n
        <5>2. QED BY <5>1, RowIs
      <4>3. QED BY <4>1, <4>2
    <3>3. w[k] = IF r[a.x + k] \in Printable THEN r[a.x + k] ELSE " "
      BY <3>1
    <3>4. QED BY <3>2, <3>3
  <2> HIDE DEF w
  <2>5. ASSUME said'[p].what = w, Alone PROVE Told(p)
    BY <1>6, <2>4, <2>5, ToldText
  <2>6. Obeyed(p)
    <3>1. a.op \notin SetConfigs
      BY <1>6, Kinds DEF Texts
    <3>2. QED BY <1>6, <3>1, ObeyedWhen
  <2>7. QED BY <1>1, <2>1, <2>5, <2>6, TellFine
<1>7. QED BY <1>2, <1>4, <1>5, <1>6

\* What is saved is what is shown.
LEMMA SaveFine ==
    ASSUME DdmInv, NEW p \in setting.who, NEW ok \in BOOLEAN, Save(p, ok)
    PROVE  Fine(p)
<1> DEFINE a == call[p].ask  d == IF ok THEN [disp EXCEPT !.saved = disp.cells] ELSE disp
<1>1. call[p].at = "save" /\ setting' = setting /\ ddm' = ddm /\ disp' = d
  BY DEF Save, At
<1>2. p \in DdmProcs /\ Shapes /\ Mine(p) /\ ddm[p] \in Library
  BY SettingFacts DEF DdmInv, Shapes
<1>3. a.op = "SaveOLED"
  BY <1>1, <1>2 DEF Mine, Place
<1>4. ddm' = [ddm EXCEPT ![p] = ddm[p]]
  BY <1>1, <1>2 DEF Shapes
<1>5. Panel(d) /\ d.cells = disp.cells /\ d.ctrl = disp.ctrl /\ (ok => d.saved = disp.cells)
  BY <1>2 DEF Panel, Shapes
<1> HIDE DEF d
<1>6. (ok /\ Tell(p, <<>>)) \/ Refuse(p)
  BY DEF Save
<1>7. Turn(p, ddm[p]) /\ call' = [call EXCEPT ![p].at = "idle"]
  BY <1>1, <1>2, <1>4, <1>6 DEF Turn, Tell, Refuse, Shapes
<1>8. Shapes' /\ Aside(p) /\ ddm'[p] = ddm[p]
  BY <1>1, <1>5, <1>7, ShapesMove
<1>9. Spared(p)
  BY <1>1, <1>5 DEF Spared
<1>10. ASSUME Returns(p) PROVE Told(p) /\ Obeyed(p)
  <2>1. ok
    BY <1>2, <1>6, <1>10 DEF Refuse, Returns, NoWord, Shapes
  <2>2. disp'.saved = disp.cells
    BY <1>1, <1>5, <2>1
  <2>3. a.op \notin Sizes \cup Infos \cup GetConfigs \cup SetConfigs
    BY <1>3, Kinds
  <2>4. QED BY <1>3, <2>2, <2>3, ToldWhen, ObeyedWhen
<1>11. QED BY <1>7, <1>8, <1>9, <1>10, IdleFine DEF Answered

\* A piece is put.
LEMMA PieceIs ==
    ASSUME NEW m \in Nat, NEW i \in Nat, i > 0, i <= m, Piece \in Nat, Piece > 0
    PROVE  LET n == Least(Piece, m - i + 1)
           IN n \in Nat /\ n > 0 /\ i + n \in 1..(m + 1) /\ i + n - 1 \in Nat
BY DEF Least

\* The cells new are the cells old with a piece of t in them.
Pieced(new, old, a, t, i, n) == \A c \in Cells :
    new[c] = IF c \in Cell(a, i)..(Cell(a, i + n - 1)) THEN t[c - Cell(a, 1) + 1] ELSE old[c]

\* What new then holds, in it, before it and elsewhere.
Placed(new, old, a, t, i, n) ==
    /\ \A k \in i..(i + n - 1) : new[Cell(a, k)] = t[k]
    /\ \A k \in 1..(i - 1) : new[Cell(a, k)] = old[Cell(a, k)]
    /\ \A c \in Cells : new[c] # old[c] => \E k \in i..(i + n - 1) : c = Cell(a, k)

\* The cells after a piece: text stands as far as it was put, and nothing
\* outside the text was touched.
LEMMA PieceCells ==
    ASSUME NEW a, NEW t, NEW i \in Nat, i > 0, NEW n \in Nat, n > 0,
           a.x \in Nat, a.y \in Nat, setting.cols \in Nat, setting.rows \in Nat, a.y < setting.rows,
           Len(t) \in Nat, a.x + Len(t) <= setting.cols, i + n - 1 <= Len(t), NEW old, NEW new,
           Pieced(new, old, a, t, i, n)
    PROVE  Placed(new, old, a, t, i, n)
<1> DEFINE cols == setting.cols  Y == a.y * cols  x == a.x  m == Len(t)
<1>1. \A k \in Nat : k > 0 /\ k <= m => Y \in Nat /\ Y + x + k - 1 \in Cells
  <2> SUFFICES ASSUME NEW k \in Nat, k > 0, k <= m PROVE Y \in Nat /\ Y + x + k - 1 \in Cells
    OBVIOUS
  <2>1. x + k <= cols
    <3> HIDE DEF cols, x, m
    <3>1. QED BY DEF cols, x, m
  <2>2. Y \in Nat /\ Y + x + k - 1 \in 0..(setting.rows * cols - 1)
    BY <2>1, InPanel
  <2>3. QED BY <2>2 DEF Cells
<1>2. \A k \in Nat : Cell(a, k) = Y + x + k - 1
  BY DEF Cell
<1>3. Y \in Nat /\ x \in Nat /\ i + n - 1 \in Nat /\ m \in Nat
  BY <1>1
<1>4. /\ Cell(a, i) = Y + x + i - 1 /\ Cell(a, i + n - 1) = Y + x + (i + n - 1) - 1
      /\ Cell(a, 1) = Y + x + 1 - 1
  BY <1>2, <1>3
<1>5. \A c \in Cells : c \in Nat
  BY DEF Cells
<1>6. \A c \in Cells : new[c] = IF c \in (Y + x + i - 1)..(Y + x + (i + n - 1) - 1)
                                THEN t[c - (Y + x + 1 - 1) + 1] ELSE old[c]
  BY <1>4 DEF Pieced
<1> HIDE DEF Y, x, m
<1>7. ASSUME NEW k \in i..(i + n - 1) PROVE new[Cell(a, k)] = t[k]
  <2>1. k \in Nat /\ k > 0 /\ k <= m
    BY <1>3, <1>7 DEF m
  <2> DEFINE c == Y + x + k - 1
  <2>2. c \in Cells /\ c \in Nat /\ Cell(a, k) = c
    BY <1>1, <1>2, <1>5, <2>1
  <2>3. c \in (Y + x + i - 1)..(Y + x + (i + n - 1) - 1) /\ c - (Y + x + 1 - 1) + 1 = k
    <3>1. c = Y + x + k - 1
      OBVIOUS
    <3> HIDE DEF c
    <3>2. QED BY <1>3, <1>7, <2>1, <2>2, <3>1, Covers
  <2> HIDE DEF c
  <2>4. QED BY <1>6, <2>2, <2>3
<1>8. ASSUME NEW k \in 1..(i - 1) PROVE new[Cell(a, k)] = old[Cell(a, k)]
  <2>1. k \in Nat /\ k > 0 /\ k <= m /\ k \notin i..(i + n - 1)
    BY <1>3, <1>8 DEF m
  <2> DEFINE c == Y + x + k - 1
  <2>2. c \in Cells /\ c \in Nat /\ Cell(a, k) = c
    BY <1>1, <1>2, <1>5, <2>1
  <2>3. c \notin (Y + x + i - 1)..(Y + x + (i + n - 1) - 1)
    <3>1. c = Y + x + k - 1
      OBVIOUS
    <3> HIDE DEF c
    <3>2. QED BY <1>3, <2>1, <2>2, <3>1, Covers
  <2> HIDE DEF c
  <2>4. QED BY <1>6, <2>2, <2>3
<1>9. ASSUME NEW c \in Cells, new[c] # old[c] PROVE \E k \in i..(i + n - 1) : c = Cell(a, k)
  <2>1. c \in Nat /\ c \in (Y + x + i - 1)..(Y + x + (i + n - 1) - 1)
    BY <1>5, <1>6, <1>9
  <2> DEFINE k == c - (Y + x + 1 - 1) + 1
  <2>2. k \in i..(i + n - 1) /\ c = Y + x + k - 1
    BY <1>3, <2>1, Covers
  <2> HIDE DEF k
  <2>3. k \in Nat
    BY <1>3, <2>2
  <2>4. QED BY <1>2, <2>2, <2>3
<1>10. QED BY <1>7, <1>8, <1>9 DEF Placed

\* A piece is put, or the writing ends.
LEMMA PutPieceFine ==
    ASSUME DdmInv, NEW p \in setting.who, NEW ok \in BOOLEAN, PutPiece(p, ok)
    PROVE  Fine(p)
<1> DEFINE c == call[p]  a == c.ask  t == Shown(a.text)  i == c.i  m == Len(t)
           n == Least(Piece, m - i + 1)  e == call'[p]
           new == [x \in Cells |-> IF x \in Cell(a, i)..(Cell(a, i + n - 1))
                                   THEN t[x - Cell(a, 1) + 1] ELSE disp.cells[x]]
           d == [disp EXCEPT !.cells = new]
<1>1. c.at = "put" /\ setting' = setting /\ ddm' = ddm /\ Request(p) = a
  BY DEF PutPiece, At, Request
<1>2. /\ p \in DdmProcs /\ Shapes /\ Mine(p) /\ ddm[p] \in Library /\ CallShape(c) /\ Proper(a)
      /\ a.x \in Nat /\ a.y \in Nat /\ m \in Nat /\ Len(a.text) \in Nat /\ m <= Len(a.text)
      /\ DOMAIN t = 1..m /\ DOMAIN a.text = 1..Len(a.text)
      /\ setting.cols \in Nat /\ setting.rows \in Nat
      /\ a.op = "SetOLED" /\ TextFits(a) /\ i \in Nat /\ i > 0 /\ i <= m + 1
      /\ Alone => TextsTrue(ddm[p])
  BY <1>1, InText
<1>3. a.x + m <= setting.cols /\ a.y < setting.rows
  <2>1. m <= setting.cols - a.x /\ a.y < setting.rows
    BY <1>2 DEF TextFits
  <2> HIDE DEF m, a
  <2>2. QED BY <1>2, <2>1
<1>4. Alone => c.missed \/ \A k \in 1..(i - 1) : disp.cells[Cell(a, k)] = t[k]
  BY <1>1, <1>2 DEF Mine, Sees
<1>5. ddm' = [ddm EXCEPT ![p] = ddm[p]]
  BY <1>1, <1>2 DEF Shapes
<1>6. CASE i > m
  <2>1. Tell(p, <<>>) /\ disp' = disp
    BY <1>1, <1>6 DEF PutPiece
  <2>2. 1..(i - 1) = DOMAIN t
    <3> HIDE DEF i, m, t
    <3>1. QED BY <1>2, <1>6
  <2>3. a.op \notin Sizes \cup Infos \cup GetConfigs \cup SetConfigs
    BY <1>2, Kinds DEF Texts
  <2>4. ASSUME Alone PROVE Told(p)
    BY <1>2, <2>3, ToldWhen
  <2>5. ~Alone \/ c.missed \/ \A k \in DOMAIN t : disp.cells[Cell(a, k)] = t[k]
    BY <1>4, <2>2
  <2>6. Obeyed(p)
    BY <1>2, <2>3, <2>5, ObeyedWhen
  <2>7. QED BY <1>1, <2>1, <2>4, <2>6, TellFine
<1>7. CASE ~(i > m)
  <2>1. /\ disp' = IF ok THEN d ELSE disp
        /\ call' = [call EXCEPT ![p].i = IF ok THEN i + n ELSE m + 1, ![p].missed = @ \/ ~ok]
        /\ said' = said
    BY <1>1, <1>7 DEF PutPiece
  <2>2. /\ DOMAIN call' = DdmProcs /\ \A q \in DdmProcs \ {p} : call'[q] = call[q]
        /\ e.at = "put" /\ e.ask = a /\ e.i = (IF ok THEN i + n ELSE m + 1) /\ e.missed = (c.missed \/ ~ok)
        /\ CallShape(e)
    <3> HIDE DEF i, m, n
    <3>1. DOMAIN call = DdmProcs /\ DOMAIN c = {"at", "ask", "i", "buf", "missed"}
      BY <1>2 DEF Shapes, CallShape
    <3>2. /\ DOMAIN call' = DdmProcs /\ \A q \in DdmProcs \ {p} : call'[q] = call[q]
          /\ e = [c EXCEPT !.i = IF ok THEN i + n ELSE m + 1, !.missed = c.missed \/ ~ok]
      BY <1>2, <2>1, <3>1
    <3>3. /\ e.at = c.at /\ e.ask = c.ask /\ e.i = (IF ok THEN i + n ELSE m + 1)
          /\ DOMAIN e = {"at", "ask", "i", "buf", "missed"}
      BY <3>1, <3>2
    <3>4. e.missed = (c.missed \/ ~ok)
      BY <3>1, <3>2, Zenon
    <3>5. QED BY <1>1, <1>2, <3>2, <3>3, <3>4 DEF CallShape
  <2>3. Turn(p, ddm[p])
    BY <1>1, <1>2, <1>5, <2>1, <2>2 DEF Turn
  <2>4. Piece \in Nat /\ Piece > 0
    BY DisplayAssumption
  <2>5. n \in Nat /\ n > 0 /\ i + n \in 1..(m + 1) /\ i + n - 1 \in Nat
    <3> HIDE DEF i, m
    <3>1. QED BY <1>2, <1>7, <2>4, PieceIs
  <2>6. e.i \in 1..(m + 1)
    BY <1>2, <2>2, <2>5
  <2>7. Place(e, ddm[p])
    BY <1>2, <2>2, <2>6, TextPlace
  <2>8. CASE ok
    <3>1. Panel(d) /\ d.cells = new /\ d.ctrl = disp.ctrl /\ disp' = d
      <4>1. DOMAIN new = Cells
        OBVIOUS
      <4> HIDE DEF new
      <4>2. QED BY <1>2, <2>1, <2>8, <4>1 DEF Panel, Shapes
    <3>2. new = [x \in Cells |-> IF x \in Cell(a, i)..(Cell(a, i + n - 1)) THEN t[x - Cell(a, 1) + 1] ELSE disp.cells[x]]
      OBVIOUS
    <3> HIDE DEF new, d, t, i, n, a
    <3>3. i + n - 1 <= m
      <4> HIDE DEF m
      <4>1. QED BY <1>2, <2>5
    <3>4. /\ \A k \in i..(i + n - 1) : new[Cell(a, k)] = t[k]
          /\ \A k \in 1..(i - 1) : new[Cell(a, k)] = disp.cells[Cell(a, k)]
          /\ \A x \in Cells : new[x] # disp.cells[x] => \E k \in i..(i + n - 1) : x = Cell(a, k)
      <4>1. /\ i \in Nat /\ i > 0 /\ n \in Nat /\ n > 0 /\ a.x \in Nat /\ a.y \in Nat
            /\ setting.cols \in Nat /\ setting.rows \in Nat /\ a.y < setting.rows
            /\ Len(t) \in Nat /\ a.x + Len(t) <= setting.cols /\ i + n - 1 <= Len(t)
        BY <1>2, <1>3, <2>5, <3>3
      <4> DEFINE old == disp.cells
      <4>2. Pieced(new, old, a, t, i, n)
        BY <3>2 DEF Pieced
      <4> HIDE DEF old
      <4>3. Placed(new, old, a, t, i, n)
        BY <4>1, <4>2, PieceCells
      <4>4. QED BY <4>3 DEF old, Placed
    <3>5. Shapes' /\ Aside(p) /\ ddm'[p] = ddm[p]
      BY <2>3, <3>1, ShapesMove
    <3>6. Alone => c.missed \/ \A k \in 1..(i + n - 1) : new[Cell(a, k)] = t[k]
      <4>1. \A k \in 1..(i + n - 1) : k \in 1..(i - 1) \/ k \in i..(i + n - 1)
        BY <1>2, <2>5
      <4>2. QED BY <1>4, <3>4, <4>1
    <3>7. e.i - 1 = i + n - 1 /\ (c.missed => e.missed)
      <4>1. e.i = i + n /\ e.missed = (c.missed \/ FALSE)
        BY <2>2, <2>8
      <4> HIDE DEF e
      <4>2. e.i - 1 = i + n - 1
        BY <1>2, <2>5, <4>1
      <4>3. c.missed => e.missed
        BY <4>1
      <4>4. QED BY <4>2, <4>3
    <3>8. Alone => e.missed \/ \A k \in 1..(e.i - 1) : disp'.cells[Cell(e.ask, k)] = Shown(e.ask.text)[k]
      BY <2>2, <3>1, <3>6, <3>7 DEF t
    <3>9. Alone => Sees(e, ddm[p], disp')
      <4> HIDE DEF e
      <4>1. QED BY <1>2, <2>2, <3>8 DEF Sees, TextsTrue
    <3>10. Spared(p)
      <4>1. disp'.ctrl = disp.ctrl /\ disp'.cells = new /\ a = call[p].ask
        BY <3>1 DEF a
      <4>2. ASSUME NEW x \in Cells \ {Cell(a, k) : k \in DOMAIN a.text} PROVE new[x] = disp.cells[x]
        <5>1. \A k \in i..(i + n - 1) : k \in DOMAIN a.text
          <6> HIDE DEF m
          <6>1. QED BY <1>2, <2>5, <3>3
        <5>2. QED BY <3>4, <4>2, <5>1
      <4>3. QED BY <1>2, <4>1, <4>2 DEF Spared
    <3>11. QED BY <1>1, <2>2, <2>7, <3>5, <3>9, <3>10, StayFine
  <2>9. CASE ~ok
    <3>1. disp' = disp /\ e.missed
      BY <2>1, <2>2, <2>9
    <3>2. Alone => Sees(e, ddm[p], disp)
      <4> HIDE DEF e
      <4>1. QED BY <1>2, <2>2, <3>1 DEF Sees, TextsTrue
    <3>3. QED BY <2>2, <2>3, <2>7, <3>1, <3>2, OnFine
  <2>10. QED BY <2>8, <2>9
<1>8. QED BY <1>6, <1>7

-----------------------------------------------------------------------------
(* Every step.                                                             *)

\* Every action of DisplayStep.
LEMMA StepFine ==
    ASSUME DdmInv, NEW p \in setting.who, DisplayStep(p)
    PROVE  Fine(p)
<1>1. ASSUME NEW a \in setting.asks, Begin(p, a) PROVE Fine(p)
  BY <1>1, BeginFine
<1>2. ASSUME NEW ok \in BOOLEAN, Transfer(p, ok) PROVE Fine(p)
  <2>1. CASE EfcoId(p, ok) \/ BoardId(p, ok) \/ Version(p, ok) \/ AskCount(p, ok) \/ ReadCount(p, ok)
    BY <2>1, EfcoFine, BoardFine, VersionFine, AskFine, CountFine
  <2>2. CASE SelectDesc(p, ok) \/ ReadDesc(p, ok)
    BY <2>2, SelectDescFine, ReadDescFine
  <2>3. CASE ReadCtrl(p, ok) \/ WriteDefault(p, ok) \/ WriteCtrl(p, ok)
    BY <2>3, ReadCtrlFine, WriteDefaultFine, WriteCtrlFine
  <2>4. CASE SelectRow(p, ok) \/ ReadRow(p, ok) \/ PutPiece(p, ok) \/ Save(p, ok)
    BY <2>4, SelectRowFine, ReadRowFine, PutPieceFine, SaveFine
  <2>5. QED BY <1>2, <2>1, <2>2, <2>3, <2>4 DEF Transfer
<1>3. KnownStep(p) => Fine(p)
  BY KnownFine
<1>4. NextInfo(p) => Fine(p)
  BY NextFine
<1>5. End(p) => Fine(p)
  BY EndFine
<1>6. QED BY <1>1, <1>2, <1>3, <1>4, <1>5 DEF DisplayStep

\* Nothing happens.
LEMMA StutterKeeps == DdmInv /\ UNCHANGED ddmVars => DdmInv'
<1> SUFFICES ASSUME DdmInv, UNCHANGED ddmVars PROVE DdmInv'
  OBVIOUS
<1>1. setting' = setting /\ disp' = disp /\ ddm' = ddm /\ call' = call /\ said' = said
  BY DEF ddmVars
<1>2. Shapes'
  BY <1>1 DEF DdmInv, Shapes, Library, Cells
<1>3. ASSUME NEW p \in setting.who PROVE Mine(p)'
  BY <1>1, MineNext DEF DdmInv, Mine
<1>4. QED BY <1>1, <1>2, <1>3 DEF DdmInv

\* The invariant of the display: what every call has in hand at each of its
\* steps, and, of a program on its own, how that stands to the AIC.
THEOREM DisplayInvariant == DisplaySpec => []DdmInv
<1>1. DdmInv /\ [DisplayNext]_ddmVars => DdmInv'
  BY StepFine, OthersKeep, StutterKeeps DEF DisplayNext
<1>2. QED BY <1>1, InitInv, PTL DEF DisplaySpec

\* What one step of any program shows of all of them.
LEMMA NextAnswers ==
    ASSUME DdmInv, DisplayNext, NEW q \in setting.who
    PROVE  Answered(q)
<1>1. PICK p \in setting.who : DisplayStep(p)
  BY DEF DisplayNext
<1>2. Fine(p)
  BY <1>1, StepFine
<1>3. CASE q # p
  <2>1. call'[q] = call[q]
    BY <1>2, <1>3, SettingFacts DEF Fine, Aside, DdmInv, Shapes
  <2>2. QED BY <2>1 DEF Answered, Returns
<1>4. CASE q = p
  BY <1>2, <1>4 DEF Fine
<1>5. QED BY <1>3, <1>4

\* A call of a program on its own that returned TRUE told what the AIC has
\* (DDMI.c: the counts, the descriptions, the bytes and the rows), whatever
\* failed before and wherever earlier programs ended.
THEOREM DisplayToldHolds == DisplaySpec => DisplayTold
<1>1. DdmInv /\ [DisplayNext]_ddmVars => [Alone => \A p \in setting.who : Returns(p) => Told(p)]_ddmVars
  BY NextAnswers DEF Answered
<1>2. QED BY <1>1, DisplayInvariant, PTL DEF DisplaySpec, DisplayTold

\* A Set call that returned TRUE is seen on the display, and no call of any
\* program changes what it was not asked to (DDMI.c), except as Misses says.
THEOREM DisplayObeysHolds == DisplaySpec => DisplayObeys
<1>1. DdmInv /\ [DisplayNext]_ddmVars => [\A p \in setting.who :
    /\ Returns(p) => Obeyed(p)
    /\ call'[p] # call[p] => Spared(p)]_ddmVars
  BY NextAnswers DEF Answered
<1>2. QED BY <1>1, DisplayInvariant, PTL DEF DisplaySpec, DisplayObeys
=============================================================================
