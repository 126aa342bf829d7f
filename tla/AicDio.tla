-------------------------------- MODULE AicDio --------------------------------
(***************************************************************************)
(* The digital inputs and outputs of EKit_L/DMCI.c: two groups of sixteen  *)
(* terminals on the pins of the Super I/O chip, each used either as DIO    *)
(* (eight inputs, eight outputs that switch as sink or as source) or as    *)
(* GPIO.  No SMBus: a call writes the chip's registers through I/O ports,  *)
(* and what it may leave out it remembers in static variables, which the   *)
(* next program lacks while the chip keeps what was written.               *)
(*                                                                         *)
(* One action is one call of one program at a time: nothing keeps a second *)
(* program from the chip's index register, and none of the properties      *)
(* below would survive one.                                                *)
(***************************************************************************)
EXTENDS Naturals, FiniteSets

CONSTANTS
    DioBoards, \* how the flash may set the groups up
    Asked      \* bound: the terminals calls for a single one ask for

\* A board with the chip: the AIC's type, and the groups that are GPIO.
AllDioBoards == {b \in [v3c : BOOLEAN, gpio : SUBSET {1, 2}] : b.v3c \/ 2 \notin b.gpio}

ASSUME DioAssumption == DioBoards \subseteq AllDioBoards /\ Asked \subseteq {1, 2} \X (0..15)

VARIABLES
    flash,   \* the board; never changes
    focus,   \* the terminal asked for; never changes
    chip,    \* the chip: latches, outputs, what comes in, pins made GPIO
    mem      \* the program's static variables

dioVars == <<flash, focus, chip, mem>>

\* IOFunMsk: the groups there are; the older AICs have one.
Groups12 == IF flash.v3c THEN {1, 2} ELSE {1}

\* Terminal k is a bit of a byte: the pin GP8[k], for instance, is <<8, k>>.
\* The lower eight are the inputs of a group used as DIO, the rest its outputs.
Group1 == [k \in 0..15 |-> IF k < 8 THEN <<8, k>> ELSE <<7, k - 8>>]
Group2 == << <<2, 3>>, <<3, 6>>, <<3, 7>>, <<5, 1>>, <<5, 2>>, <<5, 7>>, <<5, 6>>, <<1, 0>>,
             <<4, 4>>, <<5, 4>>, <<4, 3>>, <<4, 2>>, <<5, 3>>, <<4, 0>>, <<6, 1>>, <<6, 0>> >>
Bit(g, k) == IF g = 1 THEN Group1[k] ELSE Group2[k + 1]

\* The pin of output k for the calls of a single output of group 2: that of
\* output 2 is off by two bits.
DO2Bit(k) == IF k = 2 THEN <<4, 1>> ELSE Bit(2, k + 8)

\* (mutant) inputs 5 and 6 swapped.
DI2BitSwapped(k) == IF k \in {5, 6} THEN Bit(2, 11 - k) ELSE Bit(2, k)

DI2Bit(k) == Bit(2, k)

InputPins == [g \in {1, 2} |-> {Bit(g, k) : k \in 0..7}]
OutputPins == [g \in {1, 2} |-> {Bit(g, k) : k \in 8..15}]
Inputs(g) == InputPins[g]
Outputs(g) == OutputPins[g]
Terminals(g) == Inputs(g) \cup Outputs(g)

\* The two pins that make the outputs of a group sink or source.
TypeBit(g, t) == IF flash.v3c /\ g = 1 THEN IF t = "sink" THEN <<6, 2>> ELSE <<5, 5>>
                 ELSE IF t = "sink" THEN <<1, 2>> ELSE <<3, 0>>
Types == {"sink", "source"}
TypeBits(g) == {TypeBit(g, t) : t \in Types}
OwnBits(g) == Terminals(g) \cup TypeBits(g)

\* Every pin of the chip that a call may write.
Bits == (UNION {Terminals(g) : g \in {1, 2}}) \cup {<<6, 2>>, <<5, 5>>, <<1, 2>>, <<3, 0>>, <<4, 1>>}

\* GPIO reads: an output pin as driven, an input as it is outside.
High(h, b) == IF b \in h.out THEN b \in h.latch ELSE b \in h.level

\* A read-modify-write of the bytes the bits are in: an input's level goes to
\* its latch.
WriteBits(h, on, off) ==
    LET read(b) == (\E c \in on \cup off : c[1] = b[1]) /\ b \notin h.out
    IN [h EXCEPT !.latch = (on \cup {b \in Bits : IF read(b) THEN b \in h.level ELSE b \in @}) \ off]

NoMem == [known |-> FALSE, setup |-> {}, typed |-> {}, stat |-> [g \in {1, 2} |-> {}], inited |-> {}]

DioInit ==
    /\ flash \in DioBoards /\ focus \in Asked
    /\ \E b \in {{}, Bits} : chip = [routed |-> {}, latch |-> b, out |-> b, level |-> {}]
    /\ mem = NoMem

-----------------------------------------------------------------------------
(* What a call does first.                                                 *)

\* EkSMBusGetCount, whenever the counts are not known yet; it may fail.
Counting == {mem, [mem EXCEPT !.known = TRUE]}

\* IOFunMsk and IOFun: the group exists and is used as the call wants.
Offered(m, g, gpio) == m.known /\ g \in Groups12 /\ (g \in flash.gpio <=> gpio)

\* Once in a program the pins of a group become GPIO of plain polarity.
SetupIO1Once(h) == IF 1 \in mem.setup THEN h ELSE [h EXCEPT !.routed = @ \cup {1}]
SetupIO2Once(h) == IF 2 \in mem.setup THEN h ELSE [h EXCEPT !.routed = @ \cup {2}]

\* Once in a program the type pins become outputs.
DIO1TypePinIO(h) == IF 1 \in mem.typed THEN h ELSE [h EXCEPT !.out = @ \cup TypeBits(1)]
DIO2TypePinIO(h) == IF 2 \in mem.typed THEN h ELSE [h EXCEPT !.out = @ \cup TypeBits(2)]

\* The chip before the type is written.
Pins(g) == IF g = 1 THEN DIO1TypePinIO(SetupIO1Once(chip)) ELSE DIO2TypePinIO(SetupIO2Once(chip))

\* The type as the pins have it.
PinType(h, g) == {t \in Types : High(h, TypeBit(g, t))}

\* (mutant) the type that was there is left on.
WriteTypeOver(h, g, t) == WriteBits(h, {TypeBit(g, x) : x \in t \ PinType(h, g)}, {})

\* The type pins that differ are written.
WriteType(h, g, t) == WriteBits(h, {TypeBit(g, x) : x \in t \ PinType(h, g)},
                                   {TypeBit(g, x) : x \in PinType(h, g) \ t})

\* The type after a call that asks for none: none for GPIO, and for DIO sink
\* if that is what the pins say, else source.
DIO1TypePinEn(dio) == IF ~dio THEN {} ELSE IF PinType(Pins(1), 1) = {"sink"} THEN {"sink"} ELSE {"source"}
DIO2TypePinEn(dio) == IF ~dio THEN {} ELSE IF PinType(Pins(2), 2) = {"sink"} THEN {"sink"} ELSE {"source"}

SetupDI1(h) == [h EXCEPT !.out = @ \ Inputs(1)]
SetupDI2(h) == [h EXCEPT !.out = @ \ Inputs(2)]
SetupDO1(h) == [h EXCEPT !.out = @ \cup Outputs(1)]
SetupDO2(h) == [h EXCEPT !.out = @ \cup Outputs(2)]

-----------------------------------------------------------------------------
(* Calls.  With the counts unknown, the group absent or used otherwise a   *)
(* call is refused.                                                        *)

Keep == UNCHANGED <<flash, focus>>

\* A call that only reads, or one that is refused.
Look == Keep /\ UNCHANGED chip /\ mem' \in Counting

\* The call sets the pins up, the type to t and the rest of the chip to h.
\* The groups EkDMCiInitDIO1 and 2 have set up are kept for the properties.
SetupFor(g, dio, t, h, init) ==
    /\ Keep /\ chip' = h
    /\ \E m \in Counting : Offered(m, g, ~dio)
         /\ mem' = [m EXCEPT !.setup = @ \cup {g}, !.typed = @ \cup {g}, !.stat[g] = t,
                             !.inited = @ \cup init]
Setup(g, dio, t, h) == SetupFor(g, dio, t, h, {})

\* What the calls for single terminals and words want set up before them.
DIReady(m, g) == Offered(m, g, FALSE) /\ g \in m.setup
DOReady(m, g) == DIReady(m, g) /\ Cardinality(m.stat[g]) = 1
GPIOReady(m, g) == Offered(m, g, TRUE) /\ g \in m.setup /\ m.stat[g] = {}

Drive(on, off) == Keep /\ chip' = WriteBits(chip, on, off)

\* (mutant) EkDMCiInitDIO2 sets the inputs of group 1 up.
InitDIO2Wrong ==
    LET t == DIO2TypePinEn(TRUE)
    IN SetupFor(2, TRUE, t, SetupDO2(SetupDI1(WriteType(Pins(2), 2, t))), {2})

InitDIO1 == LET t == DIO1TypePinEn(TRUE)
            IN SetupFor(1, TRUE, t, SetupDO1(SetupDI1(WriteType(Pins(1), 1, t))), {1})
InitDIO2 == LET t == DIO2TypePinEn(TRUE)
            IN SetupFor(2, TRUE, t, SetupDO2(SetupDI2(WriteType(Pins(2), 2, t))), {2})

\* To tell the type is to write it.
GetDO1Type == LET t == DIO1TypePinEn(TRUE)
              IN Setup(1, TRUE, t, SetupDO1(WriteType(Pins(1), 1, t)))
GetDO2Type == LET t == DIO2TypePinEn(TRUE)
              IN Setup(2, TRUE, t, SetupDO2(WriteType(Pins(2), 2, t)))

SetDIO1Type(t) == WriteType(Pins(1), 1, {t})
SetDIO2Type(t) == WriteType(Pins(2), 2, {t})
SetDO1Type(t) == Setup(1, TRUE, {t}, SetupDO1(SetDIO1Type(t)))
SetDO2Type(t) == Setup(2, TRUE, {t}, SetupDO2(SetDIO2Type(t)))

\* The answers: an input is connected when it is low.
GetDI1Pin(k) == ~High(chip, Bit(1, k))
GetDI2Pin(k) == ~High(chip, DI2Bit(k))
GetDI1 == [k \in 0..7 |-> ~High(chip, Bit(1, k))]
GetDI2 == [k \in 0..7 |-> ~High(chip, Bit(2, k))]
GetDO1Pin(k) == High(chip, Bit(1, k + 8))
GetDO2Pin(k) == High(chip, DO2Bit(k))
GetDO1 == [k \in 0..7 |-> High(chip, Bit(1, k + 8))]
GetDO2 == [k \in 0..7 |-> High(chip, Bit(2, k + 8))]

On(bit, v) == {b \in {bit} : v}
SetDO1Pin(k, v) == \E m \in Counting : DOReady(m, 1) /\ mem' = m
                     /\ Drive(On(Bit(1, k + 8), v), On(Bit(1, k + 8), ~v))
SetDO2Pin(k, v) == \E m \in Counting : DOReady(m, 2) /\ mem' = m
                     /\ Drive(On(DO2Bit(k), v), On(DO2Bit(k), ~v))

SetDO1(word) == \E m \in Counting : DOReady(m, 1) /\ mem' = m
    /\ LET on == {Bit(1, k + 8) : k \in word} IN Drive(on, Outputs(1) \ on)
SetDO2(word) == \E m \in Counting : DOReady(m, 2) /\ mem' = m
    /\ LET on == {Bit(2, k + 8) : k \in word} IN Drive(on, Outputs(2) \ on)

\* A call for directions sets everything up each time.
Direct(g, out, in) ==
    LET h == WriteType(Pins(g), g, {}) IN Setup(g, FALSE, {}, [h EXCEPT !.out = (@ \cup out) \ in])

InitGPIO1 == Setup(1, FALSE, {}, WriteType(Pins(1), 1, DIO1TypePinEn(FALSE)))
InitGPIO2 == Setup(2, FALSE, {}, WriteType(Pins(2), 2, DIO2TypePinEn(FALSE)))
GetGPIO1ConfigPin == Direct(1, {}, {})
GetGPIO2ConfigPin == Direct(2, {}, {})
GetGPIO1Config == Direct(1, {}, {})
GetGPIO2Config == Direct(2, {}, {})
SetGPIO1ConfigPin(k, v) == Direct(1, On(Bit(1, k), v), On(Bit(1, k), ~v))
SetGPIO2ConfigPin(k, v) == Direct(2, On(Bit(2, k), v), On(Bit(2, k), ~v))
SetGPIO1Config(word) == LET out == {Bit(1, k) : k \in word} IN Direct(1, out, Terminals(1) \ out)
SetGPIO2Config(word) == LET out == {Bit(2, k) : k \in word} IN Direct(2, out, Terminals(2) \ out)

GetGPIO1Pin(k) == High(chip, Bit(1, k))
GetGPIO2Pin(k) == High(chip, Bit(2, k))
GetGPIO1 == [k \in 0..15 |-> High(chip, Bit(1, k))]
GetGPIO2 == [k \in 0..15 |-> High(chip, Bit(2, k))]

SetGPIO1Pin(k, v) == \E m \in Counting : GPIOReady(m, 1) /\ mem' = m
                       /\ Drive(On(Bit(1, k), v), On(Bit(1, k), ~v))

\* (mutant) the terminal below is set.
SetGPIO2PinBelow(k, v) == \E m \in Counting : GPIOReady(m, 2) /\ mem' = m
    /\ Drive(On(Bit(2, (k + 15) % 16), v), On(Bit(2, (k + 15) % 16), ~v))

\* EkDMCiSetGPIO2Pin looks at how group 1 is set up.
SetGPIO2Pin(k, v) == \E m \in Counting : Offered(m, 2, TRUE) /\ mem' = m
    /\ 1 \in m.setup /\ m.stat[1] = {}
    /\ Drive(On(Bit(2, k), v), On(Bit(2, k), ~v))

SetGPIO1(word) == \E m \in Counting : GPIOReady(m, 1) /\ mem' = m
    /\ LET on == {Bit(1, k) : k \in word} IN Drive(on, Terminals(1) \ on)
SetGPIO2(word) == \E m \in Counting : GPIOReady(m, 2) /\ mem' = m
    /\ LET on == {Bit(2, k) : k \in word} IN Drive(on, Terminals(2) \ on)

\* Outside, the terminal asked for goes up or down.
Outside ==
    LET b == Bit(focus[1], focus[2])
    IN chip' = [chip EXCEPT !.level = IF b \in @ THEN @ \ {b} ELSE @ \cup {b}] /\ Keep /\ UNCHANGED mem

\* The program ends, and another starts.
Exit == mem' = NoMem /\ Keep /\ UNCHANGED chip

\* Bound: the words set; everything on or off in the group asked for.
Words(g, all) == IF g = focus[1] THEN {{}, all} ELSE {all}

OnePin(g, k) == g = focus[1] /\ k = focus[2]
DIONext ==
    \/ InitDIO1 \/ InitDIO2 \/ GetDO1Type \/ GetDO2Type
    \/ \E t \in Types : SetDO1Type(t) \/ SetDO2Type(t)
    \/ \E v \in BOOLEAN, k \in 0..7 :
         (OnePin(1, k + 8) /\ SetDO1Pin(k, v)) \/ (OnePin(2, k + 8) /\ SetDO2Pin(k, v))
    \/ \E word \in Words(1, 0..7) : SetDO1(word)
    \/ \E word \in Words(2, 0..7) : SetDO2(word)
GPIONext ==
    \/ InitGPIO1 \/ InitGPIO2 \/ GetGPIO1Config \/ GetGPIO2Config \/ GetGPIO1ConfigPin \/ GetGPIO2ConfigPin
    \/ \E v \in BOOLEAN, k \in 0..15 :
         \/ OnePin(1, k) /\ (SetGPIO1ConfigPin(k, v) \/ SetGPIO1Pin(k, v))
         \/ OnePin(2, k) /\ (SetGPIO2ConfigPin(k, v) \/ SetGPIO2Pin(k, v))
    \/ \E word \in Words(1, 0..15) : SetGPIO1Config(word) \/ SetGPIO1(word)
    \/ \E word \in Words(2, 0..15) : SetGPIO2Config(word) \/ SetGPIO2(word)
DioNext == Look \/ DIONext \/ GPIONext \/ Outside \/ Exit

DioSpec == DioInit /\ [][DioNext]_dioVars
-----------------------------------------------------------------------------
DioTypeOK ==
    /\ flash \in AllDioBoards /\ focus \in Asked
    /\ chip \in [routed : SUBSET {1, 2}, latch : SUBSET Bits, out : SUBSET Bits, level : SUBSET Bits]
    /\ mem \in [known : BOOLEAN, setup : SUBSET {1, 2}, typed : SUBSET {1, 2},
                stat : [{1, 2} -> SUBSET Types], inited : SUBSET {1, 2}]

\* What a program was promised by EkDMCiInitDIO1 or 2 lasts, whatever it
\* calls afterwards on either group: the inputs are not driven, the outputs
\* are, they switch in one way, the one remembered, and calls are accepted.
InitLasts == \A g \in mem.inited :
    /\ DOReady(mem, g) /\ g \in chip.routed
    /\ Inputs(g) \cap chip.out = {} /\ Outputs(g) \cup TypeBits(g) \subseteq chip.out
    /\ PinType(chip, g) = mem.stat[g]

\* The call for one terminal and the call for all of a group tell the same,
\* each with its own table of pins; for output 2 of group 2 they do not.
PinsTellWords == \A k \in 0..7 :
    /\ GetDI1Pin(k) = GetDI1[k] /\ GetDI2Pin(k) = GetDI2[k]
    /\ GetDO1Pin(k) = GetDO1[k] /\ (k # 2 => GetDO2Pin(k) = GetDO2[k])

\* What a program may rely on between its calls, whatever calls come between.
DioHolds == InitLasts /\ PinsTellWords

\* Only that terminal changes in what the call for all of them tells.
Sets(word, k, v) == word' = [word EXCEPT ![k] = v]

\* A terminal set by the call for one, the one asked for, is told as set by
\* the call for all, and no other changes; but for output 2 of group 2.
PinsObey == [][\A v \in BOOLEAN, k \in {focus[2]} :
    /\ 1 \in mem.inited /\ k >= 8 /\ SetDO1Pin(k - 8, v) => Sets(GetDO1, k - 8, v)
    /\ 2 \in mem.inited /\ k >= 8 /\ k # 10 /\ SetDO2Pin(k - 8, v) => Sets(GetDO2, k - 8, v)
    /\ 1 \in mem.setup /\ Bit(1, k) \in chip.out /\ SetGPIO1Pin(k, v) => Sets(GetGPIO1, k, v)
    /\ 1 \in mem.setup /\ Bit(2, k) \in chip.out /\ SetGPIO2Pin(k, v) => Sets(GetGPIO2, k, v)]_dioVars

\* The groups share bytes of the chip: no call changes what a pin of the
\* other group drives, its direction or its type.
GroupsApart == [][\E g \in {1, 2} : LET others == (OwnBits(1) \cup OwnBits(2)) \ OwnBits(g) IN
    /\ others \cap chip'.out = others \cap chip.out
    /\ others \cap chip.out \cap chip'.latch = others \cap chip.out \cap chip.latch]_dioVars
=============================================================================
