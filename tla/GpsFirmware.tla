----------------------------- MODULE GpsFirmware -----------------------------
(***************************************************************************)
(* firmware/gps_firmware with its Adafruit_GPS library: a timer interrupt  *)
(* assembles the characters of the GPS module into lines in two buffers,   *)
(* and loop() parses the last whole line and answers the computer.  About  *)
(* twelve characters make a piece of a sentence; a line feed is a piece of *)
(* its own, which the library puts at the start of the NEXT line.          *)
(***************************************************************************)
EXTENDS Naturals, FiniteSets, Sequences, SequencesExt

CONSTANTS Sentences,     \* bound on the sentences the module sends
          MaxDamage,     \* bound on the characters the serial line damages
          MaxCommands,   \* bound on the characters waiting from the computer
          MAXLINELENGTH  \* size of a line buffer, in pieces

ASSUME FirmwareAssumption ==
    /\ Sentences \in Nat /\ MaxDamage \in Nat /\ MaxCommands \in Nat
    /\ MAXLINELENGTH \in Nat /\ MAXLINELENGTH > 7 \* than any sentence with a line feed

VARIABLES
    sky,         \* per period of the module: whether it has a fix
    sentence, coming, \* sentence on the line, and its next piece
    damage,      \* what the line has damaged: <<sentence, field>>
    line,        \* line1 and line2
    currentline, lastline, \* which of them is filled, which is complete
    lineidx, recvdflag,
    pc,          \* where loop() is
    nmea,        \* the buffer being parsed
    layout,      \* the kind of sentence it is taken for
    during,      \* pieces that have come in since the parse began
    latitude, longitude,   \* the sentence each was taken from, 0 for none
    fix,         \* [of, value]: the sentence it was taken from
    debug_mode,
    rx,          \* commands waiting in the serial buffer
    told         \* the last position sent to the computer

link == <<sky, sentence, coming, damage>>
lines == <<line, currentline, lastline, lineidx, recvdflag>>
position == <<latitude, longitude, fix>>
parse == <<nmea, layout>>
firmware_vars == <<link, lines, position, parse, pc, during, debug_mode, rx, told>>

\* A latitude made of something else than the digits and the hemisphere of a sentence.
Garbled == Sentences + 1

\* The module sends, five times a second, a GGA and an RMC sentence.
Kind(s) == IF s % 2 = 1 THEN "GGA" ELSE "RMC"
HasFix(s) == sky[(s + 1) \div 2]
Fields(s) ==
    IF Kind(s) = "RMC"
    THEN IF HasFix(s) THEN <<"head", "status", "lat", "lon", "rest", "sum">>
                      ELSE <<"head", "status", "rest", "sum">>
    ELSE IF HasFix(s) THEN <<"head", "lat", "lon", "rest", "rest", "sum">>
                      ELSE <<"head", "rest", "sum">>
Piece(s, field) == [of |-> s, field |-> field]
LineFeed == Piece(0, "feed")

\* What can go wrong with a character and matters: one of the latitude, which may leave
\* it without a hemisphere, one of the checksum's tail "*hh", and the line feed itself.
\* No character is made a line feed or a NUL, which end a line early.
Damageable == {"lat", "sum", "feed"}
Damaged(field) == IF field = "lat" THEN {"badlat", "badhem"} ELSE {"badsum"}

-----------------------------------------------------------------------------
\* read(), called once a millisecond by the timer.
Put(b, at, piece) == IF at <= Len(b) THEN [b EXCEPT ![at] = piece] ELSE Append(b, piece)
Capped(idx) == IF idx >= MAXLINELENGTH THEN MAXLINELENGTH - 1 ELSE idx

Store(piece) ==
    /\ line' = [line EXCEPT ![currentline] = Put(@, lineidx + 1, piece)]
    /\ lineidx' = Capped(lineidx + 1)
    /\ UNCHANGED <<currentline, lastline, recvdflag>>

EndLineSwapsLast ==
    /\ line' = [line EXCEPT ![currentline] = SubSeq(@, 1, lineidx),
                            ![3 - currentline] = Put(@, 1, LineFeed)]
    /\ currentline' = 3 - currentline
    /\ lastline' = 3 - currentline
    /\ lineidx' = 1
    /\ recvdflag' = TRUE
EndLine ==
    /\ line' = [line EXCEPT ![currentline] = SubSeq(@, 1, lineidx),
                            ![3 - currentline] = Put(@, 1, LineFeed)]
    /\ currentline' = 3 - currentline
    /\ lastline' = currentline
    /\ lineidx' = 1
    /\ recvdflag' = TRUE

Reading == pc \in {"last", "checksum", "latitude", "longitude"}

\* A parse lasts a millisecond or two and a piece takes twelve to arrive: no more than
\* one comes in between the clearing of recvdflag and the end of a parse.
Interrupt ==
    /\ sentence <= Sentences
    /\ Reading => during = 0
    /\ during' = IF Reading THEN during + 1 ELSE 0
    /\ \/ /\ coming <= Len(Fields(sentence))
          /\ coming' = coming + 1
          /\ \/ Store(Piece(sentence, Fields(sentence)[coming])) /\ UNCHANGED damage
             \/ /\ Fields(sentence)[coming] \in Damageable /\ Cardinality(damage) < MaxDamage
                /\ damage' = damage \cup {<<sentence, Fields(sentence)[coming]>>}
                /\ \E x \in Damaged(Fields(sentence)[coming]) : Store(Piece(sentence, x))
          /\ UNCHANGED sentence
       \/ /\ coming = Len(Fields(sentence)) + 1
          /\ coming' = 1 /\ sentence' = sentence + 1
          /\ \/ EndLine /\ UNCHANGED damage
             \/ /\ Cardinality(damage) < MaxDamage
                /\ damage' = damage \cup {<<sentence, "feed">>}
                /\ UNCHANGED lines
    /\ UNCHANGED <<sky, pc, parse, position, debug_mode, rx, told>>

-----------------------------------------------------------------------------
\* parse(nmea).  The line starts with the line feed of the one before, except for the
\* first; the sum leaves out two characters for it and the dollar sign.
Content == line[nmea]
HasSum(b) == b # <<>> /\ Last(b).field = "sum"
SumHolds(b) ==
    /\ Head(b) = LineFeed
    /\ LET s == Last(b).of
       IN  Tail(b) = [j \in DOMAIN Fields(s) |-> Piece(s, Fields(s)[j])]
AcceptedWithout(b) == b # <<>>
Accepted(b) == HasSum(b) => SumHolds(b)

\* strstr() looks for GGA first, anywhere in the line; the fields are then read from
\* the start of the line, so they are those of its first sentence.
Kinds(b) == {Kind(p.of) : p \in {q \in ToSet(b) : q.field = "head"}}
First(b) == IF Head(b) = LineFeed THEN b[2].of ELSE b[1].of
Latitude(b) == {p \in ToSet(b) : p.of = First(b) /\ p.field \in {"lat"} \cup Damaged("lat")}
Longitude(b) == {p \in ToSet(b) : p.of = First(b) /\ p.field = "lon"}
\* In the layout of an RMC sentence a GGA has no status, and parse() returns false.
Layout(b) == IF "GGA" \in Kinds(b) THEN "GGA"
             ELSE IF "RMC" \in Kinds(b) /\ Kind(First(b)) = "RMC" THEN "RMC" ELSE "none"

\* gps_check_new_data(): newNMEAreceived() and the first half of lastNMEA().
Take ==
    /\ pc = "check"
    /\ IF recvdflag THEN recvdflag' = FALSE /\ pc' = "last"
       ELSE pc' = "debug" /\ UNCHANGED recvdflag
    /\ during' = 0
    /\ UNCHANGED <<link, line, currentline, lastline, lineidx, position, parse, debug_mode,
                   rx, told>>
\* The pointer is read byte by byte: if the lines are swapped in between, it points to the
\* one before, as if read earlier, or to neither of them, where no sentence is found.
LastNMEA ==
    /\ pc = "last"
    /\ \/ pc' = "checksum" /\ nmea' = lastline
       \/ recvdflag /\ pc' = "debug" /\ UNCHANGED nmea
    /\ UNCHANGED <<link, lines, position, layout, during, debug_mode, rx, told>>
Checksum ==
    /\ pc = "checksum"
    /\ layout' = IF Accepted(Content) THEN Layout(Content) ELSE "none"
    /\ pc' = IF layout' # "none" THEN "latitude" ELSE "debug"
    /\ UNCHANGED <<link, lines, position, nmea, during, debug_mode, rx, told>>

ParseLatitudeAnyStatus ==
    /\ pc = "latitude"
    /\ LET s == First(Content)
       IN  /\ pc' = IF Piece(s, "badhem") \in Latitude(Content) THEN "debug" ELSE "longitude"
           /\ fix' = IF layout = "RMC" THEN [of |-> s, value |-> TRUE] ELSE fix
           /\ latitude' = IF layout # Kind(s) THEN Garbled
                          ELSE IF Latitude(Content) = {} THEN latitude
                          ELSE IF Piece(s, "lat") \in Latitude(Content) THEN s ELSE Garbled
    /\ UNCHANGED <<link, lines, longitude, parse, during, debug_mode, rx, told>>
\* The status of an RMC sentence and the latitude.  In the layout of a GGA sentence the
\* status of an RMC stands where the latitude should.  Without a hemisphere, parse()
\* returns false.
ParseLatitude ==
    /\ pc = "latitude"
    /\ LET s == First(Content)
       IN  /\ pc' = IF Piece(s, "badhem") \in Latitude(Content) THEN "debug" ELSE "longitude"
           /\ fix' = IF layout = "RMC" THEN [of |-> s, value |-> HasFix(s)] ELSE fix
           /\ latitude' = IF layout # Kind(s) THEN Garbled
                          ELSE IF Latitude(Content) = {} THEN latitude
                          ELSE IF Piece(s, "lat") \in Latitude(Content) THEN s ELSE Garbled
    /\ UNCHANGED <<link, lines, longitude, parse, during, debug_mode, rx, told>>

ParsedLongitude == IF Longitude(Content) = {} THEN longitude ELSE First(Content)
ParseLongitudeClearsFlag ==
    /\ pc = "longitude"
    /\ pc' = "debug"
    /\ longitude' = ParsedLongitude
    /\ recvdflag' = FALSE
    /\ UNCHANGED <<link, line, currentline, lastline, lineidx, latitude, fix, parse, during,
                   debug_mode, rx, told>>
ParseLongitude ==
    /\ pc = "longitude"
    /\ pc' = "debug"
    /\ longitude' = ParsedLongitude
    /\ UNCHANGED <<link, lines, latitude, fix, parse, during, debug_mode, rx, told>>

\* send_gps_over_serial() keeps loop() busy for as long as half a sentence takes.
Send == told' = [lat |-> latitude, lon |-> longitude, fix |-> fix]

Debug ==
    /\ pc = "debug"
    /\ pc' = "serial"
    /\ IF debug_mode THEN Send ELSE UNCHANGED told
    /\ UNCHANGED <<link, lines, position, parse, during, debug_mode, rx>>

\* serialEvent(), called by the Arduino core between two runs of loop().
SerialEvent ==
    /\ pc = "serial"
    /\ IF rx = <<>> THEN pc' = "check" /\ UNCHANGED <<rx, debug_mode, told>>
       ELSE /\ rx' = Tail(rx) /\ UNCHANGED pc
            /\ debug_mode' = IF Head(rx) = "d" THEN ~debug_mode ELSE debug_mode
            /\ IF Head(rx) = "r" THEN Send ELSE UNCHANGED told
    /\ UNCHANGED <<link, lines, position, parse, during>>

\* The computer asks for a position, or for one after another without being asked.
Command ==
    /\ Len(rx) < MaxCommands
    /\ \E c \in {"r", "d"} : rx' = Append(rx, c)
    /\ UNCHANGED <<link, lines, position, pc, parse, during, debug_mode, told>>

FirmwareInit ==
    /\ sky \in [1..(Sentences + 1) \div 2 -> BOOLEAN]
    /\ sentence = 1 /\ coming = 1 /\ damage = {}
    /\ line = <<<<>>, <<>>>> /\ currentline = 1 /\ lastline = 2
    /\ lineidx = 0 /\ recvdflag = FALSE
    /\ pc = "check" /\ nmea = 2 /\ layout = "none" /\ during = 0
    /\ latitude = 0 /\ longitude = 0 /\ fix = [of |-> 0, value |-> FALSE]
    /\ debug_mode = FALSE /\ rx = <<>>
    /\ told = [lat |-> 0, lon |-> 0, fix |-> fix]

Loop == Take \/ LastNMEA \/ Checksum \/ ParseLatitude \/ ParseLongitude \/ Debug \/ SerialEvent
FirmwareNext == Interrupt \/ Loop \/ Command

FirmwareSpec == FirmwareInit /\ [][FirmwareNext]_firmware_vars
FirmwareFairSpec == FirmwareSpec /\ WF_firmware_vars(Interrupt) /\ WF_firmware_vars(Loop)

-----------------------------------------------------------------------------
\* What the line did to sentence s, and when the checksum does not tell: damage to the
\* tail hides it, a lost line feed glues the sentence to the next.
Hit(s, field) == <<s, field>> \in damage
Unnoticed(s) == Hit(s, "lat") /\ (Hit(s, "sum") \/ Hit(s, "feed"))
Intact(s) == s > 1 /\ ~Hit(s - 1, "feed") /\ \A f \in Damageable : ~Hit(s, f)

\* The latitude and the longitude sent to the computer come from one sentence, however
\* late loop() looks at the buffers, though one character of a sentence be damaged, in
\* the ways of Damaged.  What goes unnoticed: a second one in the tail that carries the
\* checksum, and a lost line feed, which glues sentences to a line longer than the buffer.
WholePosition ==
    told.lat # told.lon =>
      \E s \in 1..Sentences : Unnoticed(s) \/ (Kind(s) = "RMC" /\ Hit(s, "feed"))

\* EndLineSwapsLast, AcceptedWithout, ParseLatitudeAnyStatus and
\* ParseLongitudeClearsFlag are the definitions they begin like with the mistake of
\* their names, to be put in their places to see which property notices.

\* Nothing the computer is told is older than what it was told before.
NeverBack ==
    [][told'.lon >= told.lon /\ told'.fix.of >= told.fix.of]_firmware_vars

\* A fix is told only with a position at least as new as the fix: parse() takes the fix
\* first and may return before it comes to the longitude, but only for a sentence whose
\* damage the checksum has not told.
FixHasPosition ==
    told.fix.value => told.lon >= told.fix.of \/ Unnoticed(told.fix.of)

\* When the module falls silent after an undamaged sentence, the firmware ends up with
\* the status and the position in it, provided that the computer lets serialEvent() come
\* to an end again and again.
EndsUpToDate ==
    []<>(pc = "check") =>
      <>[](Intact(Sentences) =>
             /\ Kind(Sentences) = "RMC" => fix = [of |-> Sentences, value |-> HasFix(Sentences)]
             /\ HasFix(Sentences) => latitude = Sentences /\ longitude = Sentences)
=============================================================================
