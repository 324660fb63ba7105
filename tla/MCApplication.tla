---------------------------- MODULE MCApplication ----------------------------
(***************************************************************************)
(* An instance of Application for TLC, with a model of DHT22 sensors: how  *)
(* a reading is sent, with which length of pulses, and what may go wrong.  *)
(***************************************************************************)
EXTENDS Application

CONSTANTS other, p, q

Pulses(ps) ==
  LET upTo[n \in 0 .. Len(ps)] ==
        IF n = 0 THEN <<>> ELSE upTo[n - 1] \o [k \in 1 .. ps[n][2] |-> ps[n][1]]
  IN  upTo[Len(ps)]

(* Lengths of pulses in samples: low, high for 0, high for 1 *)
Typical == [low |-> 5, zero |-> 3, one |-> 7]
Short   == [low |-> 2, zero |-> 1, one |-> 5]
Long    == [low |-> 8, zero |-> 4, one |-> 10]

Bit(v, k) == (v \div 2 ^ (8 - k)) % 2

(* The five bytes: sign and magnitude, most significant byte first, checksum *)
Frame(h, t) ==
  LET word == IF t < 0 THEN 32768 - t ELSE t
      b    == <<h \div 256, h % 256, word \div 256, word % 256>>
  IN  Append(b, (b[1] + b[2] + b[3] + b[4]) % 256)

Sent(g) ==
  LET f == Frame(g.humidity, g.temperature) IN
  CASE g.fault = "checksum" -> [f EXCEPT ![5] = (@ + 1) % 256]
    [] g.fault = "flip"     -> [f EXCEPT ![3] = (@ + 128) % 256]
    [] OTHER                -> f

(* The pulses of a frame: pulse 2n of the data is the high one of bit n. *)
Data(g) ==
  [n \in 1 .. 80 |->
     LET k == (n + 1) \div 2
         b == Bit(Sent(g)[(k + 7) \div 8], ((k - 1) % 8) + 1)
     IN  CASE n % 2 = 1 -> <<0, g.timing.low>>
           [] n % 2 = 0 /\ n = 80 /\ g.fault = "long" -> <<1, 11>>
           [] OTHER -> <<1, IF b = 1 THEN g.timing.one ELSE g.timing.zero>>]

Line(g) ==
  CASE g.fault = "silent" -> <<<<1, 60>>>>
    [] g.fault = "stuck"  -> <<<<0, 60>>>>
    [] g.fault = "cut"    -> <<<<1, 3>>, <<0, 8>>, <<1, 8>>>> \o SubSeq(Data(g), 1, 79)
    [] g.fault = "glitch" -> <<<<1, 3>>, <<0, 8>>, <<1, 8>>, <<0, 1>>>> \o SubSeq(Data(g), 2, 80) \o <<<<0, 5>>>>
    [] OTHER              -> <<<<1, 3>>, <<0, 8>>, <<1, 8>>>> \o Data(g) \o <<<<0, 5>>>>

(* The line is high when nobody pulls it low; samples come in bytes. *)
MCWaveform ==
  [g \in Signals |->
     LET s == Pulses(Line(g))
         full == IF Len(s) % 8 = 0 \/ g.fault = "cut" THEN s ELSE s \o [k \in 1 .. 8 - (Len(s) % 8) |-> 1]
     IN  [i \in 0 .. (Len(full) \div 8) - 1 |-> SubSeq(full, 8 * i + 1, 8 * i + 8)]]

Signal(h, t, timing, fault) ==
  [good |-> fault = "none", humidity |-> h, temperature |-> t, timing |-> timing, fault |-> fault]

OfSens ==
  {Signal(652, -101, Typical, "none"), Signal(1000, -52, Long, "none"),
   Signal(1000, -52, Typical, "checksum")}
OfOther ==
  {Signal(999, 253, Short, "none")} \cup
  {Signal(999, 253, Typical, f) : f \in {"flip", "long", "glitch", "cut", "silent", "stuck"}}

MCSignals == OfSens \cup OfOther
MCSends   == [s \in Sensors |-> IF s = sens THEN OfSens ELSE OfOther]
=============================================================================
