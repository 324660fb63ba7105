----------------------------- MODULE Dht22Parse -----------------------------
(***************************************************************************)
(* The decoder of app/dht22.cpp.  The line of the sensor was sampled every *)
(* 10 microseconds; a bit of data is a low pulse and a high pulse, whose   *)
(* length tells 1 from 0.  A byte is the tuple of its 8 bits, most         *)
(* significant first, whether they are samples or data: decoded bytes are  *)
(* written over the samples they were decoded from.                        *)
(***************************************************************************)
EXTENDS Integers, Sequences

BITS_LO == 0
BITS_HI == 1
Byte    == [1 .. 8 -> {0, 1}]

Value(byte) ==
  LET upTo[k \in 0 .. 8] == IF k = 0 THEN 0 ELSE 2 * upTo[k - 1] + byte[k]
  IN  upTo[8]

(* The variables of the decoder.  shifting is what is left of shiftingByte:   *)
(* its first `bits' bits.  Bytes of buffer from number `samples' on are old.  *)
Decoder(bytes, samples) ==
  [buffer |-> bytes, samples |-> samples, nextByte |-> 0, shifting |-> <<>>,
   bitsError |-> FALSE, result |-> 0]

(* How many samples follow, and the k-th of them, k counted from 0 *)
Left(d) == Len(d.shifting) + 8 * (d.samples - d.nextByte)

Sample(d, k) ==
  LET n == k - Len(d.shifting)
  IN  IF n < 0 THEN d.shifting[k + 1] ELSE d.buffer[d.nextByte + n \div 8][(n % 8) + 1]

(* n samples are taken; the byte that holds the one after them, if there is one, is fetched. *)
Skip(d, n) ==
  LET m    == n - Len(d.shifting)
      last == d.nextByte + m \div 8
  IN  CASE m < 0       -> [d EXCEPT !.shifting = SubSeq(@, n + 1, Len(@))]
        [] n = Left(d) -> [d EXCEPT !.shifting = <<>>, !.nextByte = d.samples]
        [] OTHER       -> [d EXCEPT !.shifting = SubSeq(d.buffer[last], (m % 8) + 1, 8),
                                    !.nextByte = last + 1]

getBits_OpenEnd(d, bit, min, max) ==
  IF d.bitsError THEN [d EXCEPT !.result = 0]
  ELSE LET run[n \in 0 .. Left(d)] ==
             IF n < Left(d) /\ Sample(d, n) = bit THEN run[n + 1] ELSE n
       IN  [Skip(d, run[0]) EXCEPT !.result = run[0], !.bitsError = run[0] < min]

(* The samples equal to bit that come next are taken, and counted in result. *)
getBits(d, bit, min, max) ==
  IF d.bitsError THEN [d EXCEPT !.result = 0]
  ELSE LET run[n \in 0 .. Left(d)] ==
             IF n < Left(d) /\ Sample(d, n) = bit THEN run[n + 1] ELSE n
       IN  [Skip(d, run[0]) EXCEPT !.result = run[0],
                                   !.bitsError = run[0] < min \/ run[0] > max]

(* What comes before the data: rest of the start signal, response, start of transmission *)
Preamble(d) ==
  getBits(getBits(getBits(getBits(d, BITS_LO, 0, 10), BITS_HI, 1, 10), BITS_LO, 2, 16), BITS_HI, 2, 16)

(* Eight bits, which become byte i of the buffer *)
DataByte(d, i) ==
  LET read[j \in 0 .. 8] ==
        IF j = 0 THEN [d |-> d, byte |-> [k \in 1 .. 8 |-> 0]]
        ELSE LET before == read[j - 1]
                 after  == getBits(getBits(before.d, BITS_LO, 2, 8), BITS_HI, 1, 10)
             IN  [d |-> after,
                  byte |-> Append(Tail(before.byte), IF after.result >= 5 THEN 1 ELSE 0)]
  IN  [read[8].d EXCEPT !.buffer[i] = read[8].byte]

(* parseSamples: the arguments of done *)
parseSamples(bytes, samples) ==
  LET decode[i \in 0 .. 5] ==
        IF i = 0 THEN Preamble(Decoder(bytes, samples))
        ELSE LET d == decode[i - 1] IN IF d.bitsError THEN d ELSE DataByte(d, i - 1)
      end  == decode[5]
      v(i) == Value(end.buffer[i])
      fits == (v(0) + v(1) + v(2) + v(3)) % 256 = v(4)
  IN  IF end.bitsError \/ ~fits
      THEN [valid |-> FALSE, h |-> 0, t |-> 0]
      ELSE [valid |-> TRUE, h |-> 256 * v(0) + v(1), t |-> 256 * v(2) + v(3)]

(* Numbers of 16 bits, and the most significant one *)
Word     == {x \in Nat : x < 256 * 256}
Bit15(x) == x \div (128 * 256) = 1

dht22ToFloat_TwosComplement(x) == IF Bit15(x) THEN x - 256 * 256 ELSE x

(* In tenths: eleven bits and a sign *)
dht22ToFloat(x) == IF Bit15(x) THEN -(x % 2048) ELSE x % 2048

-----------------------------------------------------------------------------
(* The reference: what n bytes of samples w say.  The line is a series of pulses, low and    *)
(* high by turns, that begins with a low one; pulse k lasts from edge k to edge k + 1.       *)

SampleOf(w, k) == w[k \div 8][(k % 8) + 1]

(* Where the pulse of level bit that begins at sample p ends: it takes in all that it can. *)
PulseEnd(w, n, p, bit) ==
  CHOOSE q \in p .. 8 * n :
    /\ \A k \in p .. q - 1 : SampleOf(w, k) = bit
    /\ q = 8 * n \/ SampleOf(w, q) # bit

Edges(w, n) ==
  LET at[k \in 0 .. 84] == IF k = 0 THEN 0 ELSE PulseEnd(w, n, at[k - 1], (k - 1) % 2)
  IN  at

Length(w, n, k) == Edges(w, n)[k + 1] - Edges(w, n)[k]

(* How long pulse k may be: the end of the start signal; response; start; and the data *)
Shortest(k) == CASE k = 0 -> 0 [] k = 1 -> 1 [] k \in {2, 3} -> 2 [] OTHER -> IF k % 2 = 0 THEN 2 ELSE 1
Longest(k)  == CASE k \in {0, 1} -> 10 [] k \in {2, 3} -> 16 [] OTHER -> IF k % 2 = 0 THEN 8 ELSE 10

(* Byte i of the data: the high pulses of its bits, 50 microseconds or more for 1 *)
DataOf(w, n, i) ==
  [j \in 1 .. 8 |-> IF Length(w, n, 16 * i + 2 * j + 3) >= 5 THEN 1 ELSE 0]

IsProper(w, n) ==
  /\ \A k \in 0 .. 83 : Length(w, n, k) \in Shortest(k) .. Longest(k)
  /\ LET v(i) == Value(DataOf(w, n, i)) IN (v(0) + v(1) + v(2) + v(3)) % 256 = v(4)

(* A number in two bytes: a sign, and eleven bits of magnitude, in tenths *)
Signed(hi, lo) ==
  LET m == 256 * (Value(hi) % 8) + Value(lo) IN IF hi[1] = 1 THEN -m ELSE m
=============================================================================
