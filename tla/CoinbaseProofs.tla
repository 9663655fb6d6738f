--------------------------- MODULE CoinbaseProofs ---------------------------
(***************************************************************************)
(* The coinbase transaction, for every reward, fee, height and kind of     *)
(* addresses: that the node reads back what was put together, that it pays *)
(* the whole reward, and that it begins with the height; and the block     *)
(* that is mined with it, for every number of transactions, of any shape:  *)
(* that the node reads it back as well and accepts it.                     *)
(***************************************************************************)
EXTENDS Coinbase, BlockDataProofs

(* The outputs up to each of them, as the node reads them.                 *)
NextOut(tokens, before) ==
    LET len    == tokens[before.next + 1].byte
        script == SubSeq(tokens, before.next + 2, before.next + 1 + len)
    IN  [outs |-> Append(before.outs, [value |-> tokens[before.next].amount, script |-> script]),
         next |-> before.next + 2 + len]

Read(outs, next) == [outs |-> outs, next |-> next]
Out(value, script) == [value |-> value, script |-> script]
NoOut(pos) == Read(<< >>, pos)

OutSteps(tokens, pos, count) ==
    LET read[n \in 0 .. count] ==
            IF n = 0 THEN NoOut(pos) ELSE NextOut(tokens, read[n - 1])
    IN  read

LEMMA OutStepsUnfold ==
    ASSUME NEW tokens, NEW pos, NEW count \in Nat
    PROVE  LET read == OutSteps(tokens, pos, count) IN
           /\ read[0] = NoOut(pos)
           /\ \A i \in 1 .. count : read[i] = NextOut(tokens, read[i - 1])
           /\ ReadOuts(tokens, pos, count) = read[count]
<1> DEFINE n == count
           Above(x, l) == NextOut(tokens, x)
           Levels(m, f) == f = [l \in 0 .. m |-> IF l = 0 THEN NoOut(pos) ELSE Above(f[l - 1], l)]
           S == {m \in Nat : \E f : Levels(m, f)}
<1>1. 0 \in S
  <2> HIDE DEF Above
  <2>1. Levels(0, [l \in 0 .. 0 |-> NoOut(pos)])
    OBVIOUS
  <2> QED
    BY <2>1
<1>2. ASSUME NEW m \in Nat, m \in S
      PROVE  m + 1 \in S
  <2> HIDE DEF Above
  <2>1. PICK f : Levels(m, f)
    BY <1>2
  <2> DEFINE g == [l \in 0 .. m + 1 |-> IF l = m + 1 THEN Above(f[m], m + 1) ELSE f[l]]
  <2>2. \A l \in 0 .. m + 1 : g[l] = IF l = 0 THEN NoOut(pos) ELSE Above(g[l - 1], l)
    <3>1. g[0] = NoOut(pos)
      BY <2>1
    <3>2. \A l \in 1 .. m : g[l] = Above(g[l - 1], l)
      BY <2>1
    <3>3. g[m + 1] = Above(g[m], m + 1)
      OBVIOUS
    <3> HIDE DEF g
    <3> QED
      BY <3>1, <3>2, <3>3
  <2>3. g = [l \in 0 .. m + 1 |-> g[l]]
    OBVIOUS
  <2> HIDE DEF g
  <2>4. Levels(m + 1, g)
    BY <2>2, <2>3
  <2> QED
    BY <2>4
<1>3. n \in S
  <2> HIDE DEF S
  <2> QED
    BY <1>1, <1>2, Induction DEF n
<1> DEFINE steps == OutSteps(tokens, pos, count)
<1>4. Levels(n, steps)
  BY <1>3, Zenon DEF OutSteps
<1>5. steps[0] = NoOut(pos) /\ \A l \in 1 .. n : steps[l] = Above(steps[l - 1], l)
  <2> HIDE DEF steps, Above
  <2> QED
    BY <1>4
<1>6. ReadOuts(tokens, pos, count) = steps[n]
  BY DEF ReadOuts, OutSteps, NextOut, NoOut, Read
<1> QED
  BY <1>5, <1>6

(* The sum of the values up to each output.                                *)
SumSteps(outs) ==
    LET sum[i \in 0 .. Len(outs)] == IF i = 0 THEN 0 ELSE sum[i - 1] + outs[i].value
    IN  sum

LEMMA SumStepsUnfold ==
    ASSUME NEW outs, Len(outs) \in Nat
    PROVE  LET sum == SumSteps(outs) IN
           /\ sum[0] = 0
           /\ \A i \in 1 .. Len(outs) : sum[i] = sum[i - 1] + outs[i].value
           /\ TotalValue(outs) = sum[Len(outs)]
<1> DEFINE n == Len(outs)
           Above(x, l) == x + outs[l].value
           Levels(m, f) == f = [l \in 0 .. m |-> IF l = 0 THEN 0 ELSE Above(f[l - 1], l)]
           S == {m \in Nat : \E f : Levels(m, f)}
<1>1. 0 \in S
  <2> HIDE DEF Above
  <2>1. Levels(0, [l \in 0 .. 0 |-> 0])
    OBVIOUS
  <2> QED
    BY <2>1
<1>2. ASSUME NEW m \in Nat, m \in S
      PROVE  m + 1 \in S
  <2> HIDE DEF Above
  <2>1. PICK f : Levels(m, f)
    BY <1>2
  <2> DEFINE g == [l \in 0 .. m + 1 |-> IF l = m + 1 THEN Above(f[m], m + 1) ELSE f[l]]
  <2>2. \A l \in 0 .. m + 1 : g[l] = IF l = 0 THEN 0 ELSE Above(g[l - 1], l)
    <3>1. g[0] = 0
      BY <2>1
    <3>2. \A l \in 1 .. m : g[l] = Above(g[l - 1], l)
      BY <2>1
    <3>3. g[m + 1] = Above(g[m], m + 1)
      OBVIOUS
    <3> HIDE DEF g
    <3> QED
      BY <3>1, <3>2, <3>3
  <2>3. g = [l \in 0 .. m + 1 |-> g[l]]
    OBVIOUS
  <2> HIDE DEF g
  <2>4. Levels(m + 1, g)
    BY <2>2, <2>3
  <2> QED
    BY <2>4
<1>3. n \in S
  <2> HIDE DEF S
  <2> QED
    BY <1>1, <1>2, Induction DEF n
<1> DEFINE steps == SumSteps(outs)
<1>4. Levels(n, steps)
  BY <1>3, Zenon DEF SumSteps
<1>5. steps[0] = 0 /\ \A l \in 1 .. n : steps[l] = Above(steps[l - 1], l)
  <2> HIDE DEF steps, Above
  <2> QED
    BY <1>4
<1>6. TotalValue(outs) = steps[n]
  BY DEF TotalValue, SumSteps
<1> QED
  BY <1>5, <1>6

-----------------------------------------------------------------------------
Outs(T) == Seq([value : Int, script : Seq(T)])

LEMMA OutputType ==
    ASSUME NEW T, IsTokens(T), NEW value \in Int, NEW script \in Seq(T)
    PROVE  /\ Output(value, script) \in Seq(T) /\ Len(Output(value, script)) = 2 + Len(script)
           /\ <<[amount |-> value], Byte(Len(script))>> \in Seq(T)
<1>1. [amount |-> value] \in T /\ Byte(Len(script)) \in T
  BY DEF IsTokens
<1> DEFINE head == <<[amount |-> value], Byte(Len(script))>>
<1>2. head \in Seq(T) /\ Len(head) = 2
  BY <1>1
<1> HIDE DEF head
<1>3. head \o script \in Seq(T) /\ Len(head \o script) = 2 + Len(script)
  BY <1>2, ConcatLength
<1> QED
  BY <1>2, <1>3 DEF Output, head

(* One output is read back.                                                *)
LEMMA ReadsOut ==
    ASSUME NEW T, IsTokens(T), NEW tokens \in Seq(T), NEW before, NEW pos \in Nat \ {0},
           before.next = pos,
           NEW value \in Int, NEW script \in Seq(T), At(tokens, pos, Output(value, script))
    PROVE  NextOut(tokens, before) =
                Read(Append(before.outs, Out(value, script)), pos + Len(Output(value, script)))
<1> DEFINE head == <<[amount |-> value], Byte(Len(script))>>
<1>1. /\ head \in Seq(T) /\ Len(head) = 2
      /\ head[1] = [amount |-> value] /\ head[2] = Byte(Len(script))
  BY OutputType
<1>2. Output(value, script) = head \o script
  BY DEF Output
<1> HIDE DEF head
<1>3. At(tokens, pos, head) /\ At(tokens, pos + 2, script)
  <2>1. At(tokens, pos, head \o script) /\ head \in Seq(T)
    BY <1>1, <1>2
  <2>2. At(tokens, pos, head) /\ At(tokens, pos + Len(head), script)
    BY <2>1, AtConcatenation
  <2> QED
    BY <1>1, <2>2
<1>4. tokens[pos] = [amount |-> value] /\ tokens[pos + 1] = Byte(Len(script))
  <2>1. \A i \in 1 .. 2 : tokens[pos + i - 1] = head[i]
    BY <1>1, <1>3 DEF At
  <2>2. pos + 1 - 1 = pos /\ pos + 2 - 1 = pos + 1 /\ 1 \in 1 .. 2 /\ 2 \in 1 .. 2
    OBVIOUS
  <2>3. tokens[pos + 1 - 1] = head[1] /\ tokens[pos + 2 - 1] = head[2]
    BY <2>1, <2>2, Zenon
  <2> QED
    BY <1>1, <2>2, <2>3
<1>5. tokens[pos].amount = value /\ tokens[pos + 1].byte = Len(script)
  BY <1>4, ByteIsNoPrefix
<1>6. SubSeq(tokens, pos + 2, pos + 1 + Len(script)) = script
  <2>1. pos + 2 \in Nat \ {0} /\ pos + 2 + Len(script) - 1 = pos + 1 + Len(script)
    OBVIOUS
  <2>2. SubSeq(tokens, pos + 2, pos + 2 + Len(script) - 1) = script
    BY <1>3, <2>1, SubSeqAt
  <2> QED
    BY <2>1, <2>2
<1>7. Len(Output(value, script)) = 2 + Len(script)
  BY OutputType
<1>8. pos + Len(Output(value, script)) = pos + 2 + Len(script)
  BY <1>7
<1> QED
  BY <1>5, <1>6, <1>8 DEF NextOut, Read, Out

LEMMA AppendedUpTo ==
    ASSUME NEW s, NEW k \in Nat
    PROVE  Append([i \in 1 .. k |-> s[i]], s[k + 1]) = [i \in 1 .. k + 1 |-> s[i]]
  OBVIOUS

(* The outputs are read back, however many there are.                      *)
LEMMA ReadsOuts ==
    ASSUME NEW T, IsTokens(T), NEW tokens \in Seq(T), NEW start \in Nat \ {0},
           NEW outs \in Outs(T), NEW strings, Len(strings) = Len(outs),
           \A i \in 1 .. Len(outs) : strings[i] = Output(outs[i].value, outs[i].script),
           At(tokens, start, Joined(strings))
    PROVE  ReadOuts(tokens, start, Len(outs)) = Read(outs, start + Len(Joined(strings)))
<1> DEFINE n == Len(outs)
           join == JoinSteps(strings)
           read == OutSteps(tokens, start, n)
           UpTo(k) == [i \in 1 .. k |-> outs[i]]
           S == {k \in 0 .. n : read[k] = Read(UpTo(k), start + Len(join[k]))}
<1>1. n \in Nat /\ Len(strings) \in Nat
  BY DEF Outs
<1>2. \A i \in 1 .. n : outs[i].value \in Int /\ outs[i].script \in Seq(T)
  <2>1. \A i \in 1 .. n : outs[i] \in [value : Int, script : Seq(T)]
    BY ElementOfSeq DEF Outs
  <2> QED
    BY <2>1
<1>3. \A i \in 1 .. n : strings[i] \in Seq(T)
  BY <1>2, OutputType
<1>4. Joined(strings) = join[n]
  BY <1>1, JoinStepsUnfold
<1>5. \A i \in 1 .. n : At(tokens, start + Len(join[i - 1]), strings[i])
  BY <1>1, <1>3, JoinedStands
<1>6. /\ Len(join[0]) = 0 /\ \A i \in 0 .. n : Len(join[i]) \in Nat
      /\ \A i \in 1 .. n : Len(join[i]) = Len(join[i - 1]) + Len(strings[i])
  BY <1>1, <1>3, JoinStepsLength
<1>7. /\ read[0] = NoOut(start)
      /\ \A i \in 1 .. n : read[i] = NextOut(tokens, read[i - 1])
      /\ ReadOuts(tokens, start, n) = read[n]
  BY <1>1, OutStepsUnfold
<1>8. outs = UpTo(n)
  BY DEF Outs
<1> HIDE DEF n, join, read
<1>9. 0 \in S
  <2>1. start + 0 = start /\ 0 \in 0 .. n /\ UpTo(0) = << >>
    BY <1>1
  <2> QED
    BY <1>6, <1>7, <2>1 DEF NoOut
<1>10. ASSUME NEW k \in 0 .. n - 1, k \in S
       PROVE  k + 1 \in S
  <2> DEFINE pos == start + Len(join[k])
             out == outs[k + 1]
             string == strings[k + 1]
  <2>1. k + 1 \in 1 .. n /\ (k + 1) - 1 = k /\ k \in 0 .. n /\ k \in Nat
    BY <1>1
  <2>2. pos \in Nat \ {0} /\ Len(join[k]) \in Nat
    BY <1>6, <2>1
  <2>3. out.value \in Int /\ out.script \in Seq(T) /\ string = Output(out.value, out.script)
    BY <1>2, <2>1 DEF n
  <2>4. At(tokens, pos, string)
    BY <1>5, <2>1
  <2>5. read[k + 1] = NextOut(tokens, read[k]) /\ read[k].outs = UpTo(k) /\ read[k].next = pos
    BY <1>7, <1>10, <2>1 DEF Read
  <2>6. out = [value |-> out.value, script |-> out.script]
    <3>1. out \in [value : Int, script : Seq(T)]
      BY <2>1, ElementOfSeq DEF Outs, n
    <3> QED
      BY <3>1
  <2> HIDE DEF pos, out, string
  <2>7. read[k + 1] = Read(Append(UpTo(k), out), pos + Len(string))
    <3> HIDE DEF UpTo
    <3>1. PICK value \in Int, script \in Seq(T) : value = out.value /\ script = out.script
      BY <2>3
    <3>2. string = Output(value, script)
      BY <2>3, <3>1
    <3>3. At(tokens, pos, Output(value, script))
      BY <2>4, <3>2
    <3>4. NextOut(tokens, read[k]) =
            Read(Append(read[k].outs, Out(value, script)), pos + Len(Output(value, script)))
      BY <2>2, <2>5, <3>3, ReadsOut
    <3> QED
      BY <2>5, <2>6, <3>1, <3>2, <3>4 DEF Out
  <2>8. Append(UpTo(k), out) = UpTo(k + 1)
    BY <2>1, AppendedUpTo DEF out
  <2>9. pos + Len(string) = start + Len(join[k + 1])
    <3>1. Len(join[k + 1]) = Len(join[k]) + Len(string)
      BY <1>6, <2>1 DEF string
    <3>2. Len(string) \in Nat
      BY <1>3, <2>1 DEF string
    <3> QED
      BY <2>2, <3>1, <3>2 DEF pos
  <2> HIDE DEF UpTo
  <2> QED
    BY <2>1, <2>7, <2>8, <2>9
<1>11. 0 .. n \subseteq S
  <2> HIDE DEF S
  <2> QED
    BY <1>1, <1>9, <1>10, BoundedInduction DEF n
<1>12. read[n] = Read(UpTo(n), start + Len(join[n]))
  <2>1. n \in 0 .. n
    BY <1>1 DEF n
  <2> HIDE DEF UpTo
  <2> QED
    BY <1>11, <2>1
<1> HIDE DEF UpTo
<1> QED
  BY <1>4, <1>7, <1>8, <1>12 DEF n

-----------------------------------------------------------------------------
(* Inequalities under multiplication and division.                         *)
LEMMA TimesKeepsOrder ==
    ASSUME NEW a \in Int, NEW b \in Int, a <= b, NEW c \in Nat
    PROVE  a * c <= b * c
<1> DEFINE gap == b - a
<1>1. gap \in Nat /\ b = a + gap
  OBVIOUS
<1> HIDE DEF gap
<1>2. gap * c >= 0 /\ b * c = a * c + gap * c
  BY <1>1
<1> QED
  BY <1>1, <1>2

LEMMA CancelFactor ==
    ASSUME NEW a \in Int, NEW b \in Int, NEW c \in Nat \ {0}, a * c <= b * c
    PROVE  a <= b
<1> SUFFICES ASSUME b + 1 <= a
             PROVE  FALSE
  OBVIOUS
<1>1. (b + 1) * c <= a * c
  BY TimesKeepsOrder
<1>2. (b + 1) * c = b * c + c
  OBVIOUS
<1> QED
  BY <1>1, <1>2

LEMMA DivideWithRest ==
    ASSUME NEW a \in Nat, NEW b \in Nat \ {0}
    PROVE  \E q \in Nat, r \in 0 .. b - 1 : a \div b = q /\ a % b = r /\ a = q * b + r
<1>1. a \div b \in Nat /\ a % b \in 0 .. b - 1
  OBVIOUS
<1>2. a = (a \div b) * b + (a % b)
  OBVIOUS
<1> QED
  BY <1>1, <1>2

(* A number is rounded by at most a half, and not above a whole number it  *)
(* does not exceed.                                                        *)
LEMMA NearestIsNear ==
    ASSUME NEW num \in Nat, NEW den \in Nat \ {0}, NEW n \in Nat
    PROVE  /\ Nearest(num, den) \in Nat
           /\ 2 * (Nearest(num, den) * den - num) <= den
           /\ 2 * (num - Nearest(num, den) * den) <= den
           /\ num <= n * den => Nearest(num, den) <= n
<1>1. PICK q \in Nat, r \in 0 .. den - 1 : num \div den = q /\ num % den = r /\ num = q * den + r
  BY DivideWithRest
<1> DEFINE m == Nearest(num, den)
<1>2. m = IF 2 * r > den \/ (2 * r = den /\ q % 2 = 1) THEN q + 1 ELSE q
  BY <1>1, Zenon DEF Nearest
<1>3. \/ m = q /\ 2 * r <= den
      \/ m = q + 1 /\ 2 * r >= den
  BY <1>2
<1> HIDE DEF m
<1>4. q * den \in Nat /\ (q + 1) * den = q * den + den
  OBVIOUS
<1>5. ASSUME num <= n * den
      PROVE  m <= n
  <2>1. CASE m = q
    <3>1. q * den <= n * den
      BY <1>1, <1>4, <1>5
    <3> QED
      BY <2>1, <3>1, CancelFactor
  <2>2. CASE m = q + 1 /\ 2 * r >= den
    <3>1. q * den < n * den
      BY <1>1, <1>4, <1>5, <2>2
    <3>2. ~(n * den <= q * den)
      BY <3>1, <1>4
    <3>3. ~(n <= q)
      BY <3>2, TimesKeepsOrder
    <3> QED
      BY <2>2, <3>3
  <2> QED
    BY <1>3, <2>1, <2>2
<1>6. m \in Nat /\ 2 * (m * den - num) <= den /\ 2 * (num - m * den) <= den
  <2>1. CASE m = q /\ 2 * r <= den
    BY <1>1, <1>4, <2>1
  <2>2. CASE m = q + 1 /\ 2 * r >= den
    BY <1>1, <1>4, <2>2
  <2> QED
    BY <1>3, <2>1, <2>2
<1> QED
  BY <1>5, <1>6 DEF m

LEMMA EveryNumberHasScale ==
    ASSUME NEW num \in Nat, NEW den \in Nat \ {0}
    PROVE  ScaleOf(num, den) \in Scales /\ IsScaleOf(num, den, ScaleOf(num, den))
<1> DEFINE S == {s \in Scales : Fills(num, den, s)}
<1>1. S \subseteq Nat /\ Scales \subseteq Nat
  BY FloatAssumption
<1>2. \E s \in Scales : IsScaleOf(num, den, s)
  <2>1. CASE S = {}
    <3>1. PICK top \in Scales : \A s \in Scales : s <= top
      BY FloatAssumption
    <3> QED
      BY <2>1, <3>1 DEF IsScaleOf
  <2>2. CASE S # {}
    <3>1. PICK s \in S : \A t \in S : s <= t
      BY <1>1, <2>2, NatHasLeast
    <3>2. \A t \in Scales : t < s => t \notin S
      BY <1>1, <3>1
    <3> QED
      BY <3>1, <3>2 DEF IsScaleOf
  <2> QED
    BY <2>1, <2>2
<1> QED
  BY <1>2 DEF ScaleOf

(* f is num / den but for a small part of n.                               *)
IsNear(f, num, den, n) ==
    /\ f.num \in Nat /\ f.den \in Nat \ {0} /\ f.num <= n * f.den
    /\ 2 * Significand * (f.num * den - num * f.den) <= n * den * f.den
    /\ 2 * Significand * (num * f.den - f.num * den) <= n * den * f.den

LEMMA FloatIsNear ==
    ASSUME NEW num \in Nat, NEW den \in Nat \ {0}, NEW n \in Nat, num <= n * den
    PROVE  /\ Float(num, den).num \in Nat /\ Float(num, den).den \in Nat \ {0}
           /\ Float(num, den).num <= n * Float(num, den).den
           /\ n > 0 => IsNear(Float(num, den), num, den, n)
<1> DEFINE s == ScaleOf(num, den)
           m == Nearest(num * s, den)
           sig == Significand
<1>1. s \in Scales /\ IsScaleOf(num, den, s)
  BY EveryNumberHasScale
<1>2. s \in Nat \ {0} /\ sig \in Nat \ {0}
  BY <1>1, FloatAssumption
<1>3. num * s >= sig * den \/ s >= sig
  <2>1. PICK top \in Scales : top >= sig
    BY FloatAssumption
  <2>2. Fills(num, den, s) \/ top <= s
    BY <1>1, Zenon DEF IsScaleOf
  <2>3. top \in Nat
    BY <2>1, FloatAssumption
  <2> HIDE DEF s
  <2> QED
    BY <1>2, <2>1, <2>2, <2>3 DEF Fills
<1> HIDE DEF s
<1>4. num * s \in Nat /\ n * s \in Nat /\ (n * s) * den = (n * den) * s
  BY <1>2
<1>5. num * s <= (n * s) * den
  <2>1. num * s <= (n * den) * s
    BY <1>2, TimesKeepsOrder
  <2> QED
    BY <1>4, <2>1
<1>6. /\ m \in Nat /\ 2 * (m * den - num * s) <= den /\ 2 * (num * s - m * den) <= den
      /\ m <= n * s
  BY <1>4, <1>5, NearestIsNear
<1>7. ASSUME n > 0
      PROVE  sig <= n * s
  <2>1. CASE num * s >= sig * den
    <3>1. sig * den <= (n * s) * den
      BY <1>2, <1>4, <1>5, <2>1
    <3> QED
      BY <1>2, <1>4, <3>1, CancelFactor
  <2>2. CASE s >= sig
    <3>1. n \in Nat /\ 1 <= n
      BY <1>7
    <3>2. 1 * s <= n * s
      BY <1>2, <3>1, TimesKeepsOrder
    <3> QED
      BY <1>2, <1>4, <2>2, <3>2
  <2> QED
    BY <1>3, <2>1, <2>2
<1> HIDE DEF m, sig
<1>8. ASSUME NEW err \in Int, 2 * err <= den, n > 0
      PROVE  2 * sig * err <= n * den * s
  <2>1. (2 * err) * sig <= den * sig
    BY <1>2, <1>8, TimesKeepsOrder
  <2>2. sig * den <= (n * s) * den
    BY <1>2, <1>4, <1>7, <1>8, TimesKeepsOrder
  <2> QED
    BY <1>2, <1>4, <2>1, <2>2
<1>9. Float(num, den) = [num |-> m, den |-> s]
  BY DEF Float, m, s
<1>10. Float(num, den).num = m /\ Float(num, den).den = s
  BY <1>9
<1>11. ASSUME n > 0
       PROVE  IsNear(Float(num, den), num, den, n)
  <2>1. m * den - num * s \in Int /\ num * s - m * den \in Int
    BY <1>2, <1>4, <1>6
  <2>2. 2 * sig * (m * den - num * s) <= n * den * s
    BY <1>6, <1>8, <1>11, <2>1
  <2>3. 2 * sig * (num * s - m * den) <= n * den * s
    BY <1>6, <1>8, <1>11, <2>1
  <2> QED
    BY <1>2, <1>6, <1>10, <2>2, <2>3 DEF IsNear, sig
<1> QED
  BY <1>2, <1>6, <1>10, <1>11

(* Three small errors make a small one.                                    *)
LEMMA SmallErrorsAdd ==
    ASSUME NEW sig \in Nat \ {0}, NEW v \in Nat, 2 * v <= sig, NEW k \in Nat \ {0},
           NEW size \in Nat, NEW sum \in Int,
           2 * sig * (sum * k) <= 3 * (v * (size * k))
    PROVE  4 * sum <= 3 * size
<1> DEFINE x == (2 * sig) * sum
           y == 3 * (v * size)
<1>1. x * k <= y * k
  <2>1. x * k = 2 * sig * (sum * k)
    OBVIOUS
  <2>2. y * k = 3 * (v * (size * k))
    OBVIOUS
  <2> QED
    BY <2>1, <2>2
<1>2. x <= y
  <2>1. x \in Int /\ y \in Int
    OBVIOUS
  <2> HIDE DEF x, y
  <2> QED
    BY <1>1, <2>1, CancelFactor
<1>3. (2 * v) * size <= sig * size
  BY TimesKeepsOrder
<1>4. (4 * sum) * sig <= (3 * size) * sig
  <2>1. (4 * sum) * sig = 2 * x
    OBVIOUS
  <2>2. 2 * y <= (3 * size) * sig
    BY <1>3
  <2> HIDE DEF x, y
  <2>3. x \in Int /\ y \in Int /\ (3 * size) * sig \in Int
    BY DEF x, y
  <2> QED
    BY <1>2, <2>1, <2>2, <2>3
<1> QED
  BY <1>4, CancelFactor

LEMMA QuotientsAreNear ==
    ASSUME NEW f \in Nat, NEW g \in Nat \ {0}, NEW u \in Nat, NEW w \in Nat \ {0},
           f * w - u * g < w * g, u * g - f * w < w * g
    PROVE  (u \div w) - 1 <= f \div g /\ f \div g <= (u \div w) + 1
<1>1. PICK h \in Nat, r \in 0 .. g - 1 : f \div g = h /\ f % g = r /\ f = h * g + r
  BY DivideWithRest
<1>2. PICK e \in Nat, t \in 0 .. w - 1 : u \div w = e /\ u % w = t /\ u = e * w + t
  BY DivideWithRest
<1> DEFINE k == w * g
<1>3. k \in Nat /\ f * w = h * k + r * w /\ u * g = e * k + t * g
  BY <1>1, <1>2
<1>4. r * w \in Nat /\ t * g \in Nat /\ r * w < k /\ t * g < k
  <2>1. (r + 1) * w <= g * w
    BY <1>1, TimesKeepsOrder
  <2>2. (t + 1) * g <= w * g
    BY <1>2, TimesKeepsOrder
  <2> QED
    BY <1>1, <1>2, <2>1, <2>2
<1>5. k > 0
  BY <1>4
<1> DEFINE p == r * w
           q == t * g
<1>6. p \in Nat /\ q \in Nat /\ p < k /\ q < k
      /\ h * k + p - (e * k + q) < k /\ e * k + q - (h * k + p) < k
  BY <1>3, <1>4
<1>7. h \in Nat /\ e \in Nat /\ h * k \in Nat /\ e * k \in Nat /\ k \in Nat
      /\ (e + 2) * k = e * k + 2 * k /\ (h + 2) * k = h * k + 2 * k
  BY <1>1, <1>2, <1>3
<1> HIDE DEF k, p, q
<1>8. ~((e + 2) * k <= h * k) /\ ~((h + 2) * k <= e * k)
  BY <1>6, <1>7
<1>9. ~(e + 2 <= h) /\ ~(h + 2 <= e)
  BY <1>7, <1>8, TimesKeepsOrder
<1> QED
  BY <1>1, <1>2, <1>7, <1>9

(* The errors of the percentage a / b, of its hundredth c / e and of the   *)
(* product f / g with the reward v, on one denominator.                    *)
LEMMA ErrorsOnOneDenominator ==
    ASSUME NEW sig \in Nat, NEW v \in Nat, NEW b \in Nat, NEW d \in Nat, NEW e \in Nat, NEW g \in Nat,
           NEW e1 \in Int, 2 * sig * e1 <= 100 * d * b,
           NEW e2 \in Int, 2 * sig * e2 <= 1 * (100 * b) * e,
           NEW e3 \in Int, 2 * sig * e3 <= v * e * g,
           NEW sum \in Int, sum * (e * b) = e3 * (100 * d * b) + e2 * (v * g * d) + e1 * (v * g * e)
    PROVE  2 * sig * (sum * (e * b)) <= 3 * (v * ((100 * (g * d)) * (e * b)))
<1> DEFINE whole == v * ((100 * (g * d)) * (e * b))
           x == 2 * sig
<1>1. x \in Nat /\ whole \in Nat
  OBVIOUS
<1>2. x * e1 * (v * g * e) <= whole
  <2>1. (x * e1) * (v * g * e) <= (100 * d * b) * (v * g * e)
    BY TimesKeepsOrder
  <2>2. (100 * d * b) * (v * g * e) = whole
    OBVIOUS
  <2> QED
    BY <2>1, <2>2
<1>3. x * e2 * (v * g * d) <= whole
  <2>1. (x * e2) * (v * g * d) <= (1 * (100 * b) * e) * (v * g * d)
    BY TimesKeepsOrder
  <2>2. (1 * (100 * b) * e) * (v * g * d) = whole
    OBVIOUS
  <2> QED
    BY <2>1, <2>2
<1>4. x * e3 * (100 * d * b) <= whole
  <2>1. (x * e3) * (100 * d * b) <= (v * e * g) * (100 * d * b)
    BY TimesKeepsOrder
  <2>2. (v * e * g) * (100 * d * b) = whole
    OBVIOUS
  <2> QED
    BY <2>1, <2>2
<1> DEFINE t1 == e1 * (v * g * e)
           t2 == e2 * (v * g * d)
           t3 == e3 * (100 * d * b)
           s == sum * (e * b)
<1>5. s = t3 + t2 + t1 /\ t1 \in Int /\ t2 \in Int /\ t3 \in Int
  OBVIOUS
<1>6. x * t1 <= whole /\ x * t2 <= whole /\ x * t3 <= whole
  <2>1. x * e1 * (v * g * e) = x * t1 /\ x * e2 * (v * g * d) = x * t2
        /\ x * e3 * (100 * d * b) = x * t3
    OBVIOUS
  <2> QED
    BY <1>2, <1>3, <1>4, <2>1
<1> HIDE DEF whole, x, t1, t2, t3, s
<1>7. x * s = x * t3 + x * t2 + x * t1
  BY <1>1, <1>5
<1>8. x * s <= 3 * whole
  BY <1>1, <1>5, <1>6, <1>7
<1> QED
  BY <1>8 DEF x, s, whole

(* The fee of n / d percent in float64, from one rounding to the next.     *)
LEMMA FloatFeeIsNear ==
    ASSUME NEW v \in Nat, NEW n \in Nat, NEW d \in Nat \ {0}, n <= 100 * d,
           NEW percent, percent = Float(n, d),
           NEW part, part = Float(percent.num, 100 * percent.den),
           NEW fee, fee = Float(v * part.num, part.den)
    PROVE  /\ fee.num \div fee.den \in 0 .. v
           /\ percent.num = 0 => fee.num \div fee.den = 0
           /\ 2 * v <= Significand =>
                /\ ((v * n) \div (100 * d)) - 1 <= fee.num \div fee.den
                /\ fee.num \div fee.den <= ((v * n) \div (100 * d)) + 1
<1> DEFINE a == percent.num  b == percent.den  c == part.num  e == part.den
           f == fee.num  g == fee.den
<1>1. a \in Nat /\ b \in Nat \ {0} /\ IsNear(percent, n, d, 100) /\ a <= 100 * b
  BY FloatIsNear, 100 > 0
<1>2. 100 * b \in Nat \ {0} /\ a <= 1 * (100 * b)
  BY <1>1
<1>3. c \in Nat /\ e \in Nat \ {0} /\ IsNear(part, a, 100 * b, 1) /\ c <= 1 * e
  BY <1>1, <1>2, FloatIsNear, 1 > 0
<1>4. v * c \in Nat /\ v * c <= v * e
  <2>1. c * v <= e * v
    BY <1>3, TimesKeepsOrder
  <2> QED
    BY <1>3, <2>1
<1>5. f \in Nat /\ g \in Nat \ {0} /\ f <= v * g /\ (v > 0 => IsNear(fee, v * c, e, v))
  <2> DEFINE x == v * c
  <2>1. x \in Nat /\ x <= v * e /\ fee = Float(x, e) /\ e \in Nat \ {0}
    BY <1>3, <1>4
  <2> HIDE DEF x, e
  <2>2. f \in Nat /\ g \in Nat \ {0} /\ f <= v * g /\ (v > 0 => IsNear(fee, x, e, v))
    BY <2>1, FloatIsNear
  <2> QED
    BY <2>2 DEF x
<1>6. a = 0 => f = 0
  <2> SUFFICES ASSUME a = 0
               PROVE  f = 0
    OBVIOUS
  <2>1. a <= 0 * (100 * b)
    BY <1>2
  <2>2. c <= 0 * e
    <3> DEFINE h == 100 * b
    <3>1. a \in Nat /\ h \in Nat \ {0} /\ a <= 0 * h /\ part = Float(a, h)
      BY <1>1, <1>2, <2>1
    <3> HIDE DEF a, h
    <3> QED
      BY <3>1, FloatIsNear
  <2>3. c = 0
    BY <1>3, <2>2
  <2>4. v * c = 0 /\ 0 <= 0 * e
    BY <1>3, <2>3
  <2>5. fee = Float(0, e) /\ e \in Nat \ {0}
    BY <1>3, <2>4
  <2> HIDE DEF e, c, b, a
  <2>6. fee.num <= 0 * fee.den
    BY <2>4, <2>5, FloatIsNear
  <2> QED
    BY <1>5, <2>6
<1> HIDE DEF a, b, c, e, f, g
<1>7. f \div g \in 0 .. v /\ (a = 0 => f \div g = 0)
  <2>1. PICK q \in Nat, r \in 0 .. g - 1 : f \div g = q /\ f % g = r /\ f = q * g + r
    BY <1>5, DivideWithRest
  <2>2. q * g <= v * g /\ q * g \in Nat
    BY <1>5, <2>1
  <2>3. q <= v
    BY <1>5, <2>1, <2>2, CancelFactor
  <2>4. f = 0 => q * g <= 0 * g
    BY <1>5, <2>1, <2>2
  <2>5. f = 0 => q <= 0
    BY <1>5, <2>1, <2>4, CancelFactor
  <2> QED
    BY <1>6, <2>1, <2>3, <2>5
<1> DEFINE w == 100 * d
           u == v * n
           size == 100 * (g * d)
<1>8. u \in Nat /\ w \in Nat \ {0} /\ w * g = size /\ size \in Nat \ {0}
  BY <1>5
<1>9. ASSUME 2 * v <= Significand
      PROVE  f * w - u * g < size /\ u * g - f * w < size
  <2>1. CASE v = 0
    <3>1. f = 0 /\ u = 0
      BY <1>5, <2>1
    <3>2. f * w - u * g = 0 /\ u * g - f * w = 0
      BY <1>5, <1>8, <3>1
    <3> QED
      BY <1>8, <3>2
  <2>2. CASE v > 0
    <3> DEFINE e1 == a * d - n * b
               e2 == c * (100 * b) - a * e
               e3 == f * e - (v * c) * g
               sum == f * w - u * g
    <3>1. e1 \in Int /\ e2 \in Int /\ e3 \in Int /\ sum \in Int
      BY <1>1, <1>3, <1>5, <1>8
    <3>2. sum * (e * b) = e3 * (100 * d * b) + e2 * (v * g * d) + e1 * (v * g * e)
      BY <1>1, <1>3, <1>5
    <3>3. 2 * Significand * e1 <= 100 * d * b /\ 2 * Significand * (- e1) <= 100 * d * b
      <4>1. - e1 = n * b - a * d
        BY <1>1
      <4> QED
        BY <1>1, <4>1 DEF IsNear, a, b
    <3>4. 2 * Significand * e2 <= 1 * (100 * b) * e /\ 2 * Significand * (- e2) <= 1 * (100 * b) * e
      <4>1. - e2 = a * e - c * (100 * b)
        BY <1>1, <1>3
      <4> QED
        BY <1>3, <4>1 DEF IsNear, c, e
    <3>5. 2 * Significand * e3 <= v * e * g /\ 2 * Significand * (- e3) <= v * e * g
      <4>1. - e3 = (v * c) * g - f * e
        BY <1>3, <1>5
      <4> QED
        BY <1>5, <2>2, <4>1 DEF IsNear, f, g
    <3>6. (- sum) * (e * b) = (- e3) * (100 * d * b) + (- e2) * (v * g * d) + (- e1) * (v * g * e)
      BY <1>1, <1>3, <1>5, <3>1, <3>2
    <3>7. e * b \in Nat \ {0} /\ Significand \in Nat \ {0}
      BY <1>1, <1>3, FloatAssumption
    <3>8. 2 * Significand * (sum * (e * b)) <= 3 * (v * (size * (e * b)))
      <4> HIDE DEF e1, e2, e3, sum
      <4> QED
        BY <1>1, <1>3, <1>5, <3>1, <3>2, <3>3, <3>4, <3>5, <3>7, ErrorsOnOneDenominator
    <3>9. 2 * Significand * ((- sum) * (e * b)) <= 3 * (v * (size * (e * b)))
      <4> DEFINE m1 == - e1  m2 == - e2  m3 == - e3  minus == - sum
      <4>1. m1 \in Int /\ m2 \in Int /\ m3 \in Int /\ minus \in Int
        BY <3>1
      <4>2. minus * (e * b) = m3 * (100 * d * b) + m2 * (v * g * d) + m1 * (v * g * e)
        BY <3>6
      <4>3. /\ 2 * Significand * m1 <= 100 * d * b
            /\ 2 * Significand * m2 <= 1 * (100 * b) * e
            /\ 2 * Significand * m3 <= v * e * g
        BY <3>3, <3>4, <3>5
      <4> HIDE DEF m1, m2, m3, minus
      <4>4. 2 * Significand * (minus * (e * b)) <= 3 * (v * (size * (e * b)))
        BY <1>1, <1>3, <1>5, <4>1, <4>2, <4>3, <3>7, ErrorsOnOneDenominator
      <4> QED
        BY <4>4 DEF minus
    <3> DEFINE k == e * b
    <3> HIDE DEF e1, e2, e3, sum, k, size
    <3>10. 4 * sum <= 3 * size
      BY <1>8, <1>9, <3>1, <3>7, <3>8, SmallErrorsAdd DEF k
    <3>11. 4 * (- sum) <= 3 * size
      BY <1>8, <1>9, <3>1, <3>7, <3>9, SmallErrorsAdd DEF k
    <3>12. sum < size /\ - sum < size
      BY <1>8, <3>1, <3>10, <3>11
    <3>13. - sum = u * g - f * w
      BY <1>5, <1>8 DEF sum
    <3> QED
      BY <3>12, <3>13 DEF sum
  <2> QED
    BY <2>1, <2>2
<1> HIDE DEF w, u, size
<1>10. 2 * v <= Significand => (u \div w) - 1 <= f \div g /\ f \div g <= (u \div w) + 1
  BY <1>5, <1>8, <1>9, QuotientsAreNear
<1> QED
  BY <1>7, <1>10, Zenon DEF a, f, g, u, w

-----------------------------------------------------------------------------
(* The outputs the coinbase is to have, and as they are written.           *)
PaidOuts(cfg, value, commitment) ==
    LET fee == FeeSatoshis(cfg, value)
    IN  <<Out(MinerSatoshis(cfg, value), AddressToScriptPubKey(cfg.walletAddress))>>
        \o (IF fee > 0 THEN <<Out(fee, AddressToScriptPubKey(cfg.feeAddress))>> ELSE << >>)
        \o (IF commitment # {} THEN <<Out(0, Some(commitment))>> ELSE << >>)

OutStrings(cfg, value, commitment) ==
    LET fee == FeeSatoshis(cfg, value)
    IN  <<Output(MinerSatoshis(cfg, value), AddressToScriptPubKey(cfg.walletAddress))>>
        \o (IF fee > 0 THEN <<Output(fee, AddressToScriptPubKey(cfg.feeAddress))>> ELSE << >>)
        \o (IF commitment # {} THEN <<Output(0, Some(commitment))>> ELSE << >>)

(* Neither the reward nor the percentage is negative, and the scripts are  *)
(* made of tokens of T.                                                    *)
Payable(cfg, value, commitment, T) ==
    /\ value \in Nat /\ IsFraction(cfg.feePercent)
    /\ AddressToScriptPubKey(cfg.walletAddress) \in Seq(T)
    /\ cfg.feeAddress # NoAddress => AddressToScriptPubKey(cfg.feeAddress) \in Seq(T)
    /\ commitment # {} => Some(commitment) \in Seq(T)

LEMMA FloatIsFraction ==
    ASSUME NEW num \in Nat, NEW den \in Nat \ {0}
    PROVE  Float(num, den).num \in Nat /\ Float(num, den).den \in Nat \ {0}
<1>1. num * 1 <= num * den
  BY 1 * num <= den * num, TimesKeepsOrder
<1>2. num <= num * den
  BY <1>1
<1> QED
  BY <1>2, FloatIsNear

(* Whatever the percentage, the fee is a whole number of satoshis, and     *)
(* nothing without an address for it.                                      *)
LEMMA FeeIsRounded ==
    ASSUME NEW cfg, NEW value \in Nat, IsFraction(cfg.feePercent)
    PROVE  /\ FeeSatoshis(cfg, value) \in Nat /\ MinerSatoshis(cfg, value) \in Int
           /\ FeeSatoshis(cfg, value) > 0 => cfg.feeAddress # NoAddress
<1> DEFINE percent == Float(cfg.feePercent.num, cfg.feePercent.den)
           part    == Float(percent.num, 100 * percent.den)
           fee     == Float(value * part.num, part.den)
<1>1. percent.num \in Nat /\ percent.den \in Nat \ {0}
  BY FloatIsFraction DEF IsFraction
<1>2. FeeSatoshis(cfg, value) = IF percent.num > 0 /\ cfg.feeAddress # NoAddress
                                THEN fee.num \div fee.den ELSE 0
  BY DEF FeeSatoshis
<1> HIDE DEF percent
<1>3. 100 * percent.den \in Nat \ {0}
  BY <1>1
<1>4. part.num \in Nat /\ part.den \in Nat \ {0}
  BY <1>1, <1>3, FloatIsFraction
<1> HIDE DEF part
<1>5. value * part.num \in Nat
  BY <1>4
<1>6. fee.num \in Nat /\ fee.den \in Nat \ {0}
  BY <1>4, <1>5, FloatIsFraction
<1> HIDE DEF fee
<1>7. fee.num \div fee.den \in Nat
  BY <1>6
<1>8. FeeSatoshis(cfg, value) \in Nat
  BY <1>2, <1>7
<1>9. MinerSatoshis(cfg, value) \in Int
  BY <1>8 DEF MinerSatoshis
<1>10. FeeSatoshis(cfg, value) > 0 => cfg.feeAddress # NoAddress
  BY <1>2
<1> QED
  BY <1>8, <1>9, <1>10

(* Up to 100 percent the fee is within the reward, and, of a reward up to  *)
(* 2^51, next to the exact one.                                            *)
LEMMA FeeIsNearlyExact ==
    ASSUME NEW cfg, NEW value \in Nat, IsFraction(cfg.feePercent), AtMost(cfg.feePercent, 100)
    PROVE  LET exact == (value * cfg.feePercent.num) \div (100 * cfg.feePercent.den)
           IN  /\ FeeSatoshis(cfg, value) \in 0 .. value
               /\ cfg.feeAddress = NoAddress => FeeSatoshis(cfg, value) = 0
               /\ cfg.feeAddress # NoAddress /\ 2 * value <= Significand =>
                      exact - 1 <= FeeSatoshis(cfg, value) /\ FeeSatoshis(cfg, value) <= exact + 1
<1> DEFINE n == cfg.feePercent.num
           d == cfg.feePercent.den
           percent == Float(n, d)
           part    == Float(percent.num, 100 * percent.den)
           fee     == Float(value * part.num, part.den)
           exact   == (value * n) \div (100 * d)
           cut     == fee.num \div fee.den
<1>1. n \in Nat /\ d \in Nat \ {0} /\ n <= 100 * d
  BY DEF IsFraction, AtMost
<1>2. FeeSatoshis(cfg, value) = IF percent.num > 0 /\ cfg.feeAddress # NoAddress THEN cut ELSE 0
  BY DEF FeeSatoshis
<1>3. percent.num \in Nat
  BY <1>1, FloatIsFraction
<1> HIDE DEF n, d
<1>4. /\ cut \in 0 .. value
      /\ percent.num = 0 => cut = 0
      /\ 2 * value <= Significand => exact - 1 <= cut /\ cut <= exact + 1
  BY <1>1, FloatFeeIsNear
<1> HIDE DEF percent, cut, exact
<1>5. cfg.feeAddress # NoAddress => FeeSatoshis(cfg, value) = cut
  BY <1>2, <1>3, <1>4
<1>6. cfg.feeAddress = NoAddress => FeeSatoshis(cfg, value) = 0
  BY <1>2, Zenon
<1>7. FeeSatoshis(cfg, value) \in 0 .. value
  BY <1>4, <1>5, <1>6
<1> QED
  BY <1>4, <1>5, <1>6, <1>7 DEF exact, n, d

LEMMA PairOf == ASSUME NEW a, NEW b PROVE <<a>> \o <<b>> = <<a, b>>
<1> DEFINE U == {a, b}
           s == <<a>>
           t == <<b>>
           st == <<a, b>>
<1>1. /\ s \in Seq(U) /\ Len(s) = 1 /\ s[1] = a /\ t \in Seq(U) /\ Len(t) = 1 /\ t[1] = b
      /\ st \in Seq(U) /\ Len(st) = 2 /\ st[1] = a /\ st[2] = b
  OBVIOUS
<1> HIDE DEF s, t, st, U
<1>2. /\ s \o t \in Seq(U) /\ Len(s \o t) = 2 /\ (s \o t)[1] = a /\ (s \o t)[2] = b
  BY <1>1, Concatenation
<1>3. s \o t = st
  BY <1>1, <1>2, SeqEqual
<1> QED
  BY <1>3 DEF s, t, st

LEMMA TripleOf == ASSUME NEW a, NEW b, NEW c PROVE <<a, b>> \o <<c>> = <<a, b, c>>
<1> DEFINE U == {a, b, c}
           s == <<a, b>>
           t == <<c>>
           st == <<a, b, c>>
<1>1. /\ s \in Seq(U) /\ Len(s) = 2 /\ s[1] = a /\ s[2] = b
      /\ t \in Seq(U) /\ Len(t) = 1 /\ t[1] = c
      /\ st \in Seq(U) /\ Len(st) = 3 /\ st[1] = a /\ st[2] = b /\ st[3] = c
  OBVIOUS
<1> HIDE DEF s, t, st, U
<1>2. /\ s \o t \in Seq(U) /\ Len(s \o t) = 3
      /\ (s \o t)[1] = a /\ (s \o t)[2] = b /\ (s \o t)[3] = c
  <2>1. /\ s \o t \in Seq(U) /\ Len(s \o t) = 2 + 1
        /\ \A i \in 1 .. 2 : (s \o t)[i] = s[i]
        /\ \A i \in 1 .. 1 : (s \o t)[2 + i] = t[i]
    <3>1. s \in Seq(U) /\ t \in Seq(U)
      BY <1>1
    <3>2. /\ s \o t \in Seq(U) /\ Len(s \o t) = Len(s) + Len(t)
          /\ \A i \in 1 .. Len(s) : (s \o t)[i] = s[i]
          /\ \A i \in 1 .. Len(t) : (s \o t)[Len(s) + i] = t[i]
      BY <3>1, Concatenation
    <3>3. Len(s) = 2 /\ Len(t) = 1
      BY <1>1
    <3> QED
      BY <3>2, <3>3, Zenon
  <2>2. 1 \in 1 .. 2 /\ 2 \in 1 .. 2 /\ 1 \in 1 .. 1 /\ 2 + 1 = 3
    OBVIOUS
  <2> QED
    BY <1>1, <2>1, <2>2, Zenon
<1>3. s \o t = st
  BY <1>1, <1>2, SeqEqual
<1> QED
  BY <1>3 DEF s, t, st

LEMMA FewOf ==
    ASSUME NEW a, NEW b, NEW c
    PROVE  /\ <<a>> \o << >> \o << >> = <<a>>
           /\ <<a>> \o <<b>> \o << >> = <<a, b>>
           /\ <<a>> \o << >> \o <<c>> = <<a, c>>
           /\ <<a>> \o <<b>> \o <<c>> = <<a, b, c>>
<1>1. <<a>> \o << >> = <<a>> /\ <<a, b>> \o << >> = <<a, b>>
  OBVIOUS
<1> QED
  BY <1>1, PairOf, TripleOf, Zenon

LEMMA PaidOutsOf ==
    ASSUME NEW cfg, NEW value, NEW commitment
    PROVE  LET fee    == FeeSatoshis(cfg, value)
               miner  == Out(MinerSatoshis(cfg, value), AddressToScriptPubKey(cfg.walletAddress))
               pool   == Out(fee, AddressToScriptPubKey(cfg.feeAddress))
               commit == Out(0, Some(commitment))
               outs   == PaidOuts(cfg, value, commitment)
           IN  /\ ~(fee > 0) /\ commitment = {} => outs = <<miner>>
               /\ fee > 0 /\ commitment = {} => outs = <<miner, pool>>
               /\ ~(fee > 0) /\ commitment # {} => outs = <<miner, commit>>
               /\ fee > 0 /\ commitment # {} => outs = <<miner, pool, commit>>
<1> DEFINE a == Out(MinerSatoshis(cfg, value), AddressToScriptPubKey(cfg.walletAddress))
           b == Out(FeeSatoshis(cfg, value), AddressToScriptPubKey(cfg.feeAddress))
           c == Out(0, Some(commitment))
           outs == PaidOuts(cfg, value, commitment)
<1>1. outs = <<a>> \o (IF FeeSatoshis(cfg, value) > 0 THEN <<b>> ELSE << >>)
                   \o (IF commitment # {} THEN <<c>> ELSE << >>)
  BY DEF PaidOuts
<1> HIDE DEF a, b, c, outs
<1>2. /\ ~(FeeSatoshis(cfg, value) > 0) /\ commitment = {} => outs = <<a>>
      /\ FeeSatoshis(cfg, value) > 0 /\ commitment = {} => outs = <<a, b>>
      /\ ~(FeeSatoshis(cfg, value) > 0) /\ commitment # {} => outs = <<a, c>>
      /\ FeeSatoshis(cfg, value) > 0 /\ commitment # {} => outs = <<a, b, c>>
  BY <1>1, FewOf
<1> QED
  BY <1>2 DEF a, b, c, outs

LEMMA OutStringsOf ==
    ASSUME NEW cfg, NEW value, NEW commitment
    PROVE  LET fee    == FeeSatoshis(cfg, value)
               miner  == Output(MinerSatoshis(cfg, value), AddressToScriptPubKey(cfg.walletAddress))
               pool   == Output(fee, AddressToScriptPubKey(cfg.feeAddress))
               commit == Output(0, Some(commitment))
               strings == OutStrings(cfg, value, commitment)
           IN  /\ ~(fee > 0) /\ commitment = {} => strings = <<miner>>
               /\ fee > 0 /\ commitment = {} => strings = <<miner, pool>>
               /\ ~(fee > 0) /\ commitment # {} => strings = <<miner, commit>>
               /\ fee > 0 /\ commitment # {} => strings = <<miner, pool, commit>>
<1> DEFINE a == Output(MinerSatoshis(cfg, value), AddressToScriptPubKey(cfg.walletAddress))
           b == Output(FeeSatoshis(cfg, value), AddressToScriptPubKey(cfg.feeAddress))
           c == Output(0, Some(commitment))
           strings == OutStrings(cfg, value, commitment)
<1>1. strings = <<a>> \o (IF FeeSatoshis(cfg, value) > 0 THEN <<b>> ELSE << >>)
                      \o (IF commitment # {} THEN <<c>> ELSE << >>)
  BY DEF OutStrings
<1> HIDE DEF a, b, c, strings
<1>2. /\ ~(FeeSatoshis(cfg, value) > 0) /\ commitment = {} => strings = <<a>>
      /\ FeeSatoshis(cfg, value) > 0 /\ commitment = {} => strings = <<a, b>>
      /\ ~(FeeSatoshis(cfg, value) > 0) /\ commitment # {} => strings = <<a, c>>
      /\ FeeSatoshis(cfg, value) > 0 /\ commitment # {} => strings = <<a, b, c>>
  BY <1>1, FewOf
<1> QED
  BY <1>2 DEF a, b, c, strings

LEMMA PaidOutsType ==
    ASSUME NEW T, NEW cfg, NEW value, NEW commitment, Payable(cfg, value, commitment, T)
    PROVE  LET outs    == PaidOuts(cfg, value, commitment)
               strings == OutStrings(cfg, value, commitment)
           IN  /\ outs \in Outs(T) /\ Len(outs) \in 1 .. 3 /\ Len(strings) = Len(outs)
               /\ \A i \in 1 .. Len(outs) : strings[i] = Output(outs[i].value, outs[i].script)
<1> DEFINE fee == FeeSatoshis(cfg, value)
           wallet == AddressToScriptPubKey(cfg.walletAddress)
           pool == AddressToScriptPubKey(cfg.feeAddress)
           miner == MinerSatoshis(cfg, value)
           script == Some(commitment)
           R == [value : Int, script : Seq(T)]
           outs == PaidOuts(cfg, value, commitment)
           strings == OutStrings(cfg, value, commitment)
<1>1. fee \in Nat /\ miner \in Int /\ (fee > 0 => cfg.feeAddress # NoAddress)
  BY FeeIsRounded DEF Payable
<1>2. wallet \in Seq(T) /\ (fee > 0 => pool \in Seq(T)) /\ (commitment # {} => script \in Seq(T))
  BY <1>1 DEF Payable
<1>3. /\ ~(fee > 0) /\ commitment = {} => outs = <<Out(miner, wallet)>>
      /\ fee > 0 /\ commitment = {} => outs = <<Out(miner, wallet), Out(fee, pool)>>
      /\ ~(fee > 0) /\ commitment # {} => outs = <<Out(miner, wallet), Out(0, script)>>
      /\ fee > 0 /\ commitment # {} => outs = <<Out(miner, wallet), Out(fee, pool), Out(0, script)>>
  BY PaidOutsOf
<1>4. /\ ~(fee > 0) /\ commitment = {} => strings = <<Output(miner, wallet)>>
      /\ fee > 0 /\ commitment = {} => strings = <<Output(miner, wallet), Output(fee, pool)>>
      /\ ~(fee > 0) /\ commitment # {} => strings = <<Output(miner, wallet), Output(0, script)>>
      /\ fee > 0 /\ commitment # {} =>
            strings = <<Output(miner, wallet), Output(fee, pool), Output(0, script)>>
  BY OutStringsOf
<1> HIDE DEF fee, wallet, pool, miner, script, outs, strings
<1>5. \A v, s : Out(v, s).value = v /\ Out(v, s).script = s
  BY DEF Out
<1>6. \A v \in Int, s \in Seq(T) : Out(v, s) \in R
  BY DEF Out
<1>7. Out(miner, wallet) \in R
  BY <1>1, <1>2, <1>6
<1>8. fee > 0 => Out(fee, pool) \in R
  BY <1>1, <1>2, <1>6
<1>9. commitment # {} => Out(0, script) \in R
  <2>1. 0 \in Int
    OBVIOUS
  <2> QED
    BY <1>2, <1>6, <2>1, Zenon
<1> DEFINE a == Out(miner, wallet)
           b == Out(fee, pool)
           c == Out(0, script)
           A == Output(miner, wallet)
           B == Output(fee, pool)
           C == Output(0, script)
           Text(out) == Output(out.value, out.script)
<1>10. A = Text(a) /\ B = Text(b) /\ C = Text(c)
  BY <1>5
<1> HIDE DEF a, b, c, A, B, C, R, Text
<1>11. /\ outs \in Seq(R) /\ Len(outs) \in 1 .. 3 /\ Len(strings) = Len(outs)
       /\ \A i \in 1 .. Len(outs) : strings[i] = Text(outs[i])
  <2>1. CASE ~(fee > 0) /\ commitment = {}
    <3>1. outs = <<a>> /\ strings = <<A>> /\ a \in R
      BY <1>3, <1>4, <1>7, <2>1 DEF a, A
    <3> QED
      BY <1>10, <3>1
  <2>2. CASE fee > 0 /\ commitment = {}
    <3>1. outs = <<a, b>> /\ strings = <<A, B>> /\ a \in R /\ b \in R
      BY <1>3, <1>4, <1>7, <1>8, <2>2 DEF a, A, b, B
    <3> QED
      BY <1>10, <3>1
  <2>3. CASE ~(fee > 0) /\ commitment # {}
    <3>1. outs = <<a, c>> /\ strings = <<A, C>> /\ a \in R /\ c \in R
      BY <1>3, <1>4, <1>7, <1>9, <2>3 DEF a, A, c, C
    <3> QED
      BY <1>10, <3>1
  <2>4. CASE fee > 0 /\ commitment # {}
    <3>1. outs = <<a, b, c>> /\ strings = <<A, B, C>> /\ a \in R /\ b \in R /\ c \in R
      BY <1>3, <1>4, <1>7, <1>8, <1>9, <2>4 DEF a, A, b, B, c, C
    <3> QED
      BY <1>10, <3>1
  <2> QED
    BY <2>1, <2>2, <2>3, <2>4
<1> QED
  BY <1>11 DEF R, Text, Outs, outs, strings

(* Sums of up to three values.                                             *)
LEMMA TotalOfFew ==
    ASSUME NEW outs, Len(outs) \in 1 .. 3, \A i \in 1 .. Len(outs) : outs[i].value \in Int
    PROVE  TotalValue(outs) = IF Len(outs) = 1 THEN outs[1].value
                              ELSE IF Len(outs) = 2 THEN outs[1].value + outs[2].value
                              ELSE outs[1].value + outs[2].value + outs[3].value
<1> DEFINE n == Len(outs)
           sum == SumSteps(outs)
           v(i) == outs[i].value
<1>1. /\ sum[0] = 0 /\ \A i \in 1 .. n : sum[i] = sum[i - 1] + v(i)
      /\ TotalValue(outs) = sum[n]
  BY SumStepsUnfold
<1>2. n \in 1 .. 3 /\ \A i \in 1 .. n : v(i) \in Int
  OBVIOUS
<1> HIDE DEF n, sum, v
<1>3. sum[1] = v(1)
  <2>1. sum[1] = sum[1 - 1] + v(1) /\ v(1) \in Int /\ 1 - 1 = 0
    BY <1>1, <1>2
  <2> QED
    BY <1>1, <2>1
<1>4. n >= 2 => sum[2] = v(1) + v(2)
  <2>1. n >= 2 => 2 \in 1 .. n
    BY <1>2
  <2> QED
    BY <1>1, <1>3, <2>1
<1>5. n >= 3 => sum[3] = v(1) + v(2) + v(3)
  <2>1. n >= 3 => 3 \in 1 .. n /\ n >= 2
    BY <1>2
  <2> QED
    BY <1>1, <1>4, <2>1
<1>6. TotalValue(outs) = IF n = 1 THEN v(1) ELSE IF n = 2 THEN v(1) + v(2) ELSE v(1) + v(2) + v(3)
  BY <1>1, <1>2, <1>3, <1>4, <1>5
<1> QED
  BY <1>6 DEF n, v

(* The outputs behind the extranonces are read as they were meant, by the  *)
(* number that stands before them.                                         *)
LEMMA CoinbaseOutsAreRead ==
    ASSUME NEW T, IsTokens(T), NEW cfg, NEW height, NEW value, NEW commitment,
           Payable(cfg, value, commitment, T)
    PROVE  LET coinb2 == BuildCoinbaseTransaction(cfg, height, value, commitment).coinb2
           IN  ReadOuts(coinb2, 3, coinb2[2].byte).outs = PaidOuts(cfg, value, commitment)
<1> DEFINE coinb2 == BuildCoinbaseTransaction(cfg, height, value, commitment).coinb2
           outs == PaidOuts(cfg, value, commitment)
           strings == OutStrings(cfg, value, commitment)
           n == Len(strings)
           head == <<Field("sequence"), Byte(n)>>
           lock == <<Field("locktime")>>
<1>1. coinb2 = head \o Joined(strings) \o lock
  BY DEF BuildCoinbaseTransaction, OutStrings
<1>2. /\ outs \in Outs(T) /\ Len(outs) \in 1 .. 3 /\ Len(strings) = Len(outs)
      /\ \A i \in 1 .. Len(outs) : strings[i] = Output(outs[i].value, outs[i].script)
  BY PaidOutsType
<1> HIDE DEF coinb2, outs, strings
<1>3. n \in Nat
  BY <1>2
<1>4. Joined(strings) \in Seq(T)
  <2>1. \A i \in 1 .. Len(outs) : outs[i] \in [value : Int, script : Seq(T)]
    BY <1>2, ElementOfSeq DEF Outs
  <2>2. \A i \in 1 .. Len(outs) : outs[i].value \in Int /\ outs[i].script \in Seq(T)
    BY <2>1
  <2>3. \A i \in 1 .. Len(strings) : strings[i] \in Seq(T)
    BY <1>2, <2>2, OutputType
  <2> QED
    BY <1>3, <2>3, JoinedType
<1>5. Field("sequence") \in T /\ Field("locktime") \in T /\ Byte(n) \in T
  BY <1>3 DEF IsTokens
<1>6. head \in Seq(T) /\ Len(head) = 2 /\ head[2] = Byte(n) /\ lock \in Seq(T)
  BY <1>5
<1> HIDE DEF head, lock, n
<1>7. head \o Joined(strings) \in Seq(T)
  BY <1>4, <1>6, ConcatLength
<1>8. coinb2 \in Seq(T)
  BY <1>1, <1>6, <1>7, ConcatLength
<1>9. 1 \in Nat \ {0} /\ 1 + 2 = 3 /\ 3 \in Nat \ {0}
  OBVIOUS
<1>10. At(coinb2, 1, head \o Joined(strings))
  <2>1. At(coinb2, 1, coinb2)
    BY <1>8, AtItself
  <2> QED
    BY <1>1, <1>6, <1>7, <1>8, <1>9, <2>1, AtConcatenation
<1>11. At(coinb2, 1, head) /\ At(coinb2, 3, Joined(strings))
  <2>1. At(coinb2, 1, head) /\ At(coinb2, 1 + Len(head), Joined(strings))
    BY <1>4, <1>6, <1>8, <1>9, <1>10, AtConcatenation
  <2> QED
    BY <1>6, <1>9, <2>1
<1>12. coinb2[2] = Byte(n)
  <2>1. \A i \in 1 .. 2 : coinb2[1 + i - 1] = head[i]
    BY <1>6, <1>11 DEF At
  <2>2. 2 \in 1 .. 2 /\ 1 + 2 - 1 = 2
    OBVIOUS
  <2>3. coinb2[1 + 2 - 1] = head[2]
    BY <2>1, <2>2, Zenon
  <2> QED
    BY <1>6, <2>2, <2>3
<1>13. coinb2[2].byte = Len(outs)
  BY <1>2, <1>12, ByteIsNoPrefix DEF n
<1>14. ReadOuts(coinb2, 3, Len(outs)) = Read(outs, 3 + Len(Joined(strings)))
  BY <1>2, <1>8, <1>9, <1>11, ReadsOuts
<1> QED
  BY <1>13, <1>14 DEF Read, coinb2, outs

(* The values of up to three outputs, by which of them there are.          *)
LEMMA TotalOfPaid ==
    ASSUME NEW cfg, NEW value \in Nat, IsFraction(cfg.feePercent), NEW commitment,
           NEW outs, Len(outs) = Len(PaidOuts(cfg, value, commitment)),
           \A i \in 1 .. Len(outs) : outs[i].value \in Int,
           NEW w \in Int, NEW f \in Int,
           outs[1].value = w, FeeSatoshis(cfg, value) > 0 => outs[2].value = f,
           ~(FeeSatoshis(cfg, value) > 0) => f = 0,
           commitment # {} => outs[Len(outs)].value = 0
    PROVE  TotalValue(outs) = w + f
<1> DEFINE fee == FeeSatoshis(cfg, value)
           miner == Out(MinerSatoshis(cfg, value), AddressToScriptPubKey(cfg.walletAddress))
           pool == Out(FeeSatoshis(cfg, value), AddressToScriptPubKey(cfg.feeAddress))
           commit == Out(0, Some(commitment))
           paid == PaidOuts(cfg, value, commitment)
<1>1. /\ ~(fee > 0) /\ commitment = {} => paid = <<miner>>
      /\ fee > 0 /\ commitment = {} => paid = <<miner, pool>>
      /\ ~(fee > 0) /\ commitment # {} => paid = <<miner, commit>>
      /\ fee > 0 /\ commitment # {} => paid = <<miner, pool, commit>>
  BY PaidOutsOf
<1> HIDE DEF miner, pool, commit, paid
<1>2. Len(outs) = IF commitment = {} THEN (IF fee > 0 THEN 2 ELSE 1) ELSE (IF fee > 0 THEN 3 ELSE 2)
  <2>1. Len(outs) = Len(paid)
    BY DEF paid
  <2>2. Len(<<miner>>) = 1 /\ Len(<<miner, pool>>) = 2 /\ Len(<<miner, commit>>) = 2
        /\ Len(<<miner, pool, commit>>) = 3
    OBVIOUS
  <2> QED
    BY <1>1, <2>1, <2>2, Zenon
<1> DEFINE total == TotalValue(outs)
           n == Len(outs)
           v(i) == outs[i].value
<1>3. n \in 1 .. 3
  BY <1>2
<1>4. total = IF n = 1 THEN v(1) ELSE IF n = 2 THEN v(1) + v(2) ELSE v(1) + v(2) + v(3)
  BY <1>3, TotalOfFew
<1>5. v(1) = w /\ (fee > 0 => v(2) = f) /\ (~(fee > 0) => f = 0) /\ (commitment # {} => v(n) = 0)
  OBVIOUS
<1>6. n = IF commitment = {} THEN (IF fee > 0 THEN 2 ELSE 1) ELSE (IF fee > 0 THEN 3 ELSE 2)
  BY <1>2
<1> HIDE DEF total, n, v, fee
<1>7. total = w + f
  <2>1. CASE commitment = {} /\ ~(fee > 0)
    BY <1>4, <1>5, <1>6, <2>1
  <2>2. CASE commitment = {} /\ fee > 0
    BY <1>4, <1>5, <1>6, <2>2
  <2>3. CASE commitment # {} /\ ~(fee > 0)
    BY <1>4, <1>5, <1>6, <2>3
  <2>4. CASE commitment # {} /\ fee > 0
    BY <1>4, <1>5, <1>6, <2>4
  <2> QED
    BY <2>1, <2>2, <2>3, <2>4
<1> QED
  BY <1>7 DEF total

LEMMA PaidOutsAre ==
    ASSUME NEW cfg, NEW value, NEW commitment
    PROVE  LET outs == PaidOuts(cfg, value, commitment)
               fee  == FeeSatoshis(cfg, value)
           IN  /\ outs[1].value = MinerSatoshis(cfg, value)
               /\ outs[1].script = AddressToScriptPubKey(cfg.walletAddress)
               /\ fee > 0 => /\ outs[2].value = fee
                             /\ outs[2].script = AddressToScriptPubKey(cfg.feeAddress)
               /\ commitment # {} => /\ outs[Len(outs)].value = 0
                                     /\ outs[Len(outs)].script = Some(commitment)
<1> DEFINE fee == FeeSatoshis(cfg, value)
           miner == Out(MinerSatoshis(cfg, value), AddressToScriptPubKey(cfg.walletAddress))
           pool == Out(FeeSatoshis(cfg, value), AddressToScriptPubKey(cfg.feeAddress))
           commit == Out(0, Some(commitment))
           outs == PaidOuts(cfg, value, commitment)
<1>1. /\ ~(fee > 0) /\ commitment = {} => outs = <<miner>>
      /\ fee > 0 /\ commitment = {} => outs = <<miner, pool>>
      /\ ~(fee > 0) /\ commitment # {} => outs = <<miner, commit>>
      /\ fee > 0 /\ commitment # {} => outs = <<miner, pool, commit>>
  BY PaidOutsOf
<1> HIDE DEF miner, pool, commit, outs, fee
<1>2. outs[1] = miner
  BY <1>1
<1>3. fee > 0 => outs[2] = pool
  BY <1>1
<1>4. commitment # {} => outs[Len(outs)] = commit
  <2>1. Len(<<miner, commit>>) = 2 /\ <<miner, commit>>[2] = commit
    OBVIOUS
  <2>2. Len(<<miner, pool, commit>>) = 3 /\ <<miner, pool, commit>>[3] = commit
    OBVIOUS
  <2>3. commitment # {} => outs = <<miner, commit>> \/ outs = <<miner, pool, commit>>
    BY <1>1, Zenon
  <2> QED
    BY <2>1, <2>2, <2>3, Zenon
<1> QED
  BY <1>2, <1>3, <1>4 DEF miner, pool, commit, outs, fee, Out

(* The outputs add up to the reward, not a satoshi more or less, whatever  *)
(* the fee and with or without a commitment.                               *)
THEOREM WholeRewardIsPaidOut ==
    ASSUME NEW T, NEW cfg, NEW value, NEW commitment, Payable(cfg, value, commitment, T)
    PROVE  TotalValue(PaidOuts(cfg, value, commitment)) = value
<1> DEFINE outs == PaidOuts(cfg, value, commitment)
           fee == FeeSatoshis(cfg, value)
           miner == MinerSatoshis(cfg, value)
<1>1. value \in Nat /\ IsFraction(cfg.feePercent)
  BY DEF Payable
<1>2. fee \in Nat /\ miner \in Int /\ fee \in Int /\ value \in Int
  BY <1>1, FeeIsRounded
<1>3. \A i \in 1 .. Len(outs) : outs[i].value \in Int
  <2>1. \A i \in 1 .. Len(outs) : outs[i] \in [value : Int, script : Seq(T)]
    BY PaidOutsType, ElementOfSeq DEF Outs
  <2> QED
    BY <2>1
<1>4. outs[1].value = miner /\ (fee > 0 => outs[2].value = fee)
      /\ (commitment # {} => outs[Len(outs)].value = 0)
  BY PaidOutsAre
<1>5. ~(fee > 0) => fee = 0
  BY <1>2
<1>6. TotalValue(outs) = miner + fee
  <2> HIDE DEF miner
  <2> QED
    BY <1>1, <1>2, <1>3, <1>4, <1>5, TotalOfPaid
<1>7. miner + fee = value
  <2>1. miner = value - fee
    BY DEF MinerSatoshis
  <2> HIDE DEF miner, fee
  <2> QED
    BY <1>2, <2>1
<1> QED
  BY <1>6, <1>7

(* The outputs of which only the values to one script count.               *)
Only(outs, script) ==
    [i \in 1 .. Len(outs) |-> [outs[i] EXCEPT !.value = IF outs[i].script = script THEN @ ELSE 0]]

LEMMA OnlyHas ==
    ASSUME NEW T, NEW outs \in Outs(T), NEW script
    PROVE  /\ Len(Only(outs, script)) = Len(outs)
           /\ \A i \in 1 .. Len(outs) :
                /\ Only(outs, script)[i].value = IF outs[i].script = script THEN outs[i].value ELSE 0
                /\ Only(outs, script)[i].value \in Int
<1>1. Len(outs) \in Nat
  BY DEF Outs
<1>2. Len(Only(outs, script)) = Len(outs)
  BY <1>1 DEF Only
<1>3. ASSUME NEW i \in 1 .. Len(outs)
      PROVE  /\ Only(outs, script)[i].value = IF outs[i].script = script THEN outs[i].value ELSE 0
             /\ Only(outs, script)[i].value \in Int
  <2>1. outs[i] \in [value : Int, script : Seq(T)]
    BY ElementOfSeq DEF Outs
  <2>2. Only(outs, script)[i] = [outs[i] EXCEPT !.value = IF outs[i].script = script THEN outs[i].value ELSE 0]
    BY DEF Only
  <2> QED
    BY <2>1, <2>2
<1> QED
  BY <1>2, <1>3

(* The script of the wallet gets the reward less the fee, when the fee     *)
(* goes to another one.                                                    *)
LEMMA WalletIsPaid ==
    ASSUME NEW T, NEW cfg, NEW value, NEW commitment, Payable(cfg, value, commitment, T),
           NEW script, AddressToScriptPubKey(cfg.walletAddress) = script,
           cfg.feeAddress # NoAddress => AddressToScriptPubKey(cfg.feeAddress) # script
    PROVE  TotalValue(Only(PaidOuts(cfg, value, commitment), script)) = value - FeeSatoshis(cfg, value)
<1> DEFINE outs == PaidOuts(cfg, value, commitment)
           only == Only(outs, script)
           fee == FeeSatoshis(cfg, value)
           miner == MinerSatoshis(cfg, value)
<1>1. value \in Nat /\ IsFraction(cfg.feePercent)
  BY DEF Payable
<1>2. miner \in Int /\ 0 \in Int /\ (fee > 0 => cfg.feeAddress # NoAddress)
  BY <1>1, FeeIsRounded
<1>3. outs \in Outs(T) /\ Len(outs) \in 1 .. 3
  BY PaidOutsType
<1>4. /\ outs[1].value = miner /\ outs[1].script = script
      /\ fee > 0 => outs[2].script # script
      /\ commitment # {} => outs[Len(outs)].value = 0
  BY <1>2, PaidOutsAre
<1>5. fee > 0 => 2 \in 1 .. Len(outs)
  <2> DEFINE m == Out(MinerSatoshis(cfg, value), AddressToScriptPubKey(cfg.walletAddress))
             p == Out(fee, AddressToScriptPubKey(cfg.feeAddress))
             c == Out(0, Some(commitment))
  <2>1. fee > 0 => outs = <<m, p>> \/ outs = <<m, p, c>>
    BY PaidOutsOf
  <2> HIDE DEF m, p, c, outs
  <2>2. Len(<<m, p>>) = 2 /\ Len(<<m, p, c>>) = 3 /\ 2 \in 1 .. 2 /\ 2 \in 1 .. 3
    OBVIOUS
  <2> QED
    BY <2>1, <2>2, Zenon
<1> HIDE DEF outs
<1>6. /\ Len(only) = Len(outs)
      /\ \A i \in 1 .. Len(outs) :
            /\ only[i].value = IF outs[i].script = script THEN outs[i].value ELSE 0
            /\ only[i].value \in Int
  BY <1>3, OnlyHas
<1> HIDE DEF only, fee, miner
<1>7. 1 \in 1 .. Len(outs) /\ Len(outs) \in 1 .. Len(outs)
  <2>1. Len(outs) \in 1 .. 3
    BY <1>3, Zenon
  <2>2. ASSUME NEW n \in 1 .. 3
        PROVE  1 \in 1 .. n /\ n \in 1 .. n
    OBVIOUS
  <2> QED
    BY <2>1, <2>2, Zenon
<1>8. only[1].value = miner
  BY <1>4, <1>6, <1>7
<1>9. fee > 0 => only[2].value = 0
  BY <1>4, <1>5, <1>6
<1>10. commitment # {} => only[Len(only)].value = 0
  <2>1. only[Len(outs)].value = IF outs[Len(outs)].script = script THEN outs[Len(outs)].value ELSE 0
    BY <1>6, <1>7
  <2> QED
    BY <1>4, <1>6, <2>1
<1>11. TotalValue(only) = miner + 0
  <2>1. Len(only) = Len(PaidOuts(cfg, value, commitment))
    BY <1>6 DEF outs
  <2>2. \A i \in 1 .. Len(only) : only[i].value \in Int
    BY <1>6
  <2> QED
    BY <1>1, <1>2, <1>8, <1>9, <1>10, <2>1, <2>2, TotalOfPaid DEF fee
<1>12. miner + 0 = value - fee
  BY <1>2 DEF miner, MinerSatoshis, fee
<1> QED
  BY <1>11, <1>12 DEF only, outs, fee

(* And that of the fee address the fee.                                    *)
LEMMA FeeIsPaid ==
    ASSUME NEW T, NEW cfg, NEW value, NEW commitment, Payable(cfg, value, commitment, T),
           NEW script, AddressToScriptPubKey(cfg.feeAddress) = script,
           AddressToScriptPubKey(cfg.walletAddress) # script
    PROVE  TotalValue(Only(PaidOuts(cfg, value, commitment), script)) = FeeSatoshis(cfg, value)
<1> DEFINE outs == PaidOuts(cfg, value, commitment)
           only == Only(outs, script)
           fee == FeeSatoshis(cfg, value)
           nothing == 0
<1>1. value \in Nat /\ IsFraction(cfg.feePercent)
  BY DEF Payable
<1>2. fee \in Nat /\ nothing \in Int
  BY <1>1, FeeIsRounded
<1>3. outs \in Outs(T) /\ Len(outs) \in 1 .. 3
  BY PaidOutsType
<1>4. /\ outs[1].script # script
      /\ fee > 0 => outs[2].value = fee /\ outs[2].script = script
      /\ commitment # {} => outs[Len(outs)].value = 0
  BY PaidOutsAre
<1>5. fee > 0 => 2 \in 1 .. Len(outs)
  <2> DEFINE m == Out(MinerSatoshis(cfg, value), AddressToScriptPubKey(cfg.walletAddress))
             p == Out(fee, AddressToScriptPubKey(cfg.feeAddress))
             c == Out(0, Some(commitment))
  <2>1. fee > 0 => outs = <<m, p>> \/ outs = <<m, p, c>>
    BY PaidOutsOf
  <2> HIDE DEF m, p, c, outs
  <2>2. Len(<<m, p>>) = 2 /\ Len(<<m, p, c>>) = 3 /\ 2 \in 1 .. 2 /\ 2 \in 1 .. 3
    OBVIOUS
  <2> QED
    BY <2>1, <2>2, Zenon
<1> HIDE DEF outs
<1>6. /\ Len(only) = Len(outs)
      /\ \A i \in 1 .. Len(outs) :
            /\ only[i].value = IF outs[i].script = script THEN outs[i].value ELSE 0
            /\ only[i].value \in Int
  BY <1>3, OnlyHas
<1> HIDE DEF only, fee
<1>7. 1 \in 1 .. Len(outs) /\ Len(outs) \in 1 .. Len(outs)
  <2>1. Len(outs) \in 1 .. 3
    BY <1>3, Zenon
  <2>2. ASSUME NEW n \in 1 .. 3
        PROVE  1 \in 1 .. n /\ n \in 1 .. n
    OBVIOUS
  <2> QED
    BY <2>1, <2>2, Zenon
<1>8. only[1].value = nothing
  BY <1>4, <1>6, <1>7
<1> HIDE DEF nothing
<1>9. fee > 0 => only[2].value = fee
  BY <1>4, <1>5, <1>6
<1>10. commitment # {} => only[Len(only)].value = 0
  <2>1. only[Len(outs)].value = IF outs[Len(outs)].script = script THEN outs[Len(outs)].value ELSE 0
    BY <1>6, <1>7
  <2> QED
    BY <1>4, <1>6, <2>1
<1>11. TotalValue(only) = nothing + fee
  <2>1. Len(only) = Len(PaidOuts(cfg, value, commitment))
    BY <1>6 DEF outs
  <2>2. \A i \in 1 .. Len(only) : only[i].value \in Int
    BY <1>6
  <2>3. ~(fee > 0) => fee = 0
    BY <1>2
  <2>4. fee \in Int
    BY <1>2
  <2> QED
    BY <1>1, <1>2, <1>8, <1>9, <1>10, <2>1, <2>2, <2>3, <2>4, TotalOfPaid DEF fee
<1>12. nothing + fee = fee
  BY <1>2 DEF nothing
<1> QED
  BY <1>11, <1>12 DEF only, outs, fee

-----------------------------------------------------------------------------
(* Division, by what it does.                                              *)
LEMMA DivideAndRemain ==
    ASSUME NEW a \in Nat, NEW b \in Nat \ {0, 1}
    PROVE  /\ a \div b \in Nat /\ a % b \in 0 .. b - 1
           /\ a = (a \div b) * b + (a % b)
           /\ a > 0 => a \div b < a
<1>1. a \div b \in Nat
  OBVIOUS
<1>2. a % b \in 0 .. b - 1
  OBVIOUS
<1>3. a = (a \div b) * b + (a % b)
  OBVIOUS
<1>4. a > 0 => a \div b < a
  <2>1. ASSUME NEW q \in Nat, NEW r \in Nat, a = q * b + r, a > 0
        PROVE  q < a
     <3>1. q * b >= q * 2
       OBVIOUS
     <3> QED
       BY <2>1, <3>1
  <2>2. a % b \in Nat
    BY <1>2
  <2> QED
     BY <1>1, <2>2, <1>3, <2>1
<1> QED
  BY <1>1, <1>2, <1>3, <1>4

(* The height in the coinbase: what is left of it after each digit, how    *)
(* many digits there are, and the bytes they are written in.               *)
HeightSteps(height) ==
    LET temp[i \in 0 .. height] == IF i = 0 THEN height ELSE temp[i - 1] \div ByteBase IN temp

HeightSize(height) ==
    CHOOSE n \in 1 .. height : HeightSteps(height)[n] = 0 /\ HeightSteps(height)[n - 1] > 0

HeightDigits(height) == [i \in 1 .. HeightSize(height) |-> HeightSteps(height)[i - 1] % ByteBase]

HeightBytes(height) ==
    IF HeightDigits(height)[HeightSize(height)] >= ByteBase \div 2
    THEN Append(HeightDigits(height), 0) ELSE HeightDigits(height)

LEMMA HeightStepsUnfold ==
    ASSUME NEW height \in Nat
    PROVE  /\ HeightSteps(height)[0] = height
           /\ \A i \in 1 .. height : HeightSteps(height)[i] = HeightSteps(height)[i - 1] \div ByteBase
<1> DEFINE n == height
           Above(x, l) == x \div ByteBase
           Levels(m, f) == f = [l \in 0 .. m |-> IF l = 0 THEN height ELSE Above(f[l - 1], l)]
           S == {m \in Nat : \E f : Levels(m, f)}
<1>1. 0 \in S
  <2> HIDE DEF Above
  <2>1. Levels(0, [l \in 0 .. 0 |-> height])
    OBVIOUS
  <2> QED
    BY <2>1
<1>2. ASSUME NEW m \in Nat, m \in S
      PROVE  m + 1 \in S
  <2> HIDE DEF Above
  <2>1. PICK f : Levels(m, f)
    BY <1>2
  <2> DEFINE g == [l \in 0 .. m + 1 |-> IF l = m + 1 THEN Above(f[m], m + 1) ELSE f[l]]
  <2>2. \A l \in 0 .. m + 1 : g[l] = IF l = 0 THEN height ELSE Above(g[l - 1], l)
    <3>1. g[0] = height
      BY <2>1
    <3>2. \A l \in 1 .. m : g[l] = Above(g[l - 1], l)
      BY <2>1
    <3>3. g[m + 1] = Above(g[m], m + 1)
      OBVIOUS
    <3> HIDE DEF g
    <3> QED
      BY <3>1, <3>2, <3>3
  <2>3. g = [l \in 0 .. m + 1 |-> g[l]]
    OBVIOUS
  <2> HIDE DEF g
  <2>4. Levels(m + 1, g)
    BY <2>2, <2>3
  <2> QED
    BY <2>4
<1>3. n \in S
  <2> HIDE DEF S
  <2> QED
    BY <1>1, <1>2, Induction DEF n
<1> DEFINE steps == HeightSteps(height)
<1>4. Levels(n, steps)
  BY <1>3, Zenon DEF HeightSteps
<1>5. steps[0] = height /\ \A l \in 1 .. n : steps[l] = Above(steps[l - 1], l)
  <2> HIDE DEF steps, Above
  <2> QED
    BY <1>4
<1> QED
  BY <1>5

LEMMA HeightIsUsedUp ==
    ASSUME NEW height \in Nat \ {0}
    PROVE  /\ \A i \in 0 .. height : HeightSteps(height)[i] \in Nat
           /\ HeightSize(height) \in 1 .. height
           /\ HeightSteps(height)[HeightSize(height)] = 0
           /\ HeightSteps(height)[HeightSize(height) - 1] > 0
<1> DEFINE left == HeightSteps(height)
           S == {i \in 0 .. height : left[i] \in Nat /\ left[i] <= height - i}
<1>1. left[0] = height /\ \A i \in 1 .. height : left[i] = left[i - 1] \div ByteBase
  BY HeightStepsUnfold
<1> HIDE DEF left
<1>2. 0 \in S
  BY <1>1
<1>3. ASSUME NEW i \in 0 .. height - 1, i \in S
      PROVE  i + 1 \in S
  <2>1. left[i + 1] = left[i] \div ByteBase
    BY <1>1
  <2>2. left[i] \in Nat /\ left[i] <= height - i
    BY <1>3
  <2>3. left[i + 1] \in Nat /\ (left[i] > 0 => left[i + 1] < left[i])
    BY <2>1, <2>2, CoinbaseAssumption, DivideAndRemain
  <2>4. left[i] = 0 => left[i + 1] = 0
    BY <2>1, CoinbaseAssumption
  <2>5. left[i + 1] <= height - (i + 1)
    BY <2>2, <2>3, <2>4
  <2> QED
    BY <2>3, <2>5
<1>4. \A i \in 0 .. height : left[i] \in Nat /\ left[i] <= height - i
  <2>1. 0 .. height \subseteq S
    <3> HIDE DEF S
    <3> QED
      BY <1>2, <1>3, BoundedInduction
  <2> QED
    BY <2>1
<1> DEFINE Z == {i \in 0 .. height : left[i] = 0}
<1>5. height \in Z
  BY <1>4
<1>6. PICK m \in Z : \A i \in Z : m <= i
  <2>1. Z \subseteq Nat /\ Z # {}
    BY <1>5
  <2> HIDE DEF Z
  <2> QED
    BY <2>1, NatHasLeast
<1>7. m \in 1 .. height /\ left[m] = 0
  BY <1>1, <1>6
<1>8. left[m - 1] > 0
  <2>1. m - 1 \in 0 .. height /\ m - 1 \notin Z
    BY <1>6, <1>7
  <2>2. left[m - 1] # 0 /\ left[m - 1] \in Nat
    BY <1>4, <2>1
  <2> QED
    BY <2>2
<1>9. \E n \in 1 .. height : left[n] = 0 /\ left[n - 1] > 0
  BY <1>7, <1>8
<1>10. HeightSize(height) = CHOOSE n \in 1 .. height : left[n] = 0 /\ left[n - 1] > 0
  BY DEF HeightSize, left
<1>11. HeightSize(height) \in 1 .. height /\ left[HeightSize(height)] = 0 /\ left[HeightSize(height) - 1] > 0
  BY <1>9, <1>10, Zenon
<1> QED
  BY <1>4, <1>11 DEF left

LEMMA HeightDigit ==
    ASSUME NEW height \in Nat \ {0}, NEW i \in 1 .. HeightSize(height)
    PROVE  LET left == HeightSteps(height) digit == HeightDigits(height)[i]
           IN  /\ digit \in 0 .. ByteBase - 1
               /\ left[i - 1] = left[i] * ByteBase + digit
               /\ left[i] \in Nat /\ left[i - 1] \in Nat
<1> DEFINE left == HeightSteps(height)
           digit == HeightDigits(height)[i]
<1>1. i - 1 \in 0 .. height /\ i \in 1 .. height /\ i \in 0 .. height
  BY HeightIsUsedUp
<1>2. left[i - 1] \in Nat /\ left[i] \in Nat
  BY <1>1, HeightIsUsedUp
<1>3. left[i] = left[i - 1] \div ByteBase
  BY <1>1, HeightStepsUnfold
<1>4. digit = left[i - 1] % ByteBase
  BY DEF HeightDigits
<1> HIDE DEF left, digit
<1>5. ByteBase \in Nat \ {0, 1}
  BY CoinbaseAssumption
<1>6. digit \in 0 .. ByteBase - 1 /\ left[i - 1] = left[i] * ByteBase + digit
  BY <1>2, <1>3, <1>4, <1>5, DivideAndRemain
<1> QED
  BY <1>2, <1>6 DEF left, digit

LEMMA HeightBytesType ==
    ASSUME NEW height \in Nat \ {0}
    PROVE  LET size == HeightSize(height) digits == HeightDigits(height) bytes == HeightBytes(height)
           IN  /\ bytes \in Seq(Nat)
               /\ Len(bytes) \in {size, size + 1} /\ size \in Nat \ {0}
               /\ \A i \in 1 .. size : bytes[i] = digits[i]
               /\ Len(bytes) = size => ~(digits[size] >= ByteBase \div 2)
               /\ Len(bytes) = size + 1 => bytes[size + 1] = 0 /\ digits[size] >= ByteBase \div 2
<1> DEFINE size == HeightSize(height)
           digits == HeightDigits(height)
           bytes == HeightBytes(height)
<1>1. size \in Nat \ {0}
  BY HeightIsUsedUp
<1>2. \A i \in 1 .. size : digits[i] \in Nat
  <2>1. \A i \in 1 .. size : digits[i] \in 0 .. ByteBase - 1
    BY HeightDigit
  <2> QED
    BY <2>1, CoinbaseAssumption
<1>3. digits \in Seq(Nat) /\ Len(digits) = size
  <2>1. digits = [i \in 1 .. size |-> digits[i]]
    BY DEF HeightDigits
  <2> HIDE DEF digits, size
  <2> QED
    BY <1>1, <1>2, <2>1
<1>4. bytes = IF digits[size] >= ByteBase \div 2 THEN Append(digits, 0) ELSE digits
  BY DEF HeightBytes
<1> HIDE DEF size, digits, bytes
<1>5. /\ Append(digits, 0) \in Seq(Nat) /\ Len(Append(digits, 0)) = size + 1
      /\ \A i \in 1 .. size : Append(digits, 0)[i] = digits[i]
      /\ Append(digits, 0)[size + 1] = 0
  BY <1>1, <1>3, AppendProperties
<1>6. size # size + 1
  BY <1>1
<1> QED
  BY <1>1, <1>3, <1>4, <1>5, <1>6, Zenon DEF size, digits, bytes

ValueSteps(bytes, base) ==
    LET n == Len(bytes)
        value[i \in 0 .. n] == IF i = 0 THEN 0 ELSE value[i - 1] * base + bytes[n + 1 - i]
    IN  value

LEMMA ValueStepsUnfold ==
    ASSUME NEW bytes, NEW base, Len(bytes) \in Nat
    PROVE  /\ ValueSteps(bytes, base)[0] = 0
           /\ \A i \in 1 .. Len(bytes) :
                ValueSteps(bytes, base)[i] =
                    ValueSteps(bytes, base)[i - 1] * base + bytes[Len(bytes) + 1 - i]
<1> DEFINE n == Len(bytes)
           Above(x, l) == x * base + bytes[n + 1 - l]
           Levels(m, f) == f = [l \in 0 .. m |-> IF l = 0 THEN 0 ELSE Above(f[l - 1], l)]
           S == {m \in Nat : \E f : Levels(m, f)}
<1>1. 0 \in S
  <2> HIDE DEF Above
  <2>1. Levels(0, [l \in 0 .. 0 |-> 0])
    OBVIOUS
  <2> QED
    BY <2>1
<1>2. ASSUME NEW m \in Nat, m \in S
      PROVE  m + 1 \in S
  <2> HIDE DEF Above
  <2>1. PICK f : Levels(m, f)
    BY <1>2
  <2> DEFINE g == [l \in 0 .. m + 1 |-> IF l = m + 1 THEN Above(f[m], m + 1) ELSE f[l]]
  <2>2. \A l \in 0 .. m + 1 : g[l] = IF l = 0 THEN 0 ELSE Above(g[l - 1], l)
    <3>1. g[0] = 0
      BY <2>1
    <3>2. \A l \in 1 .. m : g[l] = Above(g[l - 1], l)
      BY <2>1
    <3>3. g[m + 1] = Above(g[m], m + 1)
      OBVIOUS
    <3> HIDE DEF g
    <3> QED
      BY <3>1, <3>2, <3>3
  <2>3. g = [l \in 0 .. m + 1 |-> g[l]]
    OBVIOUS
  <2> HIDE DEF g
  <2>4. Levels(m + 1, g)
    BY <2>2, <2>3
  <2> QED
    BY <2>4
<1>3. n \in S
  <2> HIDE DEF S
  <2> QED
    BY <1>1, <1>2, Induction DEF n
<1> DEFINE steps == ValueSteps(bytes, base)
<1>4. Levels(n, steps)
  BY <1>3, Zenon DEF ValueSteps
<1>5. steps[0] = 0 /\ \A l \in 1 .. n : steps[l] = Above(steps[l - 1], l)
  <2> HIDE DEF steps, Above
  <2> QED
    BY <1>4
<1> QED
  BY <1>5

(* The digits of the height, put together again from the highest on, give  *)
(* it back; the bytes are the shortest that do so.                         *)
LEMMA HeightIsScriptNumber ==
    ASSUME NEW height \in Nat \ {0}
    PROVE  IsScriptNumber(HeightBytes(height), height, ByteBase)
<1> DEFINE size == HeightSize(height)
           digits == HeightDigits(height)
           bytes == HeightBytes(height)
           left == HeightSteps(height)
           value == ValueSteps(bytes, ByteBase)
           n == Len(bytes)
           k == n - size
           half == ByteBase \div 2
           S == {i \in 0 .. size : value[k + i] = left[size - i]}
<1>1. /\ bytes \in Seq(Nat) /\ n \in {size, size + 1} /\ size \in Nat \ {0}
      /\ \A i \in 1 .. size : bytes[i] = digits[i]
      /\ n = size => ~(digits[size] >= half)
      /\ n = size + 1 => bytes[size + 1] = 0 /\ digits[size] >= half
  BY HeightBytesType
<1>2. /\ left[size] = 0 /\ left[size - 1] > 0 /\ left[0] = height
  BY HeightIsUsedUp, HeightStepsUnfold
<1>3. \A i \in 1 .. size :
        /\ digits[i] \in 0 .. ByteBase - 1 /\ left[i - 1] = left[i] * ByteBase + digits[i]
        /\ left[i] \in Nat /\ left[i - 1] \in Nat
  BY HeightDigit
<1>4. value[0] = 0 /\ \A i \in 1 .. n : value[i] = value[i - 1] * ByteBase + bytes[n + 1 - i]
  <2>1. Len(bytes) \in Nat
    BY <1>1
  <2> HIDE DEF bytes
  <2> QED
    BY <2>1, ValueStepsUnfold
<1>5. IsScriptNumber(bytes, height, ByteBase) <=>
        /\ n > 0 /\ value[n] = height
        /\ bytes[n] < ByteBase \div 2
        /\ n > 1 => bytes[n] # 0 \/ bytes[n - 1] >= ByteBase \div 2
  <2> HIDE DEF bytes
  <2> QED
    BY Zenon DEF IsScriptNumber, ValueSteps
<1>6. half \in Nat \ {0} /\ ByteBase \in Nat \ {0, 1}
  BY CoinbaseAssumption
<1> HIDE DEF size, digits, bytes, left, value, n, half
<1>7. n \in Nat /\ k \in {0, 1} /\ n = size + k
  BY <1>1
<1> HIDE DEF k
<1>8. 0 \in S
  <2>1. CASE k = 0
    BY <1>1, <1>2, <1>4, <2>1
  <2>2. CASE k = 1
    <3>1. n = size + 1 /\ bytes[size + 1] = 0
      BY <1>1, <1>7, <2>2
    <3>2. 1 \in 1 .. n /\ n + 1 - 1 = size + 1 /\ 1 - 1 = 0
      BY <1>1, <3>1
    <3>3. value[1] = value[0] * ByteBase + bytes[size + 1]
      BY <1>4, <3>2, Zenon
    <3>4. value[1] = 0
      BY <1>4, <1>6, <3>1, <3>3
    <3> QED
      BY <1>1, <1>2, <2>2, <3>4
  <2> QED
    BY <1>7, <2>1, <2>2
<1>9. ASSUME NEW i \in 0 .. size - 1, i \in S
      PROVE  i + 1 \in S
  <2>1. k + (i + 1) \in 1 .. n /\ (k + (i + 1)) - 1 = k + i /\ n + 1 - (k + (i + 1)) = size - i
    BY <1>1, <1>7
  <2>2. size - i \in 1 .. size /\ (size - i) - 1 = size - (i + 1)
    BY <1>1
  <2>3. value[k + (i + 1)] = value[k + i] * ByteBase + bytes[size - i]
    BY <1>4, <2>1
  <2>4. bytes[size - i] = digits[size - i]
    BY <1>1, <2>2
  <2>5. left[size - (i + 1)] = left[size - i] * ByteBase + digits[size - i]
    BY <1>3, <2>2
  <2>6. value[k + i] = left[size - i]
    BY <1>9
  <2>7. value[k + (i + 1)] = left[size - (i + 1)]
    BY <2>3, <2>4, <2>5, <2>6, Zenon
  <2>8. i + 1 \in 0 .. size
    BY <1>1
  <2> QED
    BY <2>7, <2>8
<1>10. value[n] = height
  <2>1. size \in Nat
    BY <1>1
  <2>2. 0 .. size \subseteq S
    <3> HIDE DEF S
    <3> QED
      BY <2>1, <1>8, <1>9, BoundedInduction
  <2>3. size \in S
    BY <2>1, <2>2
  <2>4. k + size = n /\ size - size = 0
    BY <1>7, <2>1
  <2> QED
    BY <1>2, <2>3, <2>4
<1>11. digits[size] \in Nat /\ digits[size] > 0
  <2>1. size \in 1 .. size
    BY <1>1
  <2>2. digits[size] \in 0 .. ByteBase - 1 /\ left[size - 1] = left[size] * ByteBase + digits[size]
    BY <1>3, <2>1
  <2> QED
    BY <1>2, <1>6, <2>2
<1>12. bytes[size] = digits[size]
  BY <1>1
<1>13. CASE n = size
  <2>1. bytes[n] < half /\ bytes[n] # 0
    BY <1>1, <1>6, <1>11, <1>12, <1>13
  <2> QED
    BY <1>1, <1>5, <1>10, <1>13, <2>1 DEF half, bytes
<1>14. CASE n = size + 1
  <2>1. bytes[n] = 0 /\ n - 1 = size /\ digits[size] >= half
    BY <1>1, <1>14
  <2>2. bytes[n] < half /\ bytes[n - 1] >= half
    BY <1>6, <1>12, <2>1
  <2>3. n > 0
    BY <1>1, <1>14
  <2> QED
    BY <1>5, <1>10, <2>2, <2>3 DEF half, bytes
<1> QED
  BY <1>1, <1>13, <1>14 DEF bytes

(* The push that BIP34 asks for, of any height but 0, whatever follows.    *)
LEMMA HeightIsPushed ==
    ASSUME NEW height \in Nat \ {0}
    PROVE  LET push == EncodeBip34Height(height) n == Len(HeightBytes(height))
           IN  /\ n \in Nat \ {0} /\ Len(push) = n + 1
               /\ push[1] = Byte(n)
               /\ \A i \in 1 .. n : push[i + 1] = Byte(HeightBytes(height)[i])
               /\ \A T : IsTokens(T) => push \in Seq(T)
<1> DEFINE push == EncodeBip34Height(height)
           bytes == HeightBytes(height)
           n == Len(bytes)
           rest == [i \in 1 .. n |-> Byte(bytes[i])]
<1>1. bytes \in Seq(Nat) /\ n \in Nat \ {0}
  <2> DEFINE size == HeightSize(height)
  <2>1. bytes \in Seq(Nat) /\ n \in {size, size + 1} /\ size \in Nat \ {0}
    BY HeightBytesType
  <2> HIDE DEF bytes, size
  <2> QED
    BY <2>1
<1>2. push = <<Byte(n)>> \o rest
  BY Zenon DEF EncodeBip34Height, HeightBytes, HeightDigits, HeightSize, HeightSteps
<1> HIDE DEF bytes, push
<1>3. IsSeq(rest) /\ Len(rest) = n
  <2>1. Len(rest) = n
    BY <1>1
  <2>2. rest = [i \in 1 .. n |-> rest[i]]
    OBVIOUS
  <2> HIDE DEF rest
  <2> QED
    BY <1>1, <2>1, <2>2 DEF IsSeq
<1>4. \A i \in 1 .. n : rest[i] = Byte(bytes[i])
  OBVIOUS
<1> HIDE DEF rest
<1>5. /\ Len(push) = n + 1 /\ push[1] = Byte(n)
      /\ \A i \in 1 .. n : push[i + 1] = Byte(bytes[i])
  BY <1>2, <1>3, <1>4, Prepended
<1>6. ASSUME NEW T, IsTokens(T)
      PROVE  push \in Seq(T)
  <2>1. \A i \in 1 .. n : bytes[i] \in Nat
    BY <1>1, ElementOfSeq
  <2>2. \A i \in 1 .. n : rest[i] \in T
    BY <1>4, <1>6, <2>1 DEF IsTokens
  <2>3. rest \in Seq(T)
    BY <1>3, <2>2, SeqDef DEF IsSeq
  <2>4. <<Byte(n)>> \in Seq(T)
    BY <1>1, <1>6, Single DEF IsTokens
  <2> QED
    BY <1>2, <2>3, <2>4, ConcatLength
<1> QED
  BY <1>1, <1>5, <1>6 DEF push, bytes

(* What BIP34 asks of the input: the number of bytes of the height, and   *)
(* the bytes from the lowest on, none of them spare, whatever follows.     *)
THEOREM BlockBeginsWithHeight ==
    ASSUME NEW height \in Nat \ {0}, NEW T, IsTokens(T), NEW rest \in Seq(T), rest # << >>
    PROVE  BeginsWithHeight(EncodeBip34Height(height) \o rest, height, ByteBase)
<1> DEFINE push == EncodeBip34Height(height)
           bytes == HeightBytes(height)
           n == Len(bytes)
           script == push \o rest
<1>1. /\ n \in Nat \ {0} /\ Len(push) = n + 1
      /\ push[1] = Byte(n)
      /\ \A i \in 1 .. n : push[i + 1] = Byte(bytes[i])
      /\ push \in Seq(T)
  BY HeightIsPushed
<1>2. IsScriptNumber(bytes, height, ByteBase)
  BY HeightIsScriptNumber
<1>3. bytes \in Seq(Nat)
  BY HeightBytesType
<1> HIDE DEF push, bytes
<1>4. script \in Seq(T) /\ Len(script) = Len(push) + Len(rest)
      /\ \A i \in 1 .. Len(push) : script[i] = push[i]
  <2>1. push \in Seq(T)
    BY <1>1
  <2> QED
    BY <2>1, Concatenation
<1>5. Len(rest) \in Nat \ {0}
  BY EmptySeq, LenProperties
<1> HIDE DEF script
<1>6. n \in 1 .. Len(script) - 1
  <2> HIDE DEF n
  <2>1. Len(script) = n + 1 + Len(rest)
    BY <1>1, <1>4
  <2> QED
    BY <1>1, <1>5, <2>1
<1>7. script[1] = Byte(n) /\ \A i \in 1 .. n : script[i + 1] = Byte(bytes[i])
  <2>1. 1 \in 1 .. Len(push) /\ \A i \in 1 .. n : i + 1 \in 1 .. Len(push)
    <3> HIDE DEF n
    <3> QED
      BY <1>1
  <2> QED
    BY <1>1, <1>4, <2>1
<1>8. \A i \in 2 .. n + 1 : "byte" \in DOMAIN script[i]
  <2>1. ASSUME NEW i \in 2 .. n + 1
        PROVE  "byte" \in DOMAIN script[i]
    <3>1. i - 1 \in 1 .. n /\ (i - 1) + 1 = i
      <4> HIDE DEF n
      <4> QED
        BY <1>1
    <3>2. script[i] = Byte(bytes[i - 1])
      BY <1>7, <3>1
    <3> QED
      BY <3>2 DEF Byte
  <2> QED
    BY <2>1
<1>9. [i \in 1 .. n |-> script[i + 1].byte] = bytes
  <2>1. \A i \in 1 .. n : script[i + 1].byte = bytes[i]
    BY <1>7, ByteIsNoPrefix
  <2>2. bytes = [i \in 1 .. n |-> bytes[i]]
    BY <1>3
  <2> HIDE DEF n
  <2> QED
    BY <2>1, <2>2
<1>10. IsScriptNumber([i \in 1 .. n |-> script[i + 1].byte], height, ByteBase)
  BY <1>2, <1>9
<1> QED
  BY <1>6, <1>7, <1>8, <1>10, Zenon DEF BeginsWithHeight, script, push


-----------------------------------------------------------------------------
-----------------------------------------------------------------------------
(* The coinbase as the node sees it, and as its parts stand in the text;   *)
(* marker and tail are those of a text with a witness or without one.      *)
CoinbaseRecord(script, outs, stacks) ==
    [ins |-> <<[from |-> Field("nullOutpoint"), script |-> script]>>,
     outs |-> outs, foreign |-> << >>, stacks |-> stacks]

Front(marker, n) == (<<Field("version")>> \o marker) \o <<Byte(1), Field("nullOutpoint"), Byte(n)>>

Text(marker, script, count, outputs, tail) ==
    Front(marker, Len(script)) \o
        (script \o (<<Field("sequence"), Byte(count)>> \o (outputs \o tail)))

OutTexts(outs) == [i \in 1 .. Len(outs) |-> Output(outs[i].value, outs[i].script)]

(* Concatenation under a name, for the provers.                            *)
Cat(s, t) == s \o t

LEMMA ConcatAssoc ==
    ASSUME NEW T, NEW s \in Seq(T), NEW t \in Seq(T), NEW u \in Seq(T)
    PROVE  Cat(Cat(s, t), u) = Cat(s, Cat(t, u))
<1> DEFINE a == (s \o t) \o u
           b == s \o (t \o u)
<1>1. s \o t \in Seq(T) /\ Len(s \o t) = Len(s) + Len(t) /\ t \o u \in Seq(T) /\ Len(t \o u) = Len(t) + Len(u)
  BY ConcatLength
<1>2. Len(s) \in Nat /\ Len(t) \in Nat /\ Len(u) \in Nat
  OBVIOUS
<1>3. a \in Seq(T) /\ b \in Seq(T)
  BY <1>1, ConcatLength
<1>4. At(b, 1, s) /\ At(b, 1 + Len(s), t \o u)
  <2>1. 1 \in Nat \ {0}
    OBVIOUS
  <2>2. At(b, 1, b)
    <3> HIDE DEF b
    <3> QED
      BY <1>3, AtItself
  <2> QED
    BY <1>1, <1>3, <2>1, <2>2, AtConcatenation
<1>5. At(b, 1 + Len(s), t) /\ At(b, 1 + Len(s) + Len(t), u)
  <2>1. 1 + Len(s) \in Nat \ {0}
    BY <1>2
  <2> QED
    BY <1>3, <1>4, <2>1, AtConcatenation
<1>6. At(b, 1, s \o t)
  <2>1. 1 \in Nat \ {0}
    OBVIOUS
  <2> QED
    BY <1>3, <1>4, <1>5, <2>1, AtConcatenation
<1>7. At(b, 1, a)
  <2>1. 1 \in Nat \ {0} /\ 1 + (Len(s) + Len(t)) = 1 + Len(s) + Len(t)
    BY <1>2
  <2>2. At(b, 1 + Len(s \o t), u)
    BY <1>1, <1>5, <2>1
  <2> QED
    BY <1>1, <1>3, <1>6, <2>1, <2>2, AtConcatenation
<1>8. Len(a) = Len(b)
  <2>1. Len(a) = Len(s \o t) + Len(u)
    BY <1>1, ConcatLength
  <2>2. Len(b) = Len(s) + Len(t \o u)
    BY <1>1, ConcatLength
  <2> HIDE DEF a, b
  <2> QED
    BY <1>1, <1>2, <2>1, <2>2
<1>9. b = a
  <2> HIDE DEF a, b
  <2> QED
    BY <1>3, <1>7, <1>8, AtWhole
<1>10. Cat(Cat(s, t), u) = a /\ Cat(s, Cat(t, u)) = b
  BY DEF Cat
<1> HIDE DEF a, b
<1> QED
  BY <1>9, <1>10

LEMMA JoinedSame ==
    ASSUME NEW a, NEW b, Len(a) \in Nat, Len(b) = Len(a), \A i \in 1 .. Len(a) : a[i] = b[i]
    PROVE  Joined(a) = Joined(b)
<1> DEFINE n == Len(a)
           S == {i \in 0 .. n : JoinSteps(a)[i] = JoinSteps(b)[i]}
<1>1. /\ JoinSteps(a)[0] = << >>
      /\ \A i \in 1 .. n : JoinSteps(a)[i] = JoinSteps(a)[i - 1] \o a[i]
      /\ Joined(a) = JoinSteps(a)[n]
  BY JoinStepsUnfold
<1>2. /\ JoinSteps(b)[0] = << >>
      /\ \A i \in 1 .. n : JoinSteps(b)[i] = JoinSteps(b)[i - 1] \o b[i]
      /\ Joined(b) = JoinSteps(b)[n]
  BY JoinStepsUnfold
<1>3. n \in Nat /\ \A i \in 1 .. n : a[i] = b[i]
  OBVIOUS
<1> HIDE DEF n
<1>4. 0 \in S
  BY <1>1, <1>2, <1>3
<1>5. ASSUME NEW i \in 0 .. n - 1, i \in S
      PROVE  i + 1 \in S
  <2>1. i + 1 \in 1 .. n /\ (i + 1) - 1 = i /\ i + 1 \in 0 .. n
    BY <1>3
  <2>2. JoinSteps(a)[i + 1] = JoinSteps(a)[i] \o a[i + 1] /\ JoinSteps(b)[i + 1] = JoinSteps(b)[i] \o b[i + 1]
    BY <1>1, <1>2, <2>1, Zenon
  <2> QED
    BY <1>3, <1>5, <2>1, <2>2
<1>6. n \in S
  <2>1. 0 .. n \subseteq S /\ n \in 0 .. n
    <3> HIDE DEF S
    <3>1. 0 .. n \subseteq S
      BY <1>3, <1>4, <1>5, BoundedInduction
    <3> QED
      BY <1>3, <3>1
  <2> HIDE DEF S
  <2> QED
    BY <2>1
<1> QED
  BY <1>1, <1>2, <1>6

LEMMA JoinedOne ==
    ASSUME NEW T, NEW s \in Seq(T)
    PROVE  Joined(<<s>>) = s
<1> DEFINE one == <<s>>
<1>1. Len(one) = 1 /\ one[1] = s
  OBVIOUS
<1> HIDE DEF one
<1>2. 1 \in 1 .. 1 /\ 1 - 1 = 0 /\ 1 \in Nat
  OBVIOUS
<1>3. /\ JoinSteps(one)[0] = << >>
      /\ \A i \in 1 .. 1 : JoinSteps(one)[i] = JoinSteps(one)[i - 1] \o one[i]
      /\ Joined(one) = JoinSteps(one)[1]
  BY <1>1, <1>2, JoinStepsUnfold
<1>4. Joined(one) = << >> \o s
  BY <1>1, <1>2, <1>3
<1>5. << >> \o s = s
  OBVIOUS
<1> QED
  BY <1>4, <1>5 DEF one

(* Concatenation, with the brackets in another place.                      *)
LEMMA CatType ==
    ASSUME NEW T, NEW s \in Seq(T), NEW t \in Seq(T)
    PROVE  Cat(s, t) \in Seq(T)
  BY ConcatLength DEF Cat

LEMMA Shift2 ==
    ASSUME NEW T, NEW a \in Seq(T), NEW b \in Seq(T), NEW c \in Seq(T), NEW d \in Seq(T)
    PROVE  Cat(Cat(Cat(a, b), c), d) = Cat(a, Cat(b, Cat(c, d)))
<1> DEFINE x == Cat(a, b)
           y == Cat(c, d)
<1>1. x \in Seq(T) /\ y \in Seq(T)
  BY CatType
<1>2. Cat(x, y) = Cat(a, Cat(b, y))
  <2> HIDE DEF y
  <2> QED
    BY <1>1, ConcatAssoc DEF x
<1> HIDE DEF x
<1>3. Cat(Cat(x, c), d) = Cat(x, y)
  BY <1>1, ConcatAssoc
<1> QED
  BY <1>2, <1>3 DEF x, y

LEMMA Shift4 ==
    ASSUME NEW T, NEW a \in Seq(T), NEW b \in Seq(T), NEW c \in Seq(T), NEW d \in Seq(T),
           NEW e \in Seq(T)
    PROVE  Cat(Cat(Cat(Cat(a, b), c), d), e) = Cat(a, Cat(b, Cat(c, Cat(d, e))))
<1> DEFINE x == Cat(a, b)
           y == Cat(c, Cat(d, e))
<1>1. x \in Seq(T) /\ Cat(d, e) \in Seq(T)
  BY CatType
<1>2. y \in Seq(T)
  BY <1>1, CatType
<1>3. Cat(x, y) = Cat(a, Cat(b, y))
  <2> HIDE DEF y
  <2> QED
    BY <1>2, ConcatAssoc DEF x
<1> HIDE DEF x
<1>4. Cat(Cat(Cat(x, c), d), e) = Cat(x, y)
  BY <1>1, Shift2
<1> QED
  BY <1>3, <1>4 DEF x, y

Regroups(f, b, no, bl, script, sq, bk, j, st, lock) ==
    Cat(Cat(Cat(Cat(Cat(Cat(f, b), Cat(Cat(no, Cat(bl, script)), sq)), bk), j), st), lock)
      = Cat(Cat(f, Cat(Cat(b, no), bl)), Cat(script, Cat(Cat(sq, bk), Cat(j, Cat(st, lock)))))

LEMMA Regrouped ==
    ASSUME NEW T, NEW f \in Seq(T), NEW b \in Seq(T), NEW no \in Seq(T), NEW bl \in Seq(T),
           NEW script \in Seq(T), NEW sq \in Seq(T), NEW bk \in Seq(T), NEW j \in Seq(T),
           NEW st \in Seq(T), NEW lock \in Seq(T)
    PROVE  Regroups(f, b, no, bl, script, sq, bk, j, st, lock)
<1> DEFINE p == Cat(f, b)
           q == Cat(Cat(no, Cat(bl, script)), sq)
           w == Cat(j, Cat(st, lock))
           z == Cat(bk, w)
           y == Cat(script, Cat(sq, z))
<1>1. p \in Seq(T) /\ Cat(bl, script) \in Seq(T) /\ Cat(st, lock) \in Seq(T) /\ Cat(b, no) \in Seq(T)
  BY CatType
<1>2. w \in Seq(T) /\ Cat(no, Cat(bl, script)) \in Seq(T) /\ Cat(Cat(b, no), bl) \in Seq(T)
  BY <1>1, CatType
<1>3. z \in Seq(T) /\ q \in Seq(T)
  <2> HIDE DEF w
  <2> QED
    BY <1>2, CatType
<1>4. Cat(sq, z) \in Seq(T)
  <2> HIDE DEF z
  <2> QED
    BY <1>3, CatType
<1>5. y \in Seq(T)
  <2> HIDE DEF z
  <2> QED
    BY <1>4, CatType
<1>6. Cat(Cat(Cat(Cat(Cat(p, q), bk), j), st), lock) = Cat(Cat(p, q), z)
  <2>1. Cat(p, q) \in Seq(T)
    <3> HIDE DEF p, q
    <3> QED
      BY <1>1, <1>3, CatType
  <2> DEFINE x == Cat(p, q)
  <2> HIDE DEF x
  <2>2. Cat(Cat(Cat(Cat(x, bk), j), st), lock) = Cat(x, Cat(bk, Cat(j, Cat(st, lock))))
    BY <2>1, Shift4 DEF x
  <2> QED
    BY <2>2 DEF x
<1>7. Cat(Cat(p, q), z) = Cat(p, Cat(q, z))
  <2> HIDE DEF p, q, z
  <2> QED
    BY <1>1, <1>3, ConcatAssoc
<1>8. Cat(q, z) = Cat(no, Cat(bl, y))
  <2> DEFINE u == Cat(sq, z)
  <2>1. Cat(q, z) = Cat(Cat(no, Cat(bl, script)), u)
    <3> HIDE DEF z
    <3> QED
      BY <1>2, <1>3, ConcatAssoc
  <2>2. u \in Seq(T)
    BY <1>4
  <2> HIDE DEF u, z, q
  <2>3. Cat(Cat(no, Cat(bl, script)), u) = Cat(no, Cat(Cat(bl, script), u))
    BY <1>1, <2>2, ConcatAssoc
  <2>4. Cat(Cat(bl, script), u) = Cat(bl, Cat(script, u))
    BY <2>2, ConcatAssoc
  <2> QED
    BY <2>1, <2>3, <2>4 DEF u
<1>9. Cat(sq, z) = Cat(Cat(sq, bk), w)
  <2> HIDE DEF w
  <2> QED
    BY <1>2, ConcatAssoc
<1> HIDE DEF y
<1>10. Cat(p, Cat(no, Cat(bl, y))) = Cat(f, Cat(b, Cat(no, Cat(bl, y))))
  <2>1. Cat(bl, y) \in Seq(T)
    BY <1>5, CatType
  <2>2. Cat(no, Cat(bl, y)) \in Seq(T)
    BY <2>1, CatType
  <2> QED
    BY <2>2, ConcatAssoc
<1>11. Cat(Cat(f, Cat(Cat(b, no), bl)), y) = Cat(f, Cat(b, Cat(no, Cat(bl, y))))
  <2>1. Cat(Cat(f, Cat(Cat(b, no), bl)), y) = Cat(f, Cat(Cat(Cat(b, no), bl), y))
    BY <1>2, <1>5, ConcatAssoc
  <2>2. Cat(Cat(Cat(b, no), bl), y) = Cat(b, Cat(no, Cat(bl, y)))
    BY <1>5, Shift2
  <2> QED
    BY <2>1, <2>2
<1> HIDE DEF p, q, w, z
<1>12. Cat(Cat(Cat(Cat(Cat(p, q), bk), j), st), lock) = Cat(Cat(f, Cat(Cat(b, no), bl)), y)
  BY <1>6, <1>7, <1>8, <1>10, <1>11
<1>13. y = Cat(script, Cat(Cat(sq, bk), w))
  BY <1>9 DEF y
<1> QED
  BY <1>12, <1>13 DEF p, q, w, Regroups

(* The outputs as they are written.                                        *)
LEMMA OutTextsType ==
    ASSUME NEW T, IsTokens(T), NEW outs \in Outs(T)
    PROVE  /\ Len(outs) \in Nat /\ Len(OutTexts(outs)) = Len(outs)
           /\ \A i \in 1 .. Len(outs) :
                /\ outs[i].value \in Int /\ outs[i].script \in Seq(T)
                /\ OutTexts(outs)[i] = Output(outs[i].value, outs[i].script)
                /\ OutTexts(outs)[i] \in Seq(T)
           /\ Joined(OutTexts(outs)) \in Seq(T)
<1>1. Len(outs) \in Nat
  BY DEF Outs
<1>2. \A i \in 1 .. Len(outs) : outs[i].value \in Int /\ outs[i].script \in Seq(T)
  <2>1. \A i \in 1 .. Len(outs) : outs[i] \in [value : Int, script : Seq(T)]
    BY ElementOfSeq DEF Outs
  <2> QED
    BY <2>1
<1>3. Len(OutTexts(outs)) = Len(outs)
  BY <1>1 DEF OutTexts
<1>4. \A i \in 1 .. Len(outs) : OutTexts(outs)[i] = Output(outs[i].value, outs[i].script)
  BY DEF OutTexts
<1>5. \A i \in 1 .. Len(outs) : OutTexts(outs)[i] \in Seq(T)
  BY <1>2, <1>4, OutputType
<1>6. Joined(OutTexts(outs)) \in Seq(T)
  BY <1>1, <1>3, <1>5, JoinedType
<1> QED
  BY <1>1, <1>2, <1>3, <1>4, <1>5, <1>6

(* Short counts and lengths take one token.                                *)
LEMMA ShortOutput ==
    ASSUME NEW T, IsTokens(T), NEW value \in Int, NEW script \in Seq(T), Len(script) < CompactLimit
    PROVE  <<[amount |-> value]>> \o VarBytes(script) = Output(value, script)
<1> DEFINE a == <<[amount |-> value]>>
           n == <<Byte(Len(script))>>
<1>1. VarBytes(script) = Cat(n, script)
  BY DEF VarBytes, CompactSize, Cat
<1>2. a \in Seq(T) /\ n \in Seq(T)
  <2>1. [amount |-> value] \in T /\ Byte(Len(script)) \in T
    BY DEF IsTokens
  <2> QED
    BY <2>1, Single
<1>3. Output(value, script) = Cat(Cat(a, n), script)
  BY PairOf DEF Output, Cat
<1>4. Cat(Cat(a, n), script) = Cat(a, Cat(n, script))
  <2> HIDE DEF a, n
  <2> QED
    BY <1>2, ConcatAssoc
<1>5. <<[amount |-> value]>> \o VarBytes(script) = Cat(a, VarBytes(script))
  BY DEF Cat
<1> QED
  BY <1>1, <1>3, <1>4, <1>5

LEMMA CoinbaseOutputs ==
    ASSUME NEW T, IsTokens(T), NEW script, NEW outs \in Outs(T), NEW items,
           \A i \in 1 .. Len(outs) : Len(outs[i].script) < CompactLimit
    PROVE  Joined(Outputs(CoinbaseRecord(script, outs, items))) = Joined(OutTexts(outs))
<1> DEFINE cb == CoinbaseRecord(script, outs, items)
<1>1. cb.outs = outs
  BY DEF CoinbaseRecord
<1> HIDE DEF cb
<1>2. /\ Len(outs) \in Nat /\ Len(OutTexts(outs)) = Len(outs)
      /\ \A i \in 1 .. Len(outs) :
            /\ outs[i].value \in Int /\ outs[i].script \in Seq(T)
            /\ OutTexts(outs)[i] = Output(outs[i].value, outs[i].script)
  BY OutTextsType
<1>3. Len(Outputs(cb)) = Len(outs)
  BY <1>1, <1>2 DEF Outputs
<1>4. ASSUME NEW i \in 1 .. Len(outs)
      PROVE  Outputs(cb)[i] = OutTexts(outs)[i]
  <2>1. Outputs(cb)[i] = <<[amount |-> outs[i].value]>> \o VarBytes(outs[i].script)
    BY <1>1 DEF Outputs
  <2>2. <<[amount |-> outs[i].value]>> \o VarBytes(outs[i].script) = Output(outs[i].value, outs[i].script)
    BY <1>2, ShortOutput
  <2> QED
    BY <1>2, <2>1, <2>2
<1>5. Joined(Outputs(cb)) = Joined(OutTexts(outs))
  BY <1>2, <1>3, <1>4, JoinedSame
<1> QED
  BY <1>5 DEF cb

LEMMA TokensAre ==
    ASSUME NEW T, IsTokens(T)
    PROVE  /\ \A n \in Nat : Byte(n) \in T
           /\ Byte(1) \in T
           /\ Field("version") \in T /\ Field("sequence") \in T /\ Field("locktime") \in T
  BY DEF IsTokens

InText(script) ==
    (<<Field("nullOutpoint")>> \o (<<Byte(Len(script))>> \o script)) \o <<Field("sequence")>>

LEMMA CoinbaseInputs ==
    ASSUME NEW T, IsTokens(T), Field("nullOutpoint") \in T, NEW script \in Seq(T), NEW outs, NEW items,
           Len(script) < CompactLimit
    PROVE  /\ InText(script) \in Seq(T)
           /\ Joined(Inputs(CoinbaseRecord(script, outs, items))) = InText(script)
           /\ Len(CoinbaseRecord(script, outs, items).ins) = 1
<1> DEFINE cb == CoinbaseRecord(script, outs, items)
           in == InText(script)
<1>1. Len(cb.ins) = 1 /\ cb.ins[1].from = Field("nullOutpoint") /\ cb.ins[1].script = script
  BY DEF CoinbaseRecord
<1>2. VarBytes(script) = <<Byte(Len(script))>> \o script
  BY DEF VarBytes, CompactSize
<1>3. in \in Seq(T)
  <2> DEFINE a == <<Field("nullOutpoint")>>
             b == <<Byte(Len(script))>>
             c == <<Field("sequence")>>
  <2>1. Byte(Len(script)) \in T /\ Field("sequence") \in T
    <3>1. Len(script) \in Nat
      OBVIOUS
    <3> QED
      BY <3>1, TokensAre
  <2>2. a \in Seq(T) /\ b \in Seq(T) /\ c \in Seq(T)
    BY <2>1, Single
  <2>3. in = Cat(Cat(a, Cat(b, script)), c)
    BY DEF Cat, InText
  <2> HIDE DEF a, b, c, in
  <2>4. Cat(b, script) \in Seq(T)
    BY <2>2, CatType
  <2>5. Cat(a, Cat(b, script)) \in Seq(T)
    BY <2>2, <2>4, CatType
  <2> QED
    BY <2>2, <2>3, <2>5, CatType
<1> HIDE DEF cb
<1>4. Len(Inputs(cb)) = 1 /\ Inputs(cb)[1] = in
  <2>1. 1 \in 1 .. Len(cb.ins) /\ Len(cb.ins) \in Nat
    BY <1>1
  <2>2. Len(Inputs(cb)) = Len(cb.ins)
    BY <2>1 DEF Inputs
  <2>3. Inputs(cb)[1] = <<cb.ins[1].from>> \o VarBytes(cb.ins[1].script) \o <<Field("sequence")>>
    BY <2>1 DEF Inputs
  <2>4. Inputs(cb)[1] = <<Field("nullOutpoint")>> \o (<<Byte(Len(script))>> \o script) \o <<Field("sequence")>>
    BY <1>1, <1>2, <2>3
  <2> QED
    BY <1>1, <2>2, <2>4 DEF InText
<1> HIDE DEF in
<1>5. Joined(Inputs(cb)) = Joined(<<in>>)
  <2> DEFINE one == <<in>>
  <2>1. Len(one) = 1 /\ one[1] = in
    OBVIOUS
  <2> HIDE DEF one
  <2>2. Len(Inputs(cb)) \in Nat /\ Len(one) = Len(Inputs(cb))
    BY <1>4, <2>1
  <2>3. \A i \in 1 .. Len(Inputs(cb)) : Inputs(cb)[i] = one[i]
    BY <1>4, <2>1
  <2>4. Joined(Inputs(cb)) = Joined(one)
    BY <2>2, <2>3, JoinedSame
  <2> QED
    BY <2>4 DEF one
<1>6. Joined(<<in>>) = in
  BY <1>3, JoinedOne
<1> QED
  BY <1>1, <1>3, <1>5, <1>6 DEF cb, in

(* The serialised coinbase, with a witness or without one.                 *)
LEMMA CoinbaseSerialised ==
    ASSUME NEW T, IsTokens(T), Field("nullOutpoint") \in T,
           NEW script \in Seq(T), Len(script) < CompactLimit,
           NEW outs \in Outs(T), Len(outs) < CompactLimit,
           \A i \in 1 .. Len(outs) : Len(outs[i].script) < CompactLimit,
           NEW items, NEW marker \in Seq(T), NEW stacks \in Seq(T)
    PROVE  SerialiseParts(CoinbaseRecord(script, outs, items), marker, stacks)
             = Text(marker, script, Len(outs), Joined(OutTexts(outs)), stacks \o <<Field("locktime")>>)
<1> DEFINE cb == CoinbaseRecord(script, outs, items)
           j == Joined(OutTexts(outs))
           v == <<Field("version")>>
           b == <<Byte(1)>>
           no == <<Field("nullOutpoint")>>
           bl == <<Byte(Len(script))>>
           sq == <<Field("sequence")>>
           bk == <<Byte(Len(outs))>>
           lock == <<Field("locktime")>>
           f == v \o marker
<1>1. Len(outs) \in Nat /\ j \in Seq(T)
  BY OutTextsType
<1>2. /\ v \in Seq(T) /\ b \in Seq(T) /\ no \in Seq(T) /\ bl \in Seq(T) /\ sq \in Seq(T)
      /\ bk \in Seq(T) /\ lock \in Seq(T)
  <2>1. /\ Byte(Len(script)) \in T /\ Byte(Len(outs)) \in T /\ Byte(1) \in T
        /\ Field("sequence") \in T /\ Field("version") \in T /\ Field("locktime") \in T
    <3>1. Len(script) \in Nat
      OBVIOUS
    <3>2. Len(outs) \in Nat
      BY <1>1
    <3> QED
      BY <3>1, <3>2, TokensAre
  <2> QED
    BY <2>1, Single
<1>3. f \in Seq(T)
  <2> HIDE DEF v
  <2> QED
    BY <1>2, ConcatLength
<1>4. Joined(Outputs(cb)) = j
  BY CoinbaseOutputs
<1>5. Joined(Inputs(cb)) = (no \o (bl \o script)) \o sq /\ Len(cb.ins) = 1
  <2>1. Joined(Inputs(cb)) = InText(script) /\ Len(cb.ins) = 1
    BY CoinbaseInputs
  <2> HIDE DEF cb
  <2> QED
    BY <2>1 DEF InText
<1>6. cb.outs = outs /\ cb.foreign = << >>
  BY DEF CoinbaseRecord
<1>7. CompactSize(1) = b /\ CompactSize(Len(outs)) = bk
  BY CompactAssumption DEF CompactSize
<1> DEFINE whole == (((((f \o b) \o ((no \o (bl \o script)) \o sq)) \o bk) \o j) \o stacks) \o lock
<1>8. SerialiseParts(cb, marker, stacks) = whole \o << >>
  <2>1. SerialiseParts(cb, marker, stacks) =
          <<Field("version")>> \o marker \o CompactSize(Len(cb.ins)) \o Joined(Inputs(cb))
          \o CompactSize(Len(cb.outs)) \o Joined(Outputs(cb)) \o stacks \o <<Field("locktime")>> \o cb.foreign
    BY DEF SerialiseParts, Inputs, Outputs
  <2> HIDE DEF cb, j, v, b, no, bl, sq, bk, lock
  <2>2. SerialiseParts(cb, marker, stacks) =
          v \o marker \o b \o ((no \o (bl \o script)) \o sq) \o bk \o j \o stacks \o lock \o << >>
    BY <1>4, <1>5, <1>6, <1>7, <2>1 DEF v, lock
  <2> QED
    BY <2>2
<1>9. Front(marker, Len(script)) = f \o ((b \o no) \o bl)
  BY PairOf, TripleOf DEF Front
<1>10. <<Field("sequence"), Byte(Len(outs))>> = sq \o bk
  BY PairOf
<1>11. Text(marker, script, Len(outs), j, stacks \o lock)
         = (f \o ((b \o no) \o bl)) \o (script \o ((sq \o bk) \o (j \o (stacks \o lock))))
  BY <1>9, <1>10 DEF Text
<1> HIDE DEF cb, j, v, b, no, bl, sq, bk, lock, f
<1>12. whole = (f \o ((b \o no) \o bl)) \o (script \o ((sq \o bk) \o (j \o (stacks \o lock))))
  <2>1. /\ f \in Seq(T) /\ b \in Seq(T) /\ no \in Seq(T) /\ bl \in Seq(T) /\ sq \in Seq(T)
        /\ bk \in Seq(T) /\ j \in Seq(T) /\ lock \in Seq(T)
    BY <1>1, <1>2, <1>3, Zenon
  <2>2. Regroups(f, b, no, bl, script, sq, bk, j, stacks, lock)
    BY <2>1, Regrouped
  <2> QED
    BY <2>2 DEF Cat, Regroups
<1>13. whole \in Seq(T)
  <2>1. (no \o (bl \o script)) \o sq \in Seq(T)
    BY <1>2, ConcatLength
  <2> DEFINE in == (no \o (bl \o script)) \o sq
  <2> HIDE DEF in
  <2>2. in \in Seq(T) /\ f \o b \in Seq(T)
    BY <1>2, <1>3, <2>1, ConcatLength DEF in
  <2>3. (f \o b) \o in \in Seq(T)
    BY <2>2, ConcatLength
  <2>4. ((f \o b) \o in) \o bk \in Seq(T)
    BY <1>2, <2>3, ConcatLength
  <2>5. (((f \o b) \o in) \o bk) \o j \in Seq(T)
    BY <1>1, <2>4, ConcatLength
  <2>6. ((((f \o b) \o in) \o bk) \o j) \o stacks \in Seq(T)
    BY <2>5, ConcatLength
  <2>7. (((((f \o b) \o in) \o bk) \o j) \o stacks) \o lock \in Seq(T)
    BY <1>2, <2>6, ConcatLength
  <2> QED
    BY <2>7 DEF in
<1> HIDE DEF whole
<1>14. whole \o << >> = whole
  BY <1>13
<1> QED
  BY <1>8, <1>11, <1>12, <1>14 DEF cb, j, lock

(* Short tuples put together.                                              *)
LEMMA QuadOf ==
    ASSUME NEW a, NEW b, NEW c, NEW d
    PROVE  Cat(<<a, b, c>>, <<d>>) = <<a, b, c, d>>
<1> DEFINE U == {a, b, c, d}
           abc == <<a, b, c>>
           abcd == <<a, b, c, d>>
           last == <<d>>
<1>1. /\ abc \in Seq(U) /\ Len(abc) = 3 /\ abc[1] = a /\ abc[2] = b /\ abc[3] = c
  OBVIOUS
<1>2. /\ abcd \in Seq(U) /\ Len(abcd) = 4 /\ abcd[1] = a /\ abcd[2] = b /\ abcd[3] = c /\ abcd[4] = d
  OBVIOUS
<1>4. last \in Seq(U) /\ Len(last) = 1 /\ last[1] = d
  OBVIOUS
<1> HIDE DEF abc, abcd, last, U
<1>9. abc \o last = abcd
  <2>1. /\ abc \o last \in Seq(U) /\ Len(abc \o last) = Len(abc) + Len(last)
        /\ \A i \in 1 .. Len(abc) : (abc \o last)[i] = abc[i]
        /\ \A i \in 1 .. Len(last) : (abc \o last)[Len(abc) + i] = last[i]
    <3>1. abc \in Seq(U) /\ last \in Seq(U)
      BY <1>1, <1>4
    <3> QED
      BY <3>1, Concatenation
  <2>2. /\ Len(abc \o last) = 3 + 1 /\ \A i \in 1 .. 3 : (abc \o last)[i] = abc[i]
        /\ \A i \in 1 .. 1 : (abc \o last)[3 + i] = last[i]
    BY <1>1, <1>4, <2>1, Zenon
  <2>3. 1 \in 1 .. 3 /\ 2 \in 1 .. 3 /\ 3 \in 1 .. 3 /\ 1 \in 1 .. 1 /\ 3 + 1 = 4
    OBVIOUS
  <2>4. /\ Len(abc \o last) = 4 /\ (abc \o last)[1] = a /\ (abc \o last)[2] = b
        /\ (abc \o last)[3] = c /\ (abc \o last)[4] = d
    BY <1>1, <1>4, <2>2, <2>3, Zenon
  <2>5. \A i \in 1 .. Len(abcd) : abcd[i] = (abc \o last)[i]
    BY <1>2, <2>4
  <2> QED
    BY <1>2, <2>1, <2>4, <2>5, SeqEqual
<1> QED
  BY <1>9 DEF Cat, abc, last, abcd

LEMMA NoneOf == ASSUME NEW a PROVE Cat(<<a>>, << >>) = <<a>> /\ Cat(<< >>, <<a>>) = <<a>>
  BY DEF Cat

LEMMA OneAndTwo ==
    ASSUME NEW a, NEW b, NEW c
    PROVE  Cat(<<a>>, <<b, c>>) = <<a, b, c>>
<1> DEFINE U == {a, b, c}
<1>1. Cat(Cat(<<a>>, <<b>>), <<c>>) = Cat(<<a>>, Cat(<<b>>, <<c>>))
  <2> DEFINE r == <<a>>
             s == <<b>>
             t == <<c>>
  <2>1. r \in Seq(U) /\ s \in Seq(U) /\ t \in Seq(U)
    OBVIOUS
  <2> HIDE DEF r, s, t, U
  <2>2. Cat(Cat(r, s), t) = Cat(r, Cat(s, t))
    BY <2>1, ConcatAssoc
  <2> QED
    BY <2>2 DEF r, s, t
<1>2. Cat(<<b>>, <<c>>) = <<b, c>> /\ Cat(<<a>>, <<b>>) = <<a, b>> /\ Cat(<<a, b>>, <<c>>) = <<a, b, c>>
  BY PairOf, TripleOf DEF Cat
<1> QED
  BY <1>1, <1>2, Zenon

LEMMA OneAndThree ==
    ASSUME NEW a, NEW b, NEW c, NEW d
    PROVE  Cat(<<a>>, <<b, c, d>>) = <<a, b, c, d>>
<1> DEFINE U == {a, b, c, d}
<1>1. Cat(Cat(<<a>>, <<b, c>>), <<d>>) = Cat(<<a>>, Cat(<<b, c>>, <<d>>))
  <2> DEFINE r == <<a>>
             s == <<b, c>>
             t == <<d>>
  <2>1. r \in Seq(U) /\ s \in Seq(U) /\ t \in Seq(U)
    OBVIOUS
  <2> HIDE DEF r, s, t, U
  <2>2. Cat(Cat(r, s), t) = Cat(r, Cat(s, t))
    BY <2>1, ConcatAssoc
  <2> QED
    BY <2>2 DEF r, s, t
<1>2. Cat(<<b, c>>, <<d>>) = <<b, c, d>>
  BY TripleOf DEF Cat
<1>3. Cat(<<a>>, <<b, c>>) = <<a, b, c>> /\ Cat(<<a, b, c>>, <<d>>) = <<a, b, c, d>>
  BY OneAndTwo, QuadOf
<1> QED
  BY <1>1, <1>2, <1>3, Zenon

(* What stands between the version and the end.                            *)
Opening(n) == <<Byte(1), Field("nullOutpoint"), Byte(n)>>
OutHead(count) == <<Field("sequence"), Byte(count)>>
Core(script, count, outputs) == Cat(Opening(Len(script)), Cat(script, Cat(OutHead(count), outputs)))

LEMMA CoreType ==
    ASSUME NEW T, IsTokens(T), Field("nullOutpoint") \in T, NEW script \in Seq(T), NEW count \in Nat,
           NEW outputs \in Seq(T)
    PROVE  /\ Opening(Len(script)) \in Seq(T) /\ Len(Opening(Len(script))) = 3
           /\ OutHead(count) \in Seq(T) /\ Len(OutHead(count)) = 2
           /\ Core(script, count, outputs) \in Seq(T)
           /\ Len(Core(script, count, outputs)) = 5 + Len(script) + Len(outputs)
<1>1. Opening(Len(script)) \in Seq(T) /\ Len(Opening(Len(script))) = 3
  <2>1. Len(script) \in Nat
    OBVIOUS
  <2>2. Byte(1) \in T /\ Byte(Len(script)) \in T
    BY <2>1, TokensAre
  <2> QED
    BY <2>2 DEF Opening
<1>2. OutHead(count) \in Seq(T) /\ Len(OutHead(count)) = 2
  <2>1. Field("sequence") \in T /\ Byte(count) \in T
    BY TokensAre
  <2> QED
    BY <2>1 DEF OutHead
<1> DEFINE x == Cat(OutHead(count), outputs)
           y == Cat(script, x)
<1>3. x \in Seq(T) /\ Len(x) = Len(OutHead(count)) + Len(outputs)
  BY <1>2, ConcatLength DEF Cat
<1> HIDE DEF x
<1>4. y \in Seq(T) /\ Len(y) = Len(script) + Len(x)
  BY <1>3, ConcatLength DEF Cat
<1> HIDE DEF y
<1>5. Cat(Opening(Len(script)), y) \in Seq(T) /\ Len(Cat(Opening(Len(script)), y)) = Len(Opening(Len(script))) + Len(y)
  BY <1>1, <1>4, ConcatLength DEF Cat
<1>6. Core(script, count, outputs) = Cat(Opening(Len(script)), y)
  BY DEF Core, x, y
<1>7. Len(script) \in Nat /\ Len(outputs) \in Nat
  OBVIOUS
<1>8. Len(Core(script, count, outputs)) = 5 + Len(script) + Len(outputs)
  <2>1. Len(y) = Len(script) + (2 + Len(outputs))
    BY <1>2, <1>3, <1>4
  <2> QED
    BY <1>1, <1>5, <1>6, <1>7, <2>1
<1> QED
  BY <1>1, <1>2, <1>5, <1>6, <1>8

LEMMA CoreOfText ==
    ASSUME NEW T, IsTokens(T), Field("nullOutpoint") \in T, NEW script \in Seq(T), NEW count \in Nat,
           NEW outputs \in Seq(T), NEW marker \in Seq(T), NEW tail \in Seq(T)
    PROVE  Text(marker, script, count, outputs, tail)
             = Cat(Cat(<<Field("version")>>, marker), Cat(Core(script, count, outputs), tail))
<1> DEFINE v == Cat(<<Field("version")>>, marker)
           h == Opening(Len(script))
           o == OutHead(count)
           y == Cat(script, Cat(o, outputs))
           w == Cat(script, Cat(o, Cat(outputs, tail)))
<1>1. v \in Seq(T)
  <2>1. <<Field("version")>> \in Seq(T)
    BY TokensAre, Single
  <2> QED
    BY <2>1, CatType
<1>2. h \in Seq(T) /\ o \in Seq(T)
  BY CoreType
<1>3. Text(marker, script, count, outputs, tail) = Cat(Cat(v, h), w)
  BY DEF Text, Front, Cat, Opening, OutHead
<1> HIDE DEF v, h, o
<1>4. Cat(o, outputs) \in Seq(T) /\ Cat(outputs, tail) \in Seq(T)
  BY <1>2, CatType
<1>5. y \in Seq(T) /\ Cat(o, Cat(outputs, tail)) \in Seq(T)
  BY <1>2, <1>4, CatType
<1>6. w \in Seq(T)
  BY <1>5, CatType
<1>7. Cat(y, tail) = w
  <2>1. Cat(Cat(script, Cat(o, outputs)), tail) = Cat(script, Cat(Cat(o, outputs), tail))
    BY <1>4, ConcatAssoc
  <2>2. Cat(Cat(o, outputs), tail) = Cat(o, Cat(outputs, tail))
    BY <1>2, ConcatAssoc
  <2> QED
    BY <2>1, <2>2
<1> HIDE DEF w, y
<1>8. Cat(Cat(v, h), w) = Cat(v, Cat(h, w))
  BY <1>1, <1>2, <1>6, ConcatAssoc
<1>9. Cat(h, w) = Cat(Cat(h, y), tail)
  <2>1. Cat(Cat(h, y), tail) = Cat(h, Cat(y, tail))
    BY <1>2, <1>5, ConcatAssoc
  <2> QED
    BY <1>7, <2>1
<1>10. Core(script, count, outputs) = Cat(h, y)
  BY DEF Core, h, o, y
<1> QED
  BY <1>3, <1>8, <1>9, <1>10 DEF v

(* A text with one token before its core and one behind it.                *)
LEMMA Ends ==
    ASSUME NEW T, NEW core \in Seq(T), NEW head \in Seq(T), Len(head) = 1,
           NEW tail \in Seq(T), Len(tail) = 1, NEW tx, tx = Cat(head, Cat(core, tail))
    PROVE  /\ tx \in Seq(T) /\ Len(tx) = Len(core) + 2 /\ Len(core) \in Nat
           /\ tx[1] = head[1] /\ SubSeq(tx, 2, Len(tx) - 1) = core /\ tx[Len(tx)] = tail[1]
<1> DEFINE rest == Cat(core, tail)
<1>1. head \in Seq(T) /\ Len(head) = 1 /\ tail \in Seq(T) /\ Len(tail) = 1
  OBVIOUS
<1>2. tx = Cat(head, Cat(core, tail))
  OBVIOUS
<1>3. rest \in Seq(T) /\ Len(rest) = Len(core) + 1 /\ Len(core) \in Nat
  BY <1>1, ConcatLength DEF Cat
<1> HIDE DEF rest
<1>4. tx \in Seq(T) /\ Len(tx) = 1 + Len(rest)
  BY <1>1, <1>2, <1>3, ConcatLength DEF Cat, rest
<1>5. Len(tx) = Len(core) + 2
  BY <1>3, <1>4
<1>6. At(tx, 1, head) /\ At(tx, 2, rest)
  <2>1. At(tx, 1, head \o rest)
    <3>1. tx = head \o rest
      BY <1>2 DEF Cat, rest
    <3> QED
      BY <1>4, <3>1, AtItself
  <2>2. 1 \in Nat \ {0} /\ 1 + 1 = 2
    OBVIOUS
  <2>3. At(tx, 1, head) /\ At(tx, 1 + Len(head), rest)
    BY <1>1, <1>3, <1>4, <2>1, <2>2, AtConcatenation
  <2> QED
    BY <1>1, <2>2, <2>3
<1>7. At(tx, 2, core) /\ At(tx, 2 + Len(core), tail)
  <2>1. 2 \in Nat \ {0} /\ rest = core \o tail
    BY DEF rest, Cat
  <2>2. At(tx, 2, core \o tail)
    BY <1>6, <2>1
  <2> QED
    BY <1>1, <1>4, <2>1, <2>2, AtConcatenation
<1>8. tx[1] = head[1]
  <2>1. \A i \in 1 .. 1 : tx[1 + i - 1] = head[i]
    BY <1>1, <1>6 DEF At
  <2>2. 1 \in 1 .. 1 /\ 1 + 1 - 1 = 1
    OBVIOUS
  <2>3. tx[1 + 1 - 1] = head[1]
    BY <2>1, <2>2, Zenon
  <2> QED
    BY <1>1, <2>2, <2>3
<1>9. tx[Len(tx)] = tail[1]
  <2>1. \A i \in 1 .. 1 : tx[2 + Len(core) + i - 1] = tail[i]
    BY <1>1, <1>7 DEF At
  <2>2. 1 \in 1 .. 1 /\ 2 + Len(core) + 1 - 1 = Len(tx)
    BY <1>3, <1>5
  <2>3. tx[2 + Len(core) + 1 - 1] = tail[1]
    BY <2>1, <2>2, Zenon
  <2> QED
    BY <1>1, <2>2, <2>3
<1>10. SubSeq(tx, 2, Len(tx) - 1) = core
  <2>1. 2 \in Nat \ {0} /\ 2 + Len(core) - 1 = Len(tx) - 1
    BY <1>3, <1>5
  <2>2. SubSeq(tx, 2, 2 + Len(core) - 1) = core
    BY <1>4, <1>7, <2>1, SubSeqAt
  <2> QED
    BY <2>1, <2>2
<1> QED
  BY <1>3, <1>4, <1>5, <1>8, <1>9, <1>10

Lock == <<Field("locktime")>>
WitnessMarker == <<Byte(0), Byte(1)>>
NonceTail == <<Byte(1), Byte(1), Zeros32, Field("locktime")>>

(* AddWitnessNonce makes the text with a witness of the text without.      *)
LEMMA NonceAdded ==
    ASSUME NEW T, IsTokens(T), Field("nullOutpoint") \in T, Zeros32 \in T, NEW script \in Seq(T),
           NEW count \in Nat, NEW outputs \in Seq(T)
    PROVE  AddWitnessNonce(Text(<< >>, script, count, outputs, Lock))
             = Text(WitnessMarker, script, count, outputs, NonceTail)
<1> DEFINE tx == Text(<< >>, script, count, outputs, Lock)
           core == Core(script, count, outputs)
           v == Field("version")
           l == Field("locktime")
<1>1. v \in T /\ l \in T /\ Byte(0) \in T /\ Byte(1) \in T
  BY DEF IsTokens
<1>2. Lock \in Seq(T) /\ << >> \in Seq(T) /\ WitnessMarker \in Seq(T) /\ NonceTail \in Seq(T)
  BY <1>1 DEF Lock, WitnessMarker, NonceTail
<1>3. core \in Seq(T)
  BY CoreType
<1>4. tx = Cat(Cat(<<v>>, << >>), Cat(core, Lock))
  <2> DEFINE none == << >>
  <2>1. none \in Seq(T)
    OBVIOUS
  <2> HIDE DEF none
  <2>2. Text(none, script, count, outputs, Lock) = Cat(Cat(<<v>>, none), Cat(core, Lock))
    BY <1>2, <2>1, CoreOfText
  <2> QED
    BY <2>2 DEF none
<1>5. Cat(<<v>>, << >>) = <<v>>
  BY NoneOf
<1> HIDE DEF tx, core, v, l
<1>6. tx = Cat(<<v>>, Cat(core, <<l>>))
  BY <1>4, <1>5 DEF Lock, l
<1>7. /\ tx \in Seq(T) /\ Len(tx) = Len(core) + 2 /\ Len(core) \in Nat
      /\ tx[1] = v /\ SubSeq(tx, 2, Len(tx) - 1) = core /\ tx[Len(tx)] = l
  <2> DEFINE head == <<v>>
             tail == <<l>>
  <2>1. head = <<v>> /\ tail = <<l>> /\ tx = Cat(head, Cat(core, tail))
    BY <1>6
  <2>2. head \in Seq(T) /\ Len(head) = 1 /\ head[1] = v /\ tail \in Seq(T) /\ Len(tail) = 1 /\ tail[1] = l
    BY <1>1
  <2> HIDE DEF head, tail
  <2>3. tx = Cat(head, Cat(core, tail))
    BY <2>1
  <2> QED
    BY <1>3, <2>2, <2>3, Ends
<1>8. ~(Len(tx) < 2)
  BY <1>7
<1>9. AddWitnessNonce(tx) = <<v, Byte(0), Byte(1)>> \o core \o <<Byte(1), Byte(1), Zeros32, l>>
  BY <1>7, <1>8, Zenon DEF AddWitnessNonce, witnessReservedValue
<1>10. <<v, Byte(0), Byte(1)>> = Cat(<<v>>, WitnessMarker)
  <2>1. Cat(<<v>>, <<Byte(0), Byte(1)>>) = <<v, Byte(0), Byte(1)>>
    BY OneAndTwo
  <2> QED
    BY <2>1 DEF WitnessMarker
<1>11. AddWitnessNonce(tx) = Cat(Cat(Cat(<<v>>, WitnessMarker), core), NonceTail)
  BY <1>9, <1>10, Zenon DEF Cat, NonceTail, l
<1>12. Cat(<<v>>, WitnessMarker) \in Seq(T)
  <2>1. <<v>> \in Seq(T)
    BY <1>1, Single
  <2> QED
    BY <1>2, <2>1, CatType
<1>13. AddWitnessNonce(tx) = Cat(Cat(<<v>>, WitnessMarker), Cat(core, NonceTail))
  <2> DEFINE f == Cat(<<v>>, WitnessMarker)
  <2>1. f \in Seq(T)
    BY <1>12
  <2> HIDE DEF f
  <2>2. Cat(Cat(f, core), NonceTail) = Cat(f, Cat(core, NonceTail))
    BY <1>2, <1>3, <2>1, ConcatAssoc
  <2> QED
    BY <1>11, <2>2 DEF f
<1>14. Text(WitnessMarker, script, count, outputs, NonceTail)
         = Cat(Cat(<<v>>, WitnessMarker), Cat(core, NonceTail))
  BY <1>2, CoreOfText DEF v, core
<1> QED
  BY <1>13, <1>14 DEF tx

(* Where the parts stand in the text.                                      *)
TextStands(tokens, T, marker, script, count, outputs, tail) ==
    LET at  == 2 + Len(marker)
        mid == at + Len(script) + 5
        end == mid + Len(outputs)
    IN  /\ tokens \in Seq(T) /\ Len(tokens) = end + Len(tail) - 1
        /\ At(tokens, 2, marker)
        /\ At(tokens, at, Opening(Len(script)))
        /\ At(tokens, at + 3, script)
        /\ At(tokens, at + 3 + Len(script), OutHead(count))
        /\ At(tokens, mid, outputs)
        /\ At(tokens, end, tail)
        /\ at \in Nat \ {0} /\ mid \in Nat \ {0} /\ end \in Nat \ {0} /\ Len(script) \in Nat
        /\ Len(tail) \in Nat /\ Len(outputs) \in Nat

LEMMA TextPartsStand ==
    ASSUME NEW T, IsTokens(T), Field("nullOutpoint") \in T, NEW script \in Seq(T), NEW count \in Nat,
           NEW outputs \in Seq(T), NEW marker \in Seq(T), NEW tail \in Seq(T)
    PROVE  TextStands(Text(marker, script, count, outputs, tail), T, marker, script, count, outputs, tail)
<1> DEFINE tokens == Text(marker, script, count, outputs, tail)
           v == <<Field("version")>>
           front == Cat(v, marker)
           h == Opening(Len(script))
           o == OutHead(count)
           z == Cat(o, outputs)
           y == Cat(script, z)
           core == Cat(h, y)
           back == Cat(core, tail)
           at == 2 + Len(marker)
           mid == at + Len(script) + 5
           end == mid + Len(outputs)
<1>1. v \in Seq(T) /\ Len(v) = 1
  BY TokensAre
<1>2. h \in Seq(T) /\ Len(h) = 3 /\ o \in Seq(T) /\ Len(o) = 2
  BY CoreType
<1>3. tokens = Cat(front, back)
  BY CoreOfText DEF Core
<1>4. Len(script) \in Nat /\ Len(outputs) \in Nat /\ Len(marker) \in Nat /\ Len(tail) \in Nat
  OBVIOUS
<1> HIDE DEF tokens, v, h, o
<1>5. front \in Seq(T) /\ Len(front) = 1 + Len(marker)
  BY <1>1, ConcatLength DEF Cat
<1>6. z \in Seq(T) /\ Len(z) = 2 + Len(outputs)
  BY <1>2, ConcatLength DEF Cat
<1> HIDE DEF front, z
<1>7. y \in Seq(T) /\ Len(y) = Len(script) + Len(z)
  BY <1>6, ConcatLength DEF Cat
<1> HIDE DEF y
<1>8. core \in Seq(T) /\ Len(core) = 3 + Len(y)
  <2>1. h \o y \in Seq(T) /\ Len(h \o y) = Len(h) + Len(y)
    <3>1. h \in Seq(T) /\ y \in Seq(T)
      BY <1>2, <1>7
    <3> QED
      BY <3>1, ConcatLength
  <2>2. core = h \o y
    BY DEF Cat
  <2> QED
    BY <1>2, <2>1, <2>2, Zenon
<1> HIDE DEF core
<1>9. back \in Seq(T) /\ Len(back) = Len(core) + Len(tail)
  BY <1>8, ConcatLength DEF Cat
<1> HIDE DEF back
<1>10. tokens \in Seq(T) /\ Len(tokens) = Len(front) + Len(back)
  BY <1>3, <1>5, <1>9, ConcatLength DEF Cat
<1>11. /\ at \in Nat \ {0} /\ mid \in Nat \ {0} /\ end \in Nat \ {0}
       /\ at + 3 \in Nat \ {0} /\ at + 3 + Len(script) \in Nat \ {0}
  BY <1>4
<1>12. /\ 1 + Len(front) = at /\ at + Len(core) = end /\ at + 3 + Len(script) + 2 = mid
       /\ Len(tokens) = end + Len(tail) - 1
  <2> DEFINE a == Len(script)
             b == Len(outputs)
             c == Len(marker)
             d == Len(tail)
  <2>1. a \in Nat /\ b \in Nat /\ c \in Nat /\ d \in Nat
    BY <1>4
  <2>2. Len(front) = 1 + c /\ Len(z) = 2 + b /\ Len(y) = a + Len(z) /\ Len(core) = 3 + Len(y)
        /\ Len(back) = Len(core) + d /\ Len(tokens) = Len(front) + Len(back)
    BY <1>5, <1>6, <1>7, <1>8, <1>9, <1>10
  <2>3. at = 2 + c /\ mid = at + a + 5 /\ end = mid + b
    OBVIOUS
  <2> HIDE DEF a, b, c, d, at, mid, end
  <2>4. Len(core) = 3 + (a + (2 + b)) /\ Len(back) = 3 + (a + (2 + b)) + d
    BY <2>1, <2>2
  <2>5. Len(tokens) = (1 + c) + (3 + (a + (2 + b)) + d)
    BY <2>1, <2>2, <2>4
  <2>6. 1 + Len(front) = at /\ at + Len(core) = end /\ at + 3 + a + 2 = mid
    BY <2>1, <2>2, <2>3, <2>4
  <2>7. Len(tokens) = end + d - 1
    BY <2>1, <2>3, <2>5
  <2> QED
    BY <2>6, <2>7 DEF a, d
<1> HIDE DEF at, mid, end
<1>13. At(tokens, 1, front) /\ At(tokens, at, back)
  <2>1. tokens = front \o back /\ 1 \in Nat \ {0}
    BY <1>3 DEF Cat
  <2>2. At(tokens, 1, front \o back)
    BY <1>10, <2>1, AtItself
  <2>3. At(tokens, 1, front) /\ At(tokens, 1 + Len(front), back)
    BY <1>5, <1>9, <1>10, <2>1, <2>2, AtConcatenation
  <2> QED
    BY <1>12, <2>3
<1>14. At(tokens, 2, marker)
  <2>1. front = v \o marker /\ 1 \in Nat \ {0} /\ 1 + 1 = 2
    BY DEF Cat, front
  <2>2. At(tokens, 1, v \o marker)
    BY <1>13, <2>1
  <2>3. At(tokens, 1 + Len(v), marker)
    BY <1>1, <1>10, <2>1, <2>2, AtConcatenation
  <2> QED
    BY <1>1, <2>1, <2>3
<1>15. At(tokens, at, core) /\ At(tokens, end, tail)
  <2>1. At(tokens, at, core \o tail)
    BY <1>13 DEF Cat, back
  <2>2. At(tokens, at, core) /\ At(tokens, at + Len(core), tail)
    BY <1>8, <1>10, <1>11, <2>1, AtConcatenation
  <2> QED
    BY <1>12, <2>2
<1>16. At(tokens, at, h) /\ At(tokens, at + 3, y)
  <2>1. At(tokens, at, h \o y)
    BY <1>15 DEF Cat, core
  <2>2. At(tokens, at, h) /\ At(tokens, at + Len(h), y)
    BY <1>2, <1>7, <1>10, <1>11, <2>1, AtConcatenation
  <2> QED
    BY <1>2, <2>2
<1>17. At(tokens, at + 3, script) /\ At(tokens, at + 3 + Len(script), z)
  <2>1. At(tokens, at + 3, script \o z)
    BY <1>16 DEF Cat, y
  <2> QED
    BY <1>6, <1>10, <1>11, <2>1, AtConcatenation
<1>18. At(tokens, at + 3 + Len(script), o) /\ At(tokens, mid, outputs)
  <2>1. At(tokens, at + 3 + Len(script), o \o outputs)
    BY <1>17 DEF Cat, z
  <2>2. At(tokens, at + 3 + Len(script), o) /\ At(tokens, at + 3 + Len(script) + Len(o), outputs)
    BY <1>2, <1>10, <1>11, <2>1, AtConcatenation
  <2> QED
    BY <1>2, <1>12, <2>2
<1>19. /\ tokens \in Seq(T) /\ Len(tokens) = end + Len(tail) - 1
       /\ At(tokens, 2, marker) /\ At(tokens, at, h) /\ At(tokens, at + 3, script)
       /\ At(tokens, at + 3 + Len(script), o) /\ At(tokens, mid, outputs) /\ At(tokens, end, tail)
       /\ at \in Nat \ {0} /\ mid \in Nat \ {0} /\ end \in Nat \ {0} /\ Len(script) \in Nat
       /\ Len(tail) \in Nat /\ Len(outputs) \in Nat
  BY <1>4, <1>10, <1>11, <1>12, <1>14, <1>15, <1>16, <1>17, <1>18, Zenon
<1> QED
  BY <1>19, Zenon DEF TextStands, at, mid, end, h, o, tokens

(* A part is read at its place.                                            *)
LEMMA ReadAt ==
    ASSUME NEW tokens, NEW pos \in Nat, NEW s, At(tokens, pos, s), NEW i \in Nat \ {0}, i <= Len(s),
           Len(s) \in Nat
    PROVE  tokens[pos + i - 1] = s[i]
  BY DEF At

LEMMA MarkerIsRead ==
    ASSUME NEW T, NEW tokens, NEW marker \in {<< >>, WitnessMarker}, NEW script, NEW count, NEW outputs,
           NEW tail, TextStands(tokens, T, marker, script, count, outputs, tail)
    PROVE  /\ (IF tokens[2] = Byte(0) THEN 4 ELSE 2) = 2 + Len(marker)
           /\ Len(marker) = IF marker = << >> THEN 0 ELSE 2
<1>1. At(tokens, 2, marker) /\ At(tokens, 2 + Len(marker), Opening(Len(script)))
  BY DEF TextStands
<1>2. CASE marker = << >>
  <2>1. Len(marker) = 0
    BY <1>2
  <2>2. Opening(Len(script))[1] = Byte(1) /\ Len(Opening(Len(script))) = 3
    BY DEF Opening
  <2>3. tokens[2 + 1 - 1] = Opening(Len(script))[1]
    <3>1. At(tokens, 2, Opening(Len(script)))
      BY <1>1, <2>1
    <3> QED
      BY <2>2, <3>1, ReadAt
  <2>4. tokens[2] # Byte(0)
    <3>1. tokens[2] = Byte(1)
      BY <2>2, <2>3
    <3>2. Byte(1) # Byte(0)
      BY DEF Byte
    <3> QED
      BY <3>1, <3>2
  <2> QED
    BY <1>2, <2>1, <2>4
<1>3. CASE marker = WitnessMarker
  <2>1. Len(marker) = 2 /\ marker[1] = Byte(0) /\ marker # << >>
    BY <1>3 DEF WitnessMarker
  <2>2. tokens[2 + 1 - 1] = marker[1]
    BY <1>1, <2>1, ReadAt
  <2>3. tokens[2] = Byte(0)
    BY <2>1, <2>2
  <2> QED
    BY <2>1, <2>3
<1> QED
  BY <1>2, <1>3

LEMMA HeadsAreRead ==
    ASSUME NEW T, NEW tokens, NEW marker, NEW script, NEW count, NEW outputs,
           NEW tail, TextStands(tokens, T, marker, script, count, outputs, tail),
           NEW at, at = 2 + Len(marker)
    PROVE  /\ tokens[at + 1] = Field("nullOutpoint") /\ tokens[at + 2].byte = Len(script)
           /\ tokens[at + Len(script) + 4].byte = count
<1>1. /\ At(tokens, at, Opening(Len(script))) /\ At(tokens, at + 3 + Len(script), OutHead(count))
      /\ at \in Nat /\ Len(script) \in Nat
  BY DEF TextStands
<1>2. /\ Len(Opening(Len(script))) = 3 /\ Opening(Len(script))[2] = Field("nullOutpoint")
      /\ Opening(Len(script))[3] = Byte(Len(script))
  BY DEF Opening
<1>3. Len(OutHead(count)) = 2 /\ OutHead(count)[2] = Byte(count)
  BY DEF OutHead
<1>4. /\ tokens[at + 2 - 1] = Opening(Len(script))[2]
      /\ tokens[at + 3 - 1] = Opening(Len(script))[3]
  <2> DEFINE h == Opening(Len(script))
  <2>1. At(tokens, at, h) /\ at \in Nat /\ Len(h) = 3
    BY <1>1, <1>2
  <2> HIDE DEF h
  <2>2. \A i \in 1 .. Len(h) : tokens[at + i - 1] = h[i]
    BY <2>1, Zenon DEF At
  <2>3. 2 \in 1 .. Len(h) /\ 3 \in 1 .. Len(h)
    BY <2>1
  <2>4. tokens[at + 2 - 1] = h[2] /\ tokens[at + 3 - 1] = h[3]
    BY <2>2, <2>3, Zenon
  <2> QED
    BY <2>4 DEF h
<1>5. tokens[at + 3 + Len(script) + 2 - 1] = OutHead(count)[2]
  <2> DEFINE h == OutHead(count)
             pos == at + 3 + Len(script)
  <2>1. At(tokens, pos, h) /\ pos \in Nat /\ Len(h) = 2
    BY <1>1, <1>3
  <2> HIDE DEF h, pos
  <2>2. \A i \in 1 .. Len(h) : tokens[pos + i - 1] = h[i]
    BY <2>1, Zenon DEF At
  <2>3. 2 \in 1 .. Len(h)
    BY <2>1
  <2>4. tokens[pos + 2 - 1] = h[2]
    BY <2>2, <2>3, Zenon
  <2> QED
    BY <2>4 DEF h, pos
<1>6. at + 2 - 1 = at + 1 /\ at + 3 - 1 = at + 2 /\ at + 3 + Len(script) + 2 - 1 = at + Len(script) + 4
  BY <1>1
<1>7. Byte(Len(script)).byte = Len(script) /\ Byte(count).byte = count
  BY DEF Byte
<1> QED
  BY <1>2, <1>3, <1>4, <1>5, <1>6, <1>7, Zenon

IsCut(tokens, at, script, outputs, tail) ==
    /\ SubSeq(tokens, at + 3, at + 2 + Len(script)) = script
    /\ SubSeq(tokens, at + Len(script) + 5 + Len(outputs), Len(tokens)) = tail

LEMMA TextIsCut ==
    ASSUME NEW T, NEW tokens, NEW marker, NEW script \in Seq(T), NEW count, NEW outputs \in Seq(T),
           NEW tail \in Seq(T), TextStands(tokens, T, marker, script, count, outputs, tail),
           NEW at, at = 2 + Len(marker)
    PROVE  IsCut(tokens, at, script, outputs, tail)
<1> DEFINE end == at + Len(script) + 5 + Len(outputs)
<1>1. /\ tokens \in Seq(T) /\ Len(tokens) = end + Len(tail) - 1
      /\ At(tokens, at + 3, script) /\ At(tokens, end, tail)
      /\ at \in Nat /\ Len(script) \in Nat /\ end \in Nat \ {0} /\ Len(tail) \in Nat
  BY Zenon DEF TextStands
<1>2. at + 3 \in Nat \ {0} /\ at + 3 + Len(script) - 1 = at + 2 + Len(script)
  BY <1>1
<1> HIDE DEF end
<1>3. SubSeq(tokens, at + 3, at + 3 + Len(script) - 1) = script
  BY <1>1, <1>2, SubSeqAt
<1>4. SubSeq(tokens, end, end + Len(tail) - 1) = tail
  BY <1>1, SubSeqAt
<1> QED
  BY <1>1, <1>2, <1>3, <1>4 DEF end, IsCut

(* The two coinbases the pool makes of one: without the reserved value and *)
(* with it.                                                                *)
CoinbaseTail(marker) == IF marker = << >> THEN Lock ELSE NonceTail
CoinbaseItems(marker) == IF marker = << >> THEN << >> ELSE <<<<<<Zeros32>>>>>>

IsShort(T, script, outs) ==
    /\ IsTokens(T) /\ Field("nullOutpoint") \in T /\ Zeros32 \in T
    /\ script \in Seq(T) /\ Len(script) < CompactLimit
    /\ outs \in Outs(T) /\ Len(outs) < CompactLimit
    /\ \A i \in 1 .. Len(outs) : Len(outs[i].script) < CompactLimit

CoinbaseText(marker, script, outs) ==
    Text(marker, script, Len(outs), Joined(OutTexts(outs)), CoinbaseTail(marker))

LEMMA NonceStack == Joined([i \in 1 .. 1 |-> Stack(<<<<Zeros32>>>>)]) = <<Byte(1), Byte(1), Zeros32>>
<1> DEFINE T == {Byte(1), Zeros32}
           z == <<Zeros32>>
           items == <<z>>
           one == <<Byte(1)>>
           text == <<Byte(1), Zeros32>>
           stack == <<Byte(1), Byte(1), Zeros32>>
<1>1. Len(z) = 1 /\ Len(items) = 1 /\ items[1] = z /\ text \in Seq(T) /\ stack \in Seq(T)
  OBVIOUS
<1>2. CompactSize(1) = one
  BY CompactAssumption DEF CompactSize
<1>3. VarBytes(z) = text
  <2>1. VarBytes(z) = CompactSize(Len(z)) \o z
    BY DEF VarBytes
  <2>2. one \o z = text
    BY PairOf
  <2> HIDE DEF z, one, text
  <2> QED
    BY <1>1, <1>2, <2>1, <2>2
<1>4. Joined([i \in 1 .. Len(items) |-> VarBytes(items[i])]) = text
  <2> DEFINE texts == [i \in 1 .. Len(items) |-> VarBytes(items[i])]
             tt == <<text>>
  <2> HIDE DEF text, items, z
  <2>1. Len(texts) = 1 /\ texts[1] = text
    BY <1>1, <1>3
  <2>2. Len(tt) = 1 /\ tt[1] = text
    OBVIOUS
  <2> HIDE DEF texts, tt
  <2>3. Joined(texts) = Joined(tt)
    <3>1. Len(texts) \in Nat /\ Len(tt) = Len(texts) /\ \A i \in 1 .. Len(texts) : texts[i] = tt[i]
      BY <2>1, <2>2
    <3> QED
      BY <3>1, JoinedSame
  <2>4. Joined(tt) = text
    <3> HIDE DEF T
    <3>1. Joined(<<text>>) = text
      BY <1>1, JoinedOne
    <3> QED
      BY <3>1 DEF tt
  <2> QED
    BY <2>3, <2>4 DEF texts
<1>5. Stack(items) = stack
  <2>1. Stack(items) = CompactSize(Len(items)) \o Joined([i \in 1 .. Len(items) |-> VarBytes(items[i])])
    BY DEF Stack
  <2>2. Cat(<<Byte(1)>>, <<Byte(1), Zeros32>>) = <<Byte(1), Byte(1), Zeros32>>
    BY OneAndTwo
  <2>3. one \o text = stack
    BY <2>2 DEF Cat
  <2> HIDE DEF items, one, text, stack
  <2> QED
    BY <1>1, <1>2, <1>4, <2>1, <2>3
<1>6. Joined([i \in 1 .. 1 |-> Stack(items)]) = stack
  <2> DEFINE stacks == [i \in 1 .. 1 |-> Stack(items)]
             tt == <<stack>>
  <2> HIDE DEF stack, items
  <2>1. Len(stacks) = 1 /\ stacks[1] = stack
    BY <1>5
  <2>2. Len(tt) = 1 /\ tt[1] = stack
    OBVIOUS
  <2> HIDE DEF stacks, tt
  <2>3. Joined(stacks) = Joined(tt)
    <3>1. Len(stacks) \in Nat /\ Len(tt) = Len(stacks) /\ \A i \in 1 .. Len(stacks) : stacks[i] = tt[i]
      BY <2>1, <2>2
    <3> QED
      BY <3>1, JoinedSame
  <2>4. Joined(tt) = stack
    <3> HIDE DEF T
    <3>1. Joined(<<stack>>) = stack
      BY <1>1, JoinedOne
    <3> QED
      BY <3>1 DEF tt
  <2> QED
    BY <2>3, <2>4 DEF stacks
<1> QED
  BY <1>6

LEMMA CoinbaseIsWritten ==
    ASSUME NEW T, NEW script, NEW outs, IsShort(T, script, outs), NEW marker \in {<< >>, WitnessMarker}
    PROVE  /\ Serialised(CoinbaseRecord(script, outs, CoinbaseItems(marker))) = CoinbaseText(marker, script, outs)
           /\ Stripped(CoinbaseRecord(script, outs, CoinbaseItems(marker))) = CoinbaseText(<< >>, script, outs)
<1> DEFINE none == << >>
           cb == CoinbaseRecord(script, outs, CoinbaseItems(marker))
           n == Len(outs)
           j == Joined(OutTexts(outs))
<1>1. /\ IsTokens(T) /\ Field("nullOutpoint") \in T /\ Zeros32 \in T
      /\ script \in Seq(T) /\ Len(script) < CompactLimit
      /\ outs \in Outs(T) /\ Len(outs) < CompactLimit
      /\ \A i \in 1 .. Len(outs) : Len(outs[i].script) < CompactLimit
  BY DEF IsShort
<1>2. none \in Seq(T) /\ WitnessMarker \in Seq(T) /\ <<Byte(1), Byte(1), Zeros32>> \in Seq(T)
  <2>1. Byte(0) \in T /\ Byte(1) \in T
    BY <1>1 DEF IsTokens
  <2> QED
    BY <1>1, <2>1 DEF WitnessMarker
<1>3. none \o Lock = Lock /\ <<Byte(1), Byte(1), Zeros32>> \o Lock = NonceTail
  <2>1. Cat(<<Byte(1), Byte(1), Zeros32>>, <<Field("locktime")>>) = NonceTail
    <3> DEFINE b == Byte(1)
               l == Field("locktime")
    <3> HIDE DEF b, l
    <3>1. Cat(<<b, b, Zeros32>>, <<l>>) = <<b, b, Zeros32, l>>
      BY QuadOf
    <3> QED
      BY <3>1, Zenon DEF NonceTail, b, l
  <2>2. Cat(<< >>, <<Field("locktime")>>) = <<Field("locktime")>>
    BY NoneOf
  <2> QED
    BY <2>1, <2>2 DEF Cat, Lock
<1>4. cb.stacks = CoinbaseItems(marker)
  BY DEF CoinbaseRecord
<1>5. SerialiseParts(cb, none, none) = CoinbaseText(<< >>, script, outs)
  <2> HIDE DEF none
  <2>1. SerialiseParts(cb, none, none) = Text(none, script, n, j, none \o <<Field("locktime")>>)
    BY <1>1, <1>2, CoinbaseSerialised
  <2>2. CoinbaseText(none, script, outs) = Text(none, script, n, j, Lock)
    BY DEF CoinbaseText, CoinbaseTail, none
  <2>3. SerialiseParts(cb, none, none) = Text(none, script, n, j, Lock)
    BY <1>3, <2>1 DEF Lock
  <2> QED
    BY <2>2, <2>3 DEF none
<1>6. Stripped(cb) = CoinbaseText(<< >>, script, outs)
  BY <1>5 DEF Stripped
<1>7. CASE marker = << >>
  <2>1. Serialised(cb) = Stripped(cb)
    BY <1>4, <1>7 DEF Serialised, CoinbaseItems
  <2> QED
    BY <1>6, <1>7, <2>1
<1>8. CASE marker = WitnessMarker
  <2>1. WitnessMarker # << >>
    BY DEF WitnessMarker
  <2>2. cb.stacks = <<<<<<Zeros32>>>>>>
    BY <1>4, <1>8, <2>1, Zenon DEF CoinbaseItems
  <2> HIDE DEF cb
  <2>3. cb.stacks # << >> /\ Len(cb.stacks) = 1 /\ cb.stacks[1] = <<<<Zeros32>>>>
    BY <2>2
  <2>4. [i \in 1 .. Len(cb.stacks) |-> Stack(cb.stacks[i])] = [i \in 1 .. 1 |-> Stack(<<<<Zeros32>>>>)]
    <3>1. \A i \in 1 .. 1 : cb.stacks[i] = <<<<Zeros32>>>>
      BY <2>3
    <3> DEFINE zz == <<<<Zeros32>>>>
    <3>2. \A i \in 1 .. 1 : cb.stacks[i] = zz
      BY <3>1
    <3> HIDE DEF zz
    <3>3. [i \in 1 .. Len(cb.stacks) |-> Stack(cb.stacks[i])] = [i \in 1 .. 1 |-> Stack(zz)]
      BY <2>3, <3>2
    <3> QED
      BY <3>3 DEF zz
  <2>5. Joined([i \in 1 .. Len(cb.stacks) |-> Stack(cb.stacks[i])]) = <<Byte(1), Byte(1), Zeros32>>
    BY <2>4, NonceStack
  <2>6. Serialised(cb) = SerialiseParts(cb, WitnessMarker, <<Byte(1), Byte(1), Zeros32>>)
    BY <2>3, <2>5 DEF Serialised, WitnessMarker
  <2>7. SerialiseParts(cb, WitnessMarker, <<Byte(1), Byte(1), Zeros32>>) = Text(WitnessMarker, script, n, j, NonceTail)
    <3> DEFINE s == <<Byte(1), Byte(1), Zeros32>>
    <3>1. s \in Seq(T) /\ s \o <<Field("locktime")>> = NonceTail
      BY <1>2, <1>3 DEF Lock
    <3> HIDE DEF s
    <3>2. SerialiseParts(cb, WitnessMarker, s) = Text(WitnessMarker, script, n, j, s \o <<Field("locktime")>>)
      <4> DEFINE items == CoinbaseItems(marker)
      <4>1. s \in Seq(T) /\ WitnessMarker \in Seq(T) /\ cb = CoinbaseRecord(script, outs, items)
        BY <1>2, <3>1, Zenon DEF cb
      <4> HIDE DEF items
      <4>2. SerialiseParts(CoinbaseRecord(script, outs, items), WitnessMarker, s)
              = Text(WitnessMarker, script, n, j, s \o <<Field("locktime")>>)
        BY <1>1, <4>1, CoinbaseSerialised
      <4> QED
        BY <4>1, <4>2
    <3> QED
      BY <3>1, <3>2 DEF s
  <2>8. CoinbaseText(WitnessMarker, script, outs) = Text(WitnessMarker, script, n, j, NonceTail)
    BY <2>1, Zenon DEF CoinbaseText, CoinbaseTail
  <2> QED
    BY <1>6, <1>8, <2>6, <2>7, <2>8 DEF cb
<1> QED
  BY <1>7, <1>8

(* What ReadCoinbase makes of tokens, with at the position of the inputs.  *)
ReadRecord(tokens, at, len, read, rest) ==
    [ins |-> <<[from |-> tokens[at + 1], script |-> SubSeq(tokens, at + 3, at + 2 + len)]>>,
     outs |-> read.outs, foreign |-> << >>,
     stacks |-> IF at = 4 /\ Len(rest) > 2 THEN <<<<<<rest[3]>>>>>> ELSE << >>]

Reads(tokens, at, len, read, rest, cb) ==
    /\ at = IF tokens[2] = Byte(0) THEN 4 ELSE 2
    /\ len = tokens[at + 2].byte
    /\ read = ReadOuts(tokens, at + len + 5, tokens[at + len + 4].byte)
    /\ rest = SubSeq(tokens, read.next, Len(tokens))
    /\ cb = ReadRecord(tokens, at, len, read, rest)
    /\ Serialised(cb) = tokens

LEMMA ReadingIs ==
    ASSUME NEW tokens, NEW at, NEW len, NEW read, NEW rest, NEW cb, Reads(tokens, at, len, read, rest, cb)
    PROVE  ReadCoinbase(tokens) = {cb}
  BY Zenon DEF ReadCoinbase, ReadRecord, Reads

(* The node reads the coinbase the pool means.                             *)
LEMMA CoinbaseIsRead ==
    ASSUME NEW T, NEW script, NEW outs, IsShort(T, script, outs), NEW marker \in {<< >>, WitnessMarker}
    PROVE  ReadCoinbase(CoinbaseText(marker, script, outs))
             = {CoinbaseRecord(script, outs, CoinbaseItems(marker))}
<1> DEFINE tokens == CoinbaseText(marker, script, outs)
           tail == CoinbaseTail(marker)
           count == Len(outs)
           outputs == Joined(OutTexts(outs))
           at == 2 + Len(marker)
           len == Len(script)
           end == at + len + 5 + Len(outputs)
           read == Read(outs, end)
           cb == CoinbaseRecord(script, outs, CoinbaseItems(marker))
<1>1. /\ IsTokens(T) /\ Field("nullOutpoint") \in T /\ Zeros32 \in T
      /\ script \in Seq(T) /\ outs \in Outs(T)
  BY DEF IsShort
<1>2. count \in Nat /\ outputs \in Seq(T) /\ Len(OutTexts(outs)) = Len(outs)
      /\ \A i \in 1 .. Len(outs) : OutTexts(outs)[i] = Output(outs[i].value, outs[i].script)
  BY <1>1, OutTextsType
<1>3. marker \in Seq(T) /\ tail \in Seq(T)
  <2>1. Byte(0) \in T /\ Byte(1) \in T /\ Field("locktime") \in T
    BY <1>1 DEF IsTokens
  <2>2. << >> \in Seq(T) /\ WitnessMarker \in Seq(T) /\ Lock \in Seq(T) /\ NonceTail \in Seq(T)
    BY <1>1, <2>1 DEF WitnessMarker, Lock, NonceTail
  <2> QED
    BY <2>2, Zenon DEF CoinbaseTail
<1>4. TextStands(tokens, T, marker, script, count, outputs, tail)
  <2>1. tokens = Text(marker, script, count, outputs, tail)
    BY DEF CoinbaseText
  <2> HIDE DEF tokens, tail, count, outputs
  <2>2. TextStands(Text(marker, script, count, outputs, tail), T, marker, script, count, outputs, tail)
    BY <1>1, <1>2, <1>3, TextPartsStand
  <2> QED
    BY <2>1, <2>2
<1>5. Serialised(cb) = tokens
  BY CoinbaseIsWritten
<1> HIDE DEF tokens, tail, count, outputs
<1>6. at = (IF tokens[2] = Byte(0) THEN 4 ELSE 2) /\ Len(marker) = (IF marker = << >> THEN 0 ELSE 2)
  BY <1>4, MarkerIsRead
<1> HIDE DEF at
<1>7. tokens[at + 1] = Field("nullOutpoint") /\ tokens[at + 2].byte = len /\ tokens[at + len + 4].byte = count
  BY <1>4, HeadsAreRead DEF at
<1>8. SubSeq(tokens, at + 3, at + 2 + len) = script /\ SubSeq(tokens, end, Len(tokens)) = tail
  <2>1. at = 2 + Len(marker) /\ script \in Seq(T) /\ outputs \in Seq(T) /\ tail \in Seq(T)
    BY <1>1, <1>2, <1>3 DEF at
  <2>2. IsCut(tokens, at, script, outputs, tail)
    BY <1>4, <2>1, TextIsCut
  <2> QED
    BY <2>2 DEF IsCut
<1>9. ReadOuts(tokens, at + len + 5, count) = read
  <2> DEFINE mid == at + len + 5
  <2>1. tokens \in Seq(T) /\ At(tokens, mid, outputs) /\ mid \in Nat \ {0}
    BY <1>4, Zenon DEF TextStands, at
  <2> HIDE DEF mid
  <2>2. ReadOuts(tokens, mid, Len(outs)) = Read(outs, mid + Len(Joined(OutTexts(outs))))
    BY <1>1, <1>2, <2>1, ReadsOuts DEF outputs
  <2> QED
    BY <2>2 DEF mid, count, outputs
<1>10. read.outs = outs /\ read.next = end
  BY DEF Read
<1> HIDE DEF read, end
<1>11. cb = ReadRecord(tokens, at, len, read, tail)
  <2>1. (IF at = 4 /\ Len(tail) > 2 THEN <<<<<<tail[3]>>>>>> ELSE << >>) = CoinbaseItems(marker)
    <3>1. CASE marker = << >>
      <4>1. at = 2
        BY <1>6, <3>1 DEF at
      <4> QED
        BY <3>1, <4>1 DEF CoinbaseItems
    <3>2. CASE marker # << >>
      <4>1. at = 4
        BY <1>6, <3>2 DEF at
      <4>2. tail = NonceTail /\ CoinbaseItems(marker) = <<<<<<Zeros32>>>>>>
        BY <3>2, Zenon DEF tail, CoinbaseTail, CoinbaseItems
      <4>3. Len(NonceTail) > 2 /\ NonceTail[3] = Zeros32
        BY DEF NonceTail
      <4> QED
        BY <4>1, <4>2, <4>3, Zenon
    <3> QED
      BY <3>1, <3>2
  <2> QED
    BY <1>7, <1>8, <1>10, <2>1, Zenon DEF CoinbaseRecord, ReadRecord
<1> HIDE DEF cb
<1>12. ReadCoinbase(tokens) = {cb}
  <2>1. read = ReadOuts(tokens, at + len + 5, tokens[at + len + 4].byte)
    BY <1>7, <1>9
  <2>2. tail = SubSeq(tokens, read.next, Len(tokens))
    BY <1>8, <1>10
  <2>3. at = (IF tokens[2] = Byte(0) THEN 4 ELSE 2) /\ len = tokens[at + 2].byte
    BY <1>6, <1>7
  <2> HIDE DEF len
  <2> QED
    <3>1. Reads(tokens, at, len, read, tail, cb)
      BY <1>5, <1>11, <2>1, <2>2, <2>3 DEF Reads
    <3> QED
      BY <3>1, ReadingIs
<1> QED
  BY <1>12 DEF tokens, cb

(* The two parts of the pool, and the extranonces between them.            *)
CoinbaseScript(height, extra) == Cat(EncodeBip34Height(height), extra)

LEMMA PaidTexts ==
    ASSUME NEW T, IsTokens(T), NEW cfg, NEW value, NEW commitment, Payable(cfg, value, commitment, T)
    PROVE  /\ Len(OutStrings(cfg, value, commitment)) = Len(PaidOuts(cfg, value, commitment))
           /\ Len(PaidOuts(cfg, value, commitment)) \in Nat
           /\ Joined(OutStrings(cfg, value, commitment)) = Joined(OutTexts(PaidOuts(cfg, value, commitment)))
           /\ Joined(OutTexts(PaidOuts(cfg, value, commitment))) \in Seq(T)
<1> DEFINE outs == PaidOuts(cfg, value, commitment)
           strings == OutStrings(cfg, value, commitment)
<1>1. /\ outs \in Outs(T) /\ Len(outs) \in 1 .. 3 /\ Len(strings) = Len(outs)
      /\ \A i \in 1 .. Len(outs) : strings[i] = Output(outs[i].value, outs[i].script)
  BY PaidOutsType
<1> HIDE DEF outs, strings
<1>2. /\ Len(outs) \in Nat /\ Len(OutTexts(outs)) = Len(outs)
      /\ \A i \in 1 .. Len(outs) : OutTexts(outs)[i] = Output(outs[i].value, outs[i].script)
      /\ Joined(OutTexts(outs)) \in Seq(T)
  BY <1>1, OutTextsType
<1>3. Joined(strings) = Joined(OutTexts(outs))
  <2>1. Len(strings) \in Nat /\ Len(OutTexts(outs)) = Len(strings)
    BY <1>1, <1>2
  <2>2. \A i \in 1 .. Len(strings) : strings[i] = OutTexts(outs)[i]
    BY <1>1, <1>2
  <2> QED
    BY <2>1, <2>2, JoinedSame
<1> QED
  BY <1>1, <1>2, <1>3 DEF outs, strings

MinedCoinbase(height, extra, cfg, value, commitment) ==
    LET parts == BuildCoinbaseTransaction(cfg, height, value, commitment)
    IN  parts.coinb1 \o extra \o parts.coinb2

LEMMA CoinbaseIsBuilt ==
    ASSUME NEW T, IsTokens(T), Field("nullOutpoint") \in T,
           NEW height \in Nat \ {0}, NEW extra \in Seq(T), Len(extra) = 2,
           NEW cfg, NEW value, NEW commitment, Payable(cfg, value, commitment, T)
    PROVE  MinedCoinbase(height, extra, cfg, value, commitment)
             = CoinbaseText(<< >>, CoinbaseScript(height, extra), PaidOuts(cfg, value, commitment))
<1> DEFINE parts == BuildCoinbaseTransaction(cfg, height, value, commitment)
           outs == PaidOuts(cfg, value, commitment)
           strings == OutStrings(cfg, value, commitment)
           push == EncodeBip34Height(height)
           script == Cat(push, extra)
           f == <<Field("version"), Byte(1), Field("nullOutpoint"), Byte(Len(push) + 2)>>
           k == <<Field("sequence"), Byte(Len(strings))>>
           j == Joined(strings)
           y == Cat(k, Cat(j, Lock))
<1>1. Len(strings) = Len(outs) /\ Len(outs) \in Nat /\ j = Joined(OutTexts(outs)) /\ j \in Seq(T)
  <2>1. /\ Len(strings) = Len(outs) /\ Len(outs) \in Nat /\ Joined(strings) = Joined(OutTexts(outs))
        /\ Joined(OutTexts(outs)) \in Seq(T)
    BY PaidTexts
  <2> HIDE DEF strings, outs
  <2> QED
    BY <2>1
<1>2. push \in Seq(T) /\ Len(push) \in Nat
  <2>1. push \in Seq(T)
    BY HeightIsPushed
  <2> HIDE DEF push
  <2> QED
    BY <2>1
<1>3. parts.coinb1 = Cat(f, push) /\ parts.coinb2 = Cat(Cat(k, j), Lock)
  <2>1. parts.coinb1 = <<Field("version"), Byte(1), Field("nullOutpoint"), Byte(Len(push) + 2)>> \o push
    BY DEF BuildCoinbaseTransaction
  <2>2. parts.coinb2 = <<Field("sequence"), Byte(Len(strings))>> \o Joined(strings) \o <<Field("locktime")>>
    BY DEF BuildCoinbaseTransaction, OutStrings
  <2> HIDE DEF parts, push, strings
  <2> QED
    BY <2>1, <2>2 DEF Cat, Lock
<1> HIDE DEF parts, outs, strings, push
<1>4. f \in Seq(T) /\ k \in Seq(T) /\ Lock \in Seq(T)
  <2>1. /\ Byte(1) \in T /\ Byte(Len(push) + 2) \in T /\ Byte(Len(strings)) \in T
        /\ Field("version") \in T /\ Field("sequence") \in T /\ Field("locktime") \in T
    <3>1. Len(push) + 2 \in Nat /\ Len(strings) \in Nat
      BY <1>1, <1>2
    <3> QED
      BY <3>1, TokensAre
  <2> QED
    BY <2>1 DEF Lock
<1>5. script \in Seq(T) /\ Len(script) = Len(push) + 2
  <2>1. push \o extra \in Seq(T) /\ Len(push \o extra) = Len(push) + Len(extra)
    BY <1>2, ConcatLength
  <2> QED
    BY <2>1 DEF Cat
<1>6. Front(<< >>, Len(script)) = f
  <2>1. Front(<< >>, Len(script)) = Cat(Cat(<<Field("version")>>, << >>), <<Byte(1), Field("nullOutpoint"), Byte(Len(script))>>)
    BY DEF Front, Cat
  <2>2. Cat(<<Field("version")>>, << >>) = <<Field("version")>>
    BY NoneOf
  <2> DEFINE a == Field("version")
             b == Byte(1)
             c == Field("nullOutpoint")
             d == Byte(Len(script))
  <2> HIDE DEF a, b, c, d
  <2>3. Cat(<<a>>, <<b, c, d>>) = <<a, b, c, d>>
    BY OneAndThree
  <2>4. Front(<< >>, Len(script)) = <<a, b, c, d>>
    BY <2>1, <2>2, <2>3 DEF a, b, c, d
  <2> QED
    BY <1>5, <2>4 DEF a, b, c, d
<1>7. CoinbaseText(<< >>, script, outs) = Cat(f, Cat(script, y))
  <2>1. CoinbaseText(<< >>, script, outs) = Text(<< >>, script, Len(outs), Joined(OutTexts(outs)), Lock)
    BY DEF CoinbaseText, CoinbaseTail
  <2> HIDE DEF f, script
  <2>2. Text(<< >>, script, Len(outs), j, Lock) =
          f \o (script \o (<<Field("sequence"), Byte(Len(outs))>> \o (j \o Lock)))
    BY <1>6 DEF Text
  <2> QED
    BY <1>1, <2>1, <2>2 DEF Cat
<1> HIDE DEF f, k, j, script
<1>8. y \in Seq(T) /\ Cat(k, Cat(j, Lock)) = Cat(Cat(k, j), Lock)
  <2>1. Cat(j, Lock) \in Seq(T)
    BY <1>1, <1>4, CatType
  <2>2. y \in Seq(T)
    BY <1>4, <2>1, CatType
  <2>3. Cat(Cat(k, j), Lock) = Cat(k, Cat(j, Lock))
    BY <1>1, <1>4, ConcatAssoc
  <2> QED
    BY <2>2, <2>3
<1> HIDE DEF y
<1>9. Cat(Cat(Cat(f, push), extra), y) = Cat(f, Cat(Cat(push, extra), y))
  <2>1. Cat(Cat(Cat(f, push), extra), y) = Cat(f, Cat(push, Cat(extra, y)))
    BY <1>2, <1>4, <1>8, Shift2
  <2>2. Cat(Cat(push, extra), y) = Cat(push, Cat(extra, y))
    BY <1>2, <1>8, ConcatAssoc
  <2> QED
    BY <2>1, <2>2
<1>10. parts.coinb1 \o extra \o parts.coinb2 = Cat(Cat(Cat(f, push), extra), y)
  <2>1. parts.coinb1 \o extra \o parts.coinb2 = Cat(Cat(parts.coinb1, extra), parts.coinb2)
    BY DEF Cat
  <2>2. parts.coinb2 = y
    BY <1>3, <1>8 DEF y
  <2> QED
    BY <1>3, <2>1, <2>2
<1>11. parts.coinb1 \o extra \o parts.coinb2 = CoinbaseText(<< >>, script, outs)
  BY <1>7, <1>9, <1>10 DEF script
<1> QED
  BY <1>11 DEF MinedCoinbase, CoinbaseScript, script, outs, parts, push

(* What the node asks of the coinbase alone.                               *)
LEMMA FeeIsInReward ==
    ASSUME NEW cfg, NEW value \in Nat, IsFraction(cfg.feePercent), AtMost(cfg.feePercent, 100)
    PROVE  MinerSatoshis(cfg, value) >= 0 /\ FeeSatoshis(cfg, value) >= 0
<1> DEFINE fee == FeeSatoshis(cfg, value)
<1>1. fee \in 0 .. value
  BY FeeIsNearlyExact
<1>2. MinerSatoshis(cfg, value) = value - fee
  BY DEF MinerSatoshis
<1> HIDE DEF fee
<1>3. MinerSatoshis(cfg, value) >= 0 /\ fee >= 0
  BY <1>1, <1>2
<1> QED
  BY <1>3 DEF fee

LEMMA ElementsOf ==
    ASSUME NEW a, NEW b, NEW c, NEW s, NEW i \in 1 .. Len(s)
    PROVE  /\ s = <<a>> => s[i] = a
           /\ s = <<a, b>> => s[i] = a \/ (i = Len(s) /\ s[i] = b)
           /\ s = <<a, b, c>> => s[i] = a \/ s[i] = b \/ (i = Len(s) /\ s[i] = c)
<1>1. ASSUME s = <<a>> PROVE s[i] = a
  <2>1. Len(s) = 1 /\ s[1] = a
    BY <1>1
  <2>2. i = 1
    BY <2>1
  <2> QED
    BY <2>1, <2>2
<1>2. ASSUME s = <<a, b>> PROVE s[i] = a \/ (i = Len(s) /\ s[i] = b)
  <2>1. Len(s) = 2 /\ s[1] = a /\ s[2] = b
    BY <1>2
  <2>2. i = 1 \/ i = 2
    BY <2>1
  <2> QED
    BY <2>1, <2>2
<1>3. ASSUME s = <<a, b, c>> PROVE s[i] = a \/ s[i] = b \/ (i = Len(s) /\ s[i] = c)
  <2>1. Len(s) = 3 /\ s[1] = a /\ s[2] = b /\ s[3] = c
    BY <1>3
  <2>2. i = 1 \/ i = 2 \/ i = 3
    BY <2>1
  <2> QED
    BY <2>1, <2>2
<1> QED
  BY <1>1, <1>2, <1>3, Zenon

LEMMA PaidOutsEach ==
    ASSUME NEW cfg, NEW value, NEW commitment, NEW i \in 1 .. Len(PaidOuts(cfg, value, commitment))
    PROVE  LET out == PaidOuts(cfg, value, commitment)[i] fee == FeeSatoshis(cfg, value)
           IN  \/ out = Out(MinerSatoshis(cfg, value), AddressToScriptPubKey(cfg.walletAddress))
               \/ fee > 0 /\ out = Out(fee, AddressToScriptPubKey(cfg.feeAddress))
               \/ commitment # {} /\ i = Len(PaidOuts(cfg, value, commitment)) /\ out = Out(0, Some(commitment))
<1> DEFINE fee    == FeeSatoshis(cfg, value)
           miner  == Out(MinerSatoshis(cfg, value), AddressToScriptPubKey(cfg.walletAddress))
           pool   == Out(fee, AddressToScriptPubKey(cfg.feeAddress))
           commit == Out(0, Some(commitment))
           outs   == PaidOuts(cfg, value, commitment)
<1>1. /\ ~(fee > 0) /\ commitment = {} => outs = <<miner>>
      /\ fee > 0 /\ commitment = {} => outs = <<miner, pool>>
      /\ ~(fee > 0) /\ commitment # {} => outs = <<miner, commit>>
      /\ fee > 0 /\ commitment # {} => outs = <<miner, pool, commit>>
  BY PaidOutsOf
<1>2. i \in 1 .. Len(outs)
  OBVIOUS
<1> DEFINE positive == fee > 0
<1> HIDE DEF fee, miner, pool, commit, outs
<1>3. outs[i] = miner \/ (positive /\ outs[i] = pool) \/ (commitment # {} /\ i = Len(outs) /\ outs[i] = commit)
  <2>1. /\ outs = <<miner>> => outs[i] = miner
        /\ outs = <<miner, pool>> => outs[i] = miner \/ (i = Len(outs) /\ outs[i] = pool)
        /\ outs = <<miner, pool, commit>> =>
              outs[i] = miner \/ outs[i] = pool \/ (i = Len(outs) /\ outs[i] = commit)
    BY <1>2, ElementsOf
  <2>2. outs = <<miner, commit>> => outs[i] = miner \/ (i = Len(outs) /\ outs[i] = commit)
    BY <1>2, ElementsOf
  <2> QED
    BY <1>1, <2>1, <2>2, Zenon
<1> QED
  BY <1>3 DEF fee, miner, pool, commit, outs

LEMMA PaidOutsLast ==
    ASSUME NEW T, NEW cfg, NEW value, NEW commitment, Payable(cfg, value, commitment, T), commitment # {}
    PROVE  LET outs == PaidOuts(cfg, value, commitment)
           IN  Len(outs) \in 1 .. Len(outs) /\ outs[Len(outs)].script = Some(commitment)
<1>1. Len(PaidOuts(cfg, value, commitment)) \in 1 .. 3
  BY PaidOutsType
<1>2. PaidOuts(cfg, value, commitment)[Len(PaidOuts(cfg, value, commitment))].script = Some(commitment)
  BY PaidOutsAre
<1> QED
  BY <1>1, <1>2

(* The scripts of the addresses and of the commitment are short.           *)
ShortScripts(cfg, commitment) ==
    /\ CompactLimit > 3
    /\ Len(AddressToScriptPubKey(cfg.walletAddress)) < CompactLimit
    /\ cfg.feeAddress # NoAddress => Len(AddressToScriptPubKey(cfg.feeAddress)) < CompactLimit
    /\ commitment # {} => Len(Some(commitment)) < CompactLimit

LEMMA PaidOutsShort ==
    ASSUME NEW T, NEW cfg, NEW value, NEW commitment, Payable(cfg, value, commitment, T),
           ShortScripts(cfg, commitment)
    PROVE  LET outs == PaidOuts(cfg, value, commitment)
           IN  /\ outs \in Outs(T) /\ Len(outs) \in 1 .. 3 /\ Len(outs) < CompactLimit
               /\ \A i \in 1 .. Len(outs) : Len(outs[i].script) < CompactLimit
<1> DEFINE outs == PaidOuts(cfg, value, commitment)
           fee == FeeSatoshis(cfg, value)
<1>1. outs \in Outs(T) /\ Len(outs) \in 1 .. 3
  BY PaidOutsType
<1>2. Len(outs) < CompactLimit
  <2>1. CompactLimit > 3 /\ CompactLimit \in Nat
    BY CompactAssumption DEF ShortScripts
  <2>2. Len(outs) \in 1 .. 3
    BY <1>1
  <2> DEFINE n == Len(outs)
  <2>3. n \in 1 .. 3
    BY <2>2
  <2> HIDE DEF n
  <2>4. n < CompactLimit
    BY <2>1, <2>3
  <2> QED
    BY <2>4 DEF n
<1>3. fee > 0 => cfg.feeAddress # NoAddress
  BY FeeIsRounded DEF Payable
<1>4. ASSUME NEW i \in 1 .. Len(outs)
      PROVE  Len(outs[i].script) < CompactLimit
  <2>1. \/ outs[i] = Out(MinerSatoshis(cfg, value), AddressToScriptPubKey(cfg.walletAddress))
        \/ fee > 0 /\ outs[i] = Out(fee, AddressToScriptPubKey(cfg.feeAddress))
        \/ commitment # {} /\ outs[i] = Out(0, Some(commitment))
    BY PaidOutsEach
  <2>2. \A v, s : Out(v, s).script = s
    BY DEF Out
  <2> HIDE DEF outs, fee
  <2>3. \/ outs[i].script = AddressToScriptPubKey(cfg.walletAddress)
        \/ fee > 0 /\ outs[i].script = AddressToScriptPubKey(cfg.feeAddress)
        \/ commitment # {} /\ outs[i].script = Some(commitment)
    BY <2>1, <2>2
  <2> QED
    BY <1>3, <2>3, Zenon DEF ShortScripts
<1> QED
  BY <1>1, <1>2, <1>4

LEMMA PaidOutsPositive ==
    ASSUME NEW cfg, NEW value \in Nat, IsFraction(cfg.feePercent), AtMost(cfg.feePercent, 100), NEW commitment,
           NEW i \in 1 .. Len(PaidOuts(cfg, value, commitment))
    PROVE  PaidOuts(cfg, value, commitment)[i].value >= 0
<1> DEFINE out == PaidOuts(cfg, value, commitment)[i]
           fee == FeeSatoshis(cfg, value)
           rest == MinerSatoshis(cfg, value)
<1>1. fee >= 0 /\ rest >= 0
  BY FeeIsInReward
<1>2. \/ out = Out(rest, AddressToScriptPubKey(cfg.walletAddress))
      \/ fee > 0 /\ out = Out(fee, AddressToScriptPubKey(cfg.feeAddress))
      \/ commitment # {} /\ out = Out(0, Some(commitment))
  BY PaidOutsEach
<1>3. \A v, s : Out(v, s).value = v
  BY DEF Out
<1> HIDE DEF out, fee, rest
<1>4. out.value = rest \/ out.value = fee \/ out.value = 0
  BY <1>2, <1>3
<1>5. out.value >= 0
  BY <1>1, <1>4
<1> QED
  BY <1>5 DEF out

(* The middle of three parts is what the node cuts out.                    *)
MiddleOf(body, front, back) == SubSeq(body, Len(front) + 1, Len(body) - Len(back))

LEMMA MiddleIsCut ==
    ASSUME NEW T, NEW front \in Seq(T), NEW mid \in Seq(T), NEW back \in Seq(T),
           NEW body, body = Cat(Cat(front, mid), back)
    PROVE  /\ body \in Seq(T)
           /\ MiddleOf(body, front, back) = mid
<1> DEFINE fm == Cat(front, mid)
<1>1. fm \in Seq(T) /\ Len(fm) = Len(front) + Len(mid) /\ Len(front) \in Nat /\ Len(mid) \in Nat /\ Len(back) \in Nat
  BY ConcatLength DEF Cat
<1>2. body = fm \o back
  BY DEF Cat
<1> HIDE DEF fm
<1>3. body \in Seq(T) /\ Len(body) = Len(fm) + Len(back)
  BY <1>1, <1>2, ConcatLength
<1>4. 1 \in Nat \ {0} /\ 1 + Len(front) \in Nat \ {0}
  BY <1>1
<1>5. At(body, 1, fm)
  <2>1. At(body, 1, fm \o back)
    BY <1>2, <1>3, AtItself
  <2> QED
    BY <1>1, <1>3, <1>4, <2>1, AtConcatenation
<1>6. At(body, 1 + Len(front), mid)
  <2>1. At(body, 1, front \o mid)
    BY <1>5 DEF fm, Cat
  <2> QED
    BY <1>3, <1>4, <2>1, AtConcatenation
<1>7. SubSeq(body, 1 + Len(front), 1 + Len(front) + Len(mid) - 1) = mid
  BY <1>3, <1>4, <1>6, SubSeqAt
<1>8. 1 + Len(front) = Len(front) + 1 /\ 1 + Len(front) + Len(mid) - 1 = Len(body) - Len(back)
  BY <1>1, <1>3
<1> QED
  BY <1>3, <1>7, <1>8 DEF MiddleOf

UpTo(s, n) == [i \in 1 .. n |-> s[i]]

(* A sequence of sets of one element each, none empty.                     *)
LEMMA AllPresent ==
    ASSUME NEW T, NEW sets, Len(sets) \in Nat, NEW of,
           \A i \in 1 .. Len(sets) : of[i] \in T /\ sets[i] = {of[i]}
    PROVE  Present(sets) = UpTo(of, Len(sets))
<1> DEFINE n == Len(sets)
           parts == [i \in 1 .. n |-> IF sets[i] = {} THEN << >> ELSE <<Some(sets[i])>>]
           S == {k \in 0 .. n : JoinSteps(parts)[k] = [i \in 1 .. k |-> of[i]]}
<1>1. n \in Nat
  OBVIOUS
<1>2. Len(parts) = n
  BY <1>1
<1>3. \A i \in 1 .. n : parts[i] = <<of[i]>>
  <2> TAKE i \in 1 .. n
  <2>1. sets[i] = {of[i]} /\ sets[i] # {}
    OBVIOUS
  <2>2. Some(sets[i]) = of[i]
    BY <2>1 DEF Some
  <2> QED
    BY <2>1, <2>2
<1>4. Present(sets) = Joined(parts)
  BY DEF Present
<1>5. \A i \in 1 .. n : of[i] \in T
  OBVIOUS
<1> HIDE DEF n, parts
<1>6. /\ JoinSteps(parts)[0] = << >>
      /\ \A i \in 1 .. n : JoinSteps(parts)[i] = JoinSteps(parts)[i - 1] \o parts[i]
      /\ Joined(parts) = JoinSteps(parts)[n]
  BY <1>1, <1>2, JoinStepsUnfold
<1>7. 0 \in S
  <2>1. [i \in 1 .. 0 |-> of[i]] = << >>
    OBVIOUS
  <2> QED
    BY <1>1, <1>6, <2>1
<1>8. ASSUME NEW k \in 0 .. n - 1, k \in S
      PROVE  k + 1 \in S
  <2> DEFINE upto == [i \in 1 .. k |-> of[i]]
             next == [i \in 1 .. k + 1 |-> of[i]]
  <2>1. k + 1 \in 1 .. n /\ (k + 1) - 1 = k /\ k + 1 \in 0 .. n /\ k \in Nat
    BY <1>1
  <2>2. JoinSteps(parts)[k + 1] = JoinSteps(parts)[k] \o parts[k + 1]
    BY <1>6, <2>1, Zenon
  <2>3. JoinSteps(parts)[k + 1] = upto \o <<of[k + 1]>>
    BY <1>3, <1>8, <2>1, <2>2
  <2>4. upto \o <<of[k + 1]>> = Append(upto, of[k + 1])
    <3>1. \A i \in 1 .. k : of[i] \in T
      BY <1>1, <1>5
    <3>2. upto \in Seq(T) /\ of[k + 1] \in T
      BY <1>5, <2>1, <3>1
    <3> HIDE DEF upto
    <3> QED
      BY <3>2, AppendIsConcat
  <2>5. Append(upto, of[k + 1]) = next
    BY <2>1, AppendedUpTo
  <2>6. JoinSteps(parts)[k + 1] = next
    BY <2>3, <2>4, <2>5
  <2> QED
    BY <2>1, <2>6
<1>9. n \in S
  <2>1. 0 .. n \subseteq S /\ n \in 0 .. n
    <3> HIDE DEF S
    <3>1. 0 .. n \subseteq S
      BY <1>1, <1>7, <1>8, BoundedInduction
    <3> QED
      BY <1>1, <3>1
  <2> HIDE DEF S
  <2> QED
    BY <2>1
<1> QED
  BY <1>4, <1>6, <1>9 DEF n, UpTo

(* Entries with the data of their transactions, from which the txids they  *)
(* lack can be computed.                                                   *)
Offered(entries, txs, T) ==
    /\ IsTokens(T) /\ txs \in Seq(Transactions(T)) /\ Len(entries) = Len(txs)
    /\ \A i \in 1 .. Len(txs) :
        /\ entries[i].data = {Serialised(txs[i])}
        /\ \/ entries[i].txid = {Txid(txs[i])}
           \/ entries[i].txid = {} /\ txs[i].foreign = << >>

SerialisedTxs(txs) == [i \in 1 .. Len(txs) |-> Serialised(txs[i])]
Txids(txs) == [i \in 1 .. Len(txs) |-> Txid(txs[i])]
Wtxids(txs) == [i \in 1 .. Len(txs) |-> Wtxid(txs[i])]

LEMMA OfferedTxs ==
    ASSUME NEW entries, NEW txs, NEW T, Offered(entries, txs, T)
    PROVE  /\ Len(txs) \in Nat /\ Len(entries) = Len(txs)
           /\ \A i \in 1 .. Len(txs) :
                /\ txs[i] \in Transactions(T)
                /\ Serialised(txs[i]) \in Seq(T) /\ Len(Serialised(txs[i])) >= 4
                /\ Marked(Serialised(txs[i])) <=> txs[i].stacks # << >>
<1>1. txs \in Seq(Transactions(T)) /\ IsTokens(T) /\ Len(entries) = Len(txs)
  BY DEF Offered
<1>2. Len(txs) \in Nat
  <2> DEFINE S == Transactions(T)
  <2> HIDE DEF S
  <2>1. txs \in Seq(S)
    BY <1>1 DEF S
  <2> QED
    BY <2>1
<1>3. \A i \in 1 .. Len(txs) : txs[i] \in Transactions(T)
  BY <1>1, ElementOfSeq
<1> QED
  BY <1>1, <1>2, <1>3, MarkedIsWitness

LEMMA DataAreOffered ==
    ASSUME NEW entries, NEW txs, NEW T, Offered(entries, txs, T)
    PROVE  TxsData(entries) = SerialisedTxs(txs)
<1> DEFINE sets == [i \in 1 .. Len(entries) |-> entries[i].data]
           of == SerialisedTxs(txs)
           S == {Serialised(txs[i]) : i \in 1 .. Len(txs)}
<1>1. Len(txs) \in Nat /\ Len(entries) = Len(txs)
  BY OfferedTxs
<1>2. Len(sets) = Len(txs)
  BY <1>1
<1>3. \A i \in 1 .. Len(txs) : sets[i] = {of[i]} /\ of[i] \in S
  BY <1>1 DEF Offered, SerialisedTxs
<1>4. TxsData(entries) = Present(sets)
  BY DEF TxsData
<1>5. of = [i \in 1 .. Len(txs) |-> of[i]]
  BY DEF SerialisedTxs
<1> HIDE DEF sets, of, S
<1>6. Present(sets) = UpTo(of, Len(sets))
  <2>1. Len(sets) \in Nat /\ \A i \in 1 .. Len(sets) : of[i] \in S /\ sets[i] = {of[i]}
    BY <1>1, <1>2, <1>3
  <2> QED
    BY <2>1, AllPresent
<1> QED
  BY <1>2, <1>4, <1>5, <1>6 DEF of, UpTo

LEMMA LeavesAreTxids ==
    ASSUME NEW entries, NEW txs, NEW T, Offered(entries, txs, T)
    PROVE  Leaves(entries) = Txids(txs) /\ IsSeq(Leaves(entries))
<1> DEFINE sets == [i \in 1 .. Len(entries) |-> Leaf(entries[i])]
           of == Txids(txs)
           S == {Txid(txs[i]) : i \in 1 .. Len(txs)}
<1>1. Len(txs) \in Nat /\ Len(entries) = Len(txs) /\ \A i \in 1 .. Len(txs) : txs[i] \in Transactions(T)
  BY OfferedTxs
<1>2. Len(sets) = Len(txs)
  BY <1>1
<1>3. ASSUME NEW i \in 1 .. Len(txs)
      PROVE  Leaf(entries[i]) = {Txid(txs[i])}
  <2> DEFINE entry == entries[i]
             tx == txs[i]
  <2>1. /\ entry.data = {Serialised(tx)}
        /\ entry.txid = {Txid(tx)} \/ (entry.txid = {} /\ tx.foreign = << >>)
        /\ IsTokens(T) /\ tx \in Transactions(T)
    BY <1>1 DEF Offered
  <2> HIDE DEF entry, tx
  <2>2. CASE entry.txid = {Txid(tx)}
    <3>1. entry.txid # {}
      BY <2>2
    <3> QED
      BY <2>2, <3>1 DEF Leaf, entry, tx
  <2>3. CASE entry.txid = {} /\ tx.foreign = << >>
    <3>1. TxidFromData(Serialised(tx)) = {Txid(tx)}
      BY <2>1, <2>3, TxidIsRead
    <3>2. UNION {TxidFromData(d) : d \in entry.data} = {Txid(tx)}
      BY <2>1, <3>1
    <3>3. {Txid(tx)} # {}
      OBVIOUS
    <3>4. Leaf(entry) = {Txid(tx)}
      BY <2>3, <3>2, <3>3, Zenon DEF Leaf
    <3> QED
      BY <3>4 DEF entry, tx
  <2> QED
    BY <2>1, <2>2, <2>3
<1>4. \A i \in 1 .. Len(txs) : sets[i] = {of[i]} /\ of[i] \in S
  BY <1>1, <1>3 DEF Txids
<1>5. Leaves(entries) = Present(sets)
  BY DEF Leaves
<1>6. of = [i \in 1 .. Len(txs) |-> of[i]]
  BY DEF Txids
<1> HIDE DEF sets, of, S
<1>7. Present(sets) = UpTo(of, Len(sets))
  <2>1. Len(sets) \in Nat /\ \A i \in 1 .. Len(sets) : of[i] \in S /\ sets[i] = {of[i]}
    BY <1>1, <1>2, <1>4
  <2> QED
    BY <2>1, AllPresent
<1>8. Leaves(entries) = of
  BY <1>2, <1>5, <1>6, <1>7 DEF UpTo
<1>9. IsSeq(of)
  BY <1>1, <1>6, FunctionIsSeq
<1> QED
  BY <1>8, <1>9 DEF of

LEMMA WtxidsAreTaken ==
    ASSUME NEW entries, NEW txs, NEW T, Offered(entries, txs, T)
    PROVE  LET data == SerialisedTxs(txs)
           IN  Present([i \in 1 .. Len(data) |-> TxWitnessHash(data[i])]) = Wtxids(txs)
<1> DEFINE data == SerialisedTxs(txs)
           sets == [i \in 1 .. Len(data) |-> TxWitnessHash(data[i])]
           of == Wtxids(txs)
           S == {Wtxid(txs[i]) : i \in 1 .. Len(txs)}
<1>1. Len(txs) \in Nat /\ \A i \in 1 .. Len(txs) : Serialised(txs[i]) \in Seq(T) /\ Len(Serialised(txs[i])) >= 4
  BY OfferedTxs
<1>2. Len(data) = Len(txs) /\ \A i \in 1 .. Len(txs) : data[i] = Serialised(txs[i])
  BY <1>1 DEF SerialisedTxs
<1> HIDE DEF data
<1>3. Len(sets) = Len(txs)
  BY <1>1, <1>2
<1>4. ASSUME NEW i \in 1 .. Len(txs)
      PROVE  sets[i] = {of[i]} /\ of[i] \in S
  <2>1. sets[i] = TxWitnessHash(Serialised(txs[i]))
    BY <1>2
  <2>2. Serialised(txs[i]) # << >>
    <3> DEFINE raw == Serialised(txs[i])
    <3>1. Len(raw) >= 4
      BY <1>1
    <3> HIDE DEF raw
    <3>2. raw # << >>
      BY <3>1
    <3> QED
      BY <3>2 DEF raw
  <2>3. TxWitnessHash(Serialised(txs[i])) = {Wtxid(txs[i])}
    BY <2>2, Zenon DEF TxWitnessHash, Wtxid
  <2>4. of[i] = Wtxid(txs[i])
    BY DEF Wtxids
  <2> QED
    BY <2>1, <2>3, <2>4
<1>5. of = [i \in 1 .. Len(txs) |-> of[i]]
  BY DEF Wtxids
<1> HIDE DEF sets, of, S
<1>6. Present(sets) = UpTo(of, Len(sets))
  <2>1. Len(sets) \in Nat /\ \A i \in 1 .. Len(sets) : of[i] \in S /\ sets[i] = {of[i]}
    BY <1>1, <1>3, <1>4
  <2> QED
    BY <2>1, AllPresent
<1>7. Present(sets) = of
  BY <1>3, <1>5, <1>6 DEF UpTo
<1> QED
  BY <1>7 DEF of, sets, data

WitnessRoot(txs) == RootOf(<<Zeros32>> \o Wtxids(txs))
CommitmentTo(root) == <<Field("6a24aa21a9ed"), Sha256d(<<root, Zeros32>>)>>

(* The commitment that is computed is the one the node computes.           *)
LEMMA CommitmentIsRight ==
    ASSUME NEW entries, NEW txs, NEW T, Offered(entries, txs, T)
    PROVE  WitnessCommitmentScript(TxsData(entries)) = CommitmentTo(WitnessRoot(txs))
<1> DEFINE data == SerialisedTxs(txs)
           wtxids == Wtxids(txs)
           hashes == <<Zeros32>> \o wtxids
<1>1. TxsData(entries) = data
  BY DataAreOffered
<1>2. Present([i \in 1 .. Len(data) |-> TxWitnessHash(data[i])]) = wtxids
  BY WtxidsAreTaken
<1>3. IsSeq(wtxids)
  <2>1. Len(txs) \in Nat /\ wtxids = [i \in 1 .. Len(txs) |-> wtxids[i]]
    <3>1. Len(txs) \in Nat
      BY OfferedTxs
    <3> QED
      BY <3>1 DEF Wtxids
  <2> HIDE DEF wtxids
  <2> QED
    BY <2>1, FunctionIsSeq
<1> HIDE DEF data, wtxids
<1>4. MerkleRoot(hashes) = RootOf(hashes)
  <2>1. IsSeq(hashes) /\ Len(hashes) = Len(wtxids) + 1
    BY <1>3, Prepended
  <2>2. hashes # << >>
    <3> HIDE DEF hashes
    <3>1. Len(wtxids) \in Nat
      BY <1>3 DEF IsSeq
    <3>2. Len(hashes) # 0
      BY <2>1, <3>1
    <3> QED
      BY <2>1, <3>2, EmptyHasNoLength
  <2> HIDE DEF hashes
  <2> QED
    BY <2>1, <2>2, MerkleRootIsRoot
<1>5. WitnessCommitmentScript(data) = <<WitnessCommitmentHeader, Sha256d(<<MerkleRoot(hashes), Zeros32>>)>>
  BY <1>2, Zenon DEF WitnessCommitmentScript, witnessReservedValue
<1>6. WitnessCommitmentScript(data) = <<WitnessCommitmentHeader, Sha256d(<<RootOf(hashes), Zeros32>>)>>
  BY <1>4, <1>5, Zenon
<1> QED
  BY <1>1, <1>6, Zenon DEF CommitmentTo, WitnessRoot, WitnessCommitmentHeader, wtxids

(* Without a commitment there is no witness.                               *)
LEMMA NoCommitmentNoWitness ==
    ASSUME NEW entries, NEW txs, NEW T, Offered(entries, txs, T), NEW given,
           EffectiveWitnessCommitment(given, TxsData(entries)) = {}
    PROVE  \A i \in 1 .. Len(txs) : txs[i].stacks = << >>
<1> DEFINE data == SerialisedTxs(txs)
<1>1. TxsData(entries) = data
  BY DataAreOffered
<1>2. Len(data) = Len(txs) /\ \A i \in 1 .. Len(txs) : data[i] = Serialised(txs[i])
  <2>1. Len(txs) \in Nat
    BY OfferedTxs
  <2> QED
    BY <2>1 DEF SerialisedTxs
<1> HIDE DEF data
<1>3. \A i \in 1 .. Len(data) : ~TxHasWitness(data[i])
  <2>1. EffectiveWitnessCommitment(given, data) = {}
    BY <1>1
  <2> QED
    BY <2>1, Zenon DEF EffectiveWitnessCommitment
<1>4. ASSUME NEW i \in 1 .. Len(txs)
      PROVE  txs[i].stacks = << >>
  <2>1. Len(Serialised(txs[i])) >= 4 /\ (Marked(Serialised(txs[i])) <=> txs[i].stacks # << >>)
        /\ Serialised(txs[i]) \in Seq(T)
    BY OfferedTxs
  <2>2. ~TxHasWitness(Serialised(txs[i]))
    BY <1>2, <1>3
  <2>3. Len(Serialised(txs[i])) >= 3
    <3> DEFINE n == Len(Serialised(txs[i]))
    <3>1. n \in Nat
      BY <2>1
    <3>2. n >= 4
      BY <2>1
    <3> HIDE DEF n
    <3>3. n >= 3
      BY <3>1, <3>2
    <3> QED
      BY <3>3 DEF n
  <2> QED
    BY <2>1, <2>2, <2>3, Zenon DEF TxHasWitness
<1> QED
  BY <1>4

(* Neither address stands for a commitment.                                *)
PlainScripts(cfg) ==
    /\ ~IsCommitment(AddressToScriptPubKey(cfg.walletAddress))
    /\ cfg.feeAddress # NoAddress => ~IsCommitment(AddressToScriptPubKey(cfg.feeAddress))

LEMMA OnlyCommitment ==
    ASSUME NEW cfg, NEW value, NEW commitment, IsFraction(cfg.feePercent), value \in Nat, PlainScripts(cfg),
           NEW i \in 1 .. Len(PaidOuts(cfg, value, commitment)),
           IsCommitment(PaidOuts(cfg, value, commitment)[i].script)
    PROVE  commitment # {} /\ PaidOuts(cfg, value, commitment)[i].script = Some(commitment)
<1> DEFINE out == PaidOuts(cfg, value, commitment)[i]
           fee == FeeSatoshis(cfg, value)
           rest == MinerSatoshis(cfg, value)
<1>1. \/ out = Out(rest, AddressToScriptPubKey(cfg.walletAddress))
      \/ fee > 0 /\ out = Out(fee, AddressToScriptPubKey(cfg.feeAddress))
      \/ commitment # {} /\ out = Out(0, Some(commitment))
  BY PaidOutsEach
<1>2. fee > 0 => cfg.feeAddress # NoAddress
  BY FeeIsRounded
<1>3. \A v, s : Out(v, s).script = s
  BY DEF Out
<1>4. IsCommitment(out.script)
  OBVIOUS
<1> HIDE DEF out, fee, rest
<1>5. \/ out.script = AddressToScriptPubKey(cfg.walletAddress)
      \/ fee > 0 /\ out.script = AddressToScriptPubKey(cfg.feeAddress)
      \/ commitment # {} /\ out.script = Some(commitment)
  BY <1>1, <1>3
<1>6. commitment # {} /\ out.script = Some(commitment)
  BY <1>2, <1>4, <1>5, Zenon DEF PlainScripts
<1> QED
  BY <1>6 DEF out

(* BIP141, as the node checks it of the coinbase.                          *)
LEMMA WitnessRulesHold ==
    ASSUME NEW entries, NEW txs, NEW T, Offered(entries, txs, T), NEW given, NEW C,
           NEW cfg, NEW value, NEW commitment, Payable(cfg, value, commitment, C), PlainScripts(cfg),
           commitment = EffectiveWitnessCommitment(given, TxsData(entries)),
           NEW script, NEW marker, marker = IF commitment = {} THEN << >> ELSE WitnessMarker
    PROVE  WitnessRules(CoinbaseRecord(script, PaidOuts(cfg, value, commitment), CoinbaseItems(marker)), txs)
<1> DEFINE outs == PaidOuts(cfg, value, commitment)
           items == CoinbaseItems(marker)
           cb == CoinbaseRecord(script, outs, items)
           marked == {i \in 1 .. Len(cb.outs) : IsCommitment(cb.outs[i].script)}
           root == WitnessRoot(txs)
<1>1. cb.outs = outs /\ cb.stacks = items
  BY DEF CoinbaseRecord
<1>2. value \in Nat /\ IsFraction(cfg.feePercent)
  BY DEF Payable
<1>3. \A i \in marked : commitment # {} /\ cb.outs[i].script = Some(commitment)
  <2> HIDE DEF cb
  <2> SUFFICES ASSUME NEW i \in marked
               PROVE  commitment # {} /\ cb.outs[i].script = Some(commitment)
    OBVIOUS
  <2>1. i \in 1 .. Len(outs) /\ IsCommitment(outs[i].script)
    BY <1>1
  <2>2. commitment # {} /\ outs[i].script = Some(commitment)
    BY <1>2, <2>1, OnlyCommitment
  <2> QED
    BY <1>1, <2>2
<1>4. [i \in 1 .. Len(txs) |-> Wtxid(txs[i])] = Wtxids(txs)
  BY DEF Wtxids
<1>5. RootOf(<<Zeros32>> \o [i \in 1 .. Len(txs) |-> Wtxid(txs[i])]) = root
  BY <1>4 DEF WitnessRoot
<1>6. WitnessRules(cb, txs) = IF marked = {}
                             THEN \A i \in 1 .. Len(txs) : txs[i].stacks = << >>
                             ELSE /\ cb.stacks = <<<<<<Zeros32>>>>>>
                                  /\ \A i \in marked : cb.outs[i].script[2] = Sha256d(<<root, Zeros32>>)
  <2> HIDE DEF cb, root
  <2> QED
    BY <1>5, Zenon DEF WitnessRules
<1>7. CASE commitment = {}
  <2>1. \A i \in 1 .. Len(txs) : txs[i].stacks = << >>
    BY <1>7, NoCommitmentNoWitness
  <2>2. marked = {}
    <3> HIDE DEF marked
    <3> QED
      BY <1>3, <1>7
  <2> HIDE DEF cb, marked
  <2> QED
    BY <1>6, <2>1, <2>2, Zenon DEF cb
<1>8. CASE commitment # {}
  <2>1. commitment = {CommitmentTo(root)}
    <3>1. commitment = {WitnessCommitmentScript(TxsData(entries))}
      BY <1>8, Zenon DEF EffectiveWitnessCommitment
    <3> QED
      BY <3>1, CommitmentIsRight
  <2>2. Some(commitment) = CommitmentTo(root)
    BY <2>1 DEF Some
  <2>3. CommitmentTo(root)[2] = Sha256d(<<root, Zeros32>>) /\ IsCommitment(CommitmentTo(root))
    BY DEF CommitmentTo, IsCommitment
  <2>4. \A i \in marked : cb.outs[i].script[2] = Sha256d(<<root, Zeros32>>)
    <3> HIDE DEF marked, cb, root
    <3> QED
      BY <1>3, <2>2, <2>3
  <2>5. marked # {}
    <3>1. Len(outs) \in 1 .. Len(outs) /\ outs[Len(outs)].script = Some(commitment)
      BY <1>8, PaidOutsLast
    <3> HIDE DEF outs, cb, root
    <3>2. Len(cb.outs) \in 1 .. Len(cb.outs) /\ IsCommitment(cb.outs[Len(cb.outs)].script)
      BY <1>1, <2>2, <2>3, <3>1
    <3>3. Len(cb.outs) \in marked
      BY <3>2
    <3> QED
      BY <3>3
  <2>6. items = <<<<<<Zeros32>>>>>>
    <3>1. WitnessMarker # << >>
      BY DEF WitnessMarker
    <3> QED
      BY <1>8, <3>1, Zenon DEF CoinbaseItems
  <2>7. cb.stacks = <<<<<<Zeros32>>>>>>
    BY <1>1, <2>6
  <2> HIDE DEF cb, marked, root
  <2> QED
    BY <1>6, <2>4, <2>5, <2>7, Zenon DEF cb
<1> QED
  BY <1>7, <1>8

(* The bytes of the block around those of its coinbase.                    *)
BodyOf(entries, coinbase) ==
    CompactSize(1 + Len(TxsData(entries))) \o coinbase \o Joined(TxsData(entries))

CountOf(txs) == CompactSize(1 + Len(txs))

LEMMA BodyIsCut ==
    ASSUME NEW entries, NEW txs, NEW T, Offered(entries, txs, T), NEW coinbase \in Seq(T),
           NEW count, count = CountOf(txs),
           NEW tail, tail = Joined(SerialisedTxs(txs)),
           NEW body, body = BodyOf(entries, coinbase)
    PROVE  /\ body = Cat(Cat(count, coinbase), tail)
           /\ MiddleOf(body, count, tail) = coinbase
<1> DEFINE data == SerialisedTxs(txs)
<1>1. TxsData(entries) = data
  BY DataAreOffered
<1>2. /\ Len(txs) \in Nat /\ \A i \in 1 .. Len(txs) : Serialised(txs[i]) \in Seq(T)
      /\ IsTokens(T)
  BY OfferedTxs DEF Offered
<1>3. Len(data) = Len(txs) /\ \A i \in 1 .. Len(txs) : data[i] = Serialised(txs[i])
  BY <1>2 DEF SerialisedTxs
<1>4. tail = Joined(data)
  OBVIOUS
<1> HIDE DEF data
<1>5. Joined(data) \in Seq(T)
  <2>1. Len(data) \in Nat /\ \A i \in 1 .. Len(data) : data[i] \in Seq(T)
    BY <1>2, <1>3
  <2> QED
    BY <2>1, JoinedType
<1>6. count \in Seq(T)
  <2>1. 1 + Len(txs) \in Nat
    BY <1>2
  <2> QED
    BY <1>2, <2>1, CompactSizeType DEF CountOf
<1>7. body = count \o coinbase \o tail
  BY <1>1, <1>3, <1>4 DEF BodyOf, CountOf
<1>8. body = Cat(Cat(count, coinbase), tail)
  BY <1>7 DEF Cat
<1>9. tail \in Seq(T)
  BY <1>4, <1>5
<1>10. MiddleOf(body, count, tail) = coinbase
  <2>1. count \in Seq(T) /\ tail \in Seq(T) /\ body = Cat(Cat(count, coinbase), tail)
    BY <1>6, <1>8, <1>9
  <2> QED
    BY <2>1, MiddleIsCut
<1> QED
  BY <1>8, <1>10

(* What is mined: the height, the extranonces, the reward, the addresses   *)
(* and the commitment of a job.                                            *)
Minable(height, extra, cfg, value, commitment, T) ==
    /\ IsTokens(T) /\ Field("nullOutpoint") \in T /\ Zeros32 \in T
    /\ height \in Nat \ {0} /\ extra \in Seq(T) /\ Len(extra) = 2
    /\ Len(EncodeBip34Height(height)) + 2 < CompactLimit
    /\ Payable(cfg, value, commitment, T) /\ ShortScripts(cfg, commitment)

LEMMA MinedIsShort ==
    ASSUME NEW height, NEW extra, NEW cfg, NEW value, NEW commitment, NEW T,
           Minable(height, extra, cfg, value, commitment, T)
    PROVE  IsShort(T, CoinbaseScript(height, extra), PaidOuts(cfg, value, commitment))
<1> DEFINE push == EncodeBip34Height(height)
           outs == PaidOuts(cfg, value, commitment)
           script == CoinbaseScript(height, extra)
<1>1. /\ IsTokens(T) /\ Field("nullOutpoint") \in T /\ Zeros32 \in T
      /\ height \in Nat \ {0} /\ extra \in Seq(T) /\ Len(extra) = 2
      /\ Len(push) + 2 < CompactLimit
      /\ Payable(cfg, value, commitment, T) /\ ShortScripts(cfg, commitment)
  BY DEF Minable
<1>2. push \in Seq(T)
  BY <1>1, HeightIsPushed
<1>3. /\ outs \in Outs(T) /\ Len(outs) \in 1 .. 3 /\ Len(outs) < CompactLimit
      /\ \A i \in 1 .. Len(outs) : Len(outs[i].script) < CompactLimit
  BY <1>1, PaidOutsShort
<1>4. script = push \o extra
  BY DEF CoinbaseScript, Cat
<1> HIDE DEF push, outs, script
<1>5. script \in Seq(T) /\ Len(script) = Len(push) + Len(extra)
  BY <1>1, <1>2, <1>4, ConcatLength
<1>6. Len(script) < CompactLimit
  BY <1>1, <1>5
<1>7. IsShort(T, script, outs)
  BY <1>1, <1>3, <1>5, <1>6, Zenon DEF IsShort
<1> QED
  BY <1>7 DEF script, outs

LEMMA MinedIsText ==
    ASSUME NEW height, NEW extra, NEW cfg, NEW value, NEW commitment, NEW T,
           Minable(height, extra, cfg, value, commitment, T)
    PROVE  MinedCoinbase(height, extra, cfg, value, commitment)
             = CoinbaseText(<< >>, CoinbaseScript(height, extra), PaidOuts(cfg, value, commitment))
<1>1. /\ IsTokens(T) /\ Field("nullOutpoint") \in T
      /\ height \in Nat \ {0} /\ extra \in Seq(T) /\ Len(extra) = 2
      /\ Payable(cfg, value, commitment, T)
  BY DEF Minable
<1> QED
  BY <1>1, CoinbaseIsBuilt

LEMMA MarkedText ==
    ASSUME NEW T, NEW script, NEW outs, IsShort(T, script, outs)
    PROVE  AddWitnessNonce(CoinbaseText(<< >>, script, outs)) = CoinbaseText(WitnessMarker, script, outs)
<1>1. /\ IsTokens(T) /\ Field("nullOutpoint") \in T /\ Zeros32 \in T
      /\ script \in Seq(T) /\ outs \in Outs(T)
  BY DEF IsShort
<1>2. Len(outs) \in Nat /\ Joined(OutTexts(outs)) \in Seq(T)
  BY <1>1, OutTextsType
<1>3. AddWitnessNonce(Text(<< >>, script, Len(outs), Joined(OutTexts(outs)), Lock))
        = Text(WitnessMarker, script, Len(outs), Joined(OutTexts(outs)), NonceTail)
  BY <1>1, <1>2, NonceAdded
<1>4. WitnessMarker # << >>
  BY DEF WitnessMarker
<1> QED
  BY <1>3, <1>4, Zenon DEF CoinbaseText, CoinbaseTail

LEMMA CoinbaseTextType ==
    ASSUME NEW T, NEW script, NEW outs, IsShort(T, script, outs), NEW marker \in {<< >>, WitnessMarker}
    PROVE  CoinbaseText(marker, script, outs) \in Seq(T)
<1> DEFINE count == Len(outs)
           outputs == Joined(OutTexts(outs))
           tail == CoinbaseTail(marker)
<1>1. /\ IsTokens(T) /\ Field("nullOutpoint") \in T /\ Zeros32 \in T
      /\ script \in Seq(T) /\ outs \in Outs(T)
  BY DEF IsShort
<1>2. count \in Nat /\ outputs \in Seq(T)
  BY <1>1, OutTextsType
<1>3. marker \in Seq(T) /\ tail \in Seq(T)
  <2>1. Byte(0) \in T /\ Byte(1) \in T /\ Field("locktime") \in T
    BY <1>1 DEF IsTokens
  <2>2. << >> \in Seq(T) /\ WitnessMarker \in Seq(T) /\ Lock \in Seq(T) /\ NonceTail \in Seq(T)
    BY <1>1, <2>1 DEF WitnessMarker, Lock, NonceTail
  <2> QED
    BY <2>2, Zenon DEF CoinbaseTail
<1> HIDE DEF count, outputs, tail
<1>4. TextStands(Text(marker, script, count, outputs, tail), T, marker, script, count, outputs, tail)
  BY <1>1, <1>2, <1>3, TextPartsStand
<1>5. Text(marker, script, count, outputs, tail) \in Seq(T)
  BY <1>4, Zenon DEF TextStands
<1> QED
  BY <1>5 DEF CoinbaseText, count, outputs, tail

LEMMA ScriptBeginsWithHeight ==
    ASSUME NEW height, NEW extra, NEW cfg, NEW value, NEW commitment, NEW T,
           Minable(height, extra, cfg, value, commitment, T)
    PROVE  BeginsWithHeight(CoinbaseScript(height, extra), height, ByteBase)
<1>1. IsTokens(T) /\ height \in Nat \ {0} /\ extra \in Seq(T) /\ Len(extra) = 2
  BY DEF Minable
<1>2. extra # << >>
  BY <1>1
<1>3. BeginsWithHeight(EncodeBip34Height(height) \o extra, height, ByteBase)
  BY <1>1, <1>2, BlockBeginsWithHeight
<1> QED
  BY <1>3 DEF CoinbaseScript, Cat

LEMMA CoinbaseRulesHold ==
    ASSUME NEW height, NEW extra, NEW cfg, NEW value, NEW commitment, NEW T,
           Minable(height, extra, cfg, value, commitment, T), AtMost(cfg.feePercent, 100),
           NEW items, NEW cb,
           cb = CoinbaseRecord(CoinbaseScript(height, extra), PaidOuts(cfg, value, commitment), items)
    PROVE  /\ cb.ins[1].from = Field("nullOutpoint")
           /\ BeginsWithHeight(cb.ins[1].script, height, ByteBase)
           /\ \A i \in 1 .. Len(cb.outs) : cb.outs[i].value >= 0
           /\ TotalValue(cb.outs) = value
           /\ cb.stacks = items
<1> DEFINE script == CoinbaseScript(height, extra)
           outs == PaidOuts(cfg, value, commitment)
<1>1. cb.ins[1].from = Field("nullOutpoint") /\ cb.ins[1].script = script /\ cb.outs = outs /\ cb.stacks = items
  BY DEF CoinbaseRecord
<1>2. Payable(cfg, value, commitment, T) /\ value \in Nat /\ IsFraction(cfg.feePercent)
  BY DEF Minable, Payable
<1>3. BeginsWithHeight(script, height, ByteBase)
  BY ScriptBeginsWithHeight
<1>4. TotalValue(outs) = value
  BY <1>2, WholeRewardIsPaidOut
<1>5. \A i \in 1 .. Len(outs) : outs[i].value >= 0
  BY <1>2, PaidOutsPositive
<1> HIDE DEF script, outs
<1> QED
  BY <1>1, <1>3, <1>4, <1>5

(* What submitblock is given, as handleSubmit makes it of a template, and  *)
(* what the node finds in it: the block of every template that has its     *)
(* data and of every pair of extranonces is valid, whether or not it has   *)
(* witnesses.                                                              *)
THEOREM MinedBlockIsAccepted ==
    ASSUME NEW entries, NEW txs, NEW T, Offered(entries, txs, T), NEW given,
           NEW height, NEW extra, NEW cfg, NEW value, NEW commitment,
           Minable(height, extra, cfg, value, commitment, T),
           PlainScripts(cfg), AtMost(cfg.feePercent, 100),
           commitment = EffectiveWitnessCommitment(given, TxsData(entries)),
           NEW takes \in BOOLEAN, takes \/ \A i \in 1 .. Len(txs) : txs[i].stacks = << >>,
           NEW tx, tx = MinedCoinbase(height, extra, cfg, value, commitment),
           NEW block,
           block.root = CalculateMerkleRoot(Sha256d(tx), CalculateMerkleBranch(entries)),
           block.body = BodyOf(entries, IF commitment # {} /\ takes THEN AddWitnessNonce(tx) ELSE tx),
           NEW t, t.height = height, t.coinbaseValue = value
    PROVE  AcceptsBlock(block, t, txs, takes, ByteBase)
<1> DEFINE marker == IF commitment # {} /\ takes THEN WitnessMarker ELSE << >>
           script == CoinbaseScript(height, extra)
           outs == PaidOuts(cfg, value, commitment)
           items == CoinbaseItems(marker)
           cb == CoinbaseRecord(script, outs, items)
           tokens == CoinbaseText(marker, script, outs)
           count == CompactSize(1 + Len(txs))
           tail == Joined([i \in 1 .. Len(txs) |-> Serialised(txs[i])])
<1>1. marker \in {<< >>, WitnessMarker}
  OBVIOUS
<1>2. IsShort(T, script, outs)
  BY MinedIsShort
<1>3. tx = CoinbaseText(<< >>, script, outs)
  BY MinedIsText
<1>4. tokens \in Seq(T)
  <2> HIDE DEF marker, script, outs
  <2> QED
    BY <1>1, <1>2, CoinbaseTextType
<1>5. (IF commitment # {} /\ takes THEN AddWitnessNonce(tx) ELSE tx) = tokens
  <2>1. AddWitnessNonce(tx) = CoinbaseText(WitnessMarker, script, outs)
    <3> HIDE DEF script, outs
    <3> QED
      BY <1>2, <1>3, MarkedText
  <2> QED
    BY <1>3, <2>1, Zenon
<1>6. ReadCoinbase(tokens) = {cb}
  <2> HIDE DEF marker, script, outs
  <2> QED
    BY <1>1, <1>2, CoinbaseIsRead
<1>7. Serialised(cb) = tokens /\ Stripped(cb) = tx
  <2> HIDE DEF marker, script, outs
  <2> QED
    BY <1>1, <1>2, <1>3, CoinbaseIsWritten
<1>8. /\ cb.ins[1].from = Field("nullOutpoint")
      /\ BeginsWithHeight(cb.ins[1].script, height, ByteBase)
      /\ \A i \in 1 .. Len(cb.outs) : cb.outs[i].value >= 0
      /\ TotalValue(cb.outs) = value
      /\ cb.stacks = items
  <2> HIDE DEF items, cb
  <2>1. cb = CoinbaseRecord(CoinbaseScript(height, extra), PaidOuts(cfg, value, commitment), items)
    BY DEF cb
  <2> QED
    BY <2>1, CoinbaseRulesHold
<1>9. block.body = BodyOf(entries, tokens)
  BY <1>5
<1>10. /\ block.body = count \o tokens \o tail
       /\ SubSeq(block.body, Len(count) + 1, Len(block.body) - Len(tail)) = tokens
  <2>1. count = CountOf(txs) /\ tail = Joined(SerialisedTxs(txs))
    BY DEF SerialisedTxs, CountOf
  <2> HIDE DEF tokens, count, tail
  <2>2. block.body = count \o tokens \o tail /\ MiddleOf(block.body, count, tail) = tokens
    <3> DEFINE body == block.body
    <3>1. body = BodyOf(entries, tokens)
      BY <1>9
    <3> HIDE DEF body
    <3>2. body = Cat(Cat(count, tokens), tail) /\ MiddleOf(body, count, tail) = tokens
      BY <1>4, <2>1, <3>1, BodyIsCut
    <3> QED
      BY <3>2 DEF body, Cat
  <2> QED
    BY <2>2 DEF MiddleOf
<1>11. block.root = RootOf(<<Txid(cb)>> \o [i \in 1 .. Len(txs) |-> Txid(txs[i])])
  <2>1. Leaves(entries) = Txids(txs) /\ IsSeq(Leaves(entries))
    BY LeavesAreTxids
  <2> DEFINE x == Sha256d(tx)
  <2>2. CalculateMerkleRoot(x, CalculateMerkleBranch(entries)) = RootOf(<<x>> \o Leaves(entries))
    <3> HIDE DEF x
    <3> QED
      BY <2>1, BranchLeadsToRoot
  <2>3. Txid(cb) = x
    <3> HIDE DEF cb
    <3> QED
      BY <1>7 DEF Txid
  <2> HIDE DEF x, cb
  <2>4. block.root = RootOf(<<Txid(cb)>> \o Txids(txs))
    BY <2>1, <2>2, <2>3, Zenon DEF x
  <2> QED
    BY <2>4 DEF Txids
<1>12. IF takes THEN WitnessRules(cb, txs) ELSE cb.stacks = << >> /\ \A i \in 1 .. Len(txs) : txs[i].stacks = << >>
  <2>1. CASE takes
    <3>1. marker = IF commitment = {} THEN << >> ELSE WitnessMarker
      BY <2>1
    <3>2. Payable(cfg, value, commitment, T)
      BY DEF Minable
    <3> HIDE DEF marker, script
    <3>3. WitnessRules(CoinbaseRecord(script, PaidOuts(cfg, value, commitment), CoinbaseItems(marker)), txs)
      BY <3>1, <3>2, WitnessRulesHold
    <3> QED
      BY <2>1, <3>3
  <2>2. CASE ~takes
    <3>1. items = << >>
      BY <2>2 DEF CoinbaseItems
    <3> HIDE DEF items, cb
    <3> QED
      BY <1>8, <2>2, <3>1, Zenon
  <2> QED
    BY <2>1, <2>2
<1> HIDE DEF marker, script, outs, items, cb, tokens, count, tail
<1>13. /\ cb \in ReadCoinbase(SubSeq(block.body, Len(count) + 1, Len(block.body) - Len(tail)))
       /\ block.body = count \o SubSeq(block.body, Len(count) + 1, Len(block.body) - Len(tail)) \o tail
  BY <1>6, <1>10
<1> QED
  BY <1>8, <1>11, <1>12, <1>13, Zenon DEF AcceptsBlock, count, tail
=============================================================================
