-------------------------------- MODULE Library --------------------------------
(***************************************************************************)
(* The pure functions: printing numbers (lib/c/stdio, lib/out.cpp), memory *)
(* and strings (lib/c), byte order, VLAN tags, and the clock dividers and  *)
(* status codes of the drivers.  A behaviour is one call: its kind, its    *)
(* arguments and what it returns.  Computed says what that has to be, in   *)
(* other words than the code.                                              *)
(***************************************************************************)
EXTENDS Integers, Sequences, SequencesExt, TLC

CONSTANTS
  NumWidth,    \* the bits of an uint32_t
  ArgWidth,    \* the bits of an unsigned int
  MemSize,     \* the bytes of the memory that memcpy works on
  LibFCpu,     \* F_CPU
  Bauds, Rates \* baud rates and I2C frequencies to ask for

ASSUME LibraryConstants ==
  /\ NumWidth \in Nat /\ ArgWidth \in 1 .. NumWidth /\ NumWidth <= 30
  /\ MemSize \in Nat
  /\ LibFCpu \in Nat /\ Bauds \subseteq 1 .. 2^16 - 1 /\ Rates \subseteq Nat \ {0}

VARIABLE libCall

LibInit == libCall = <<"none">>

Calls(c, r) == libCall' = Append(c, r)

Returned == libCall # <<"none">> /\ libCall' = <<"none">>

-----------------------------------------------------------------------------
\* A digit is printed as one character; its case is left out.
DigitsOf(num, base) ==
  LET digits[n \in Nat] == IF n < base THEN <<ToString(n)>>
                           ELSE Append(digits[n \div base], ToString(n % base))
  IN  digits[num]

(***************************************************************************)
(* convert_to_num: what it prints.  A number that is negative as an        *)
(* int32_t gets its sign, but its digits are those of the unsigned number; *)
(* a base other than 10 and 16 prints nothing.                             *)
(***************************************************************************)
ConvertToNum(num, base, sign) ==
  IF num = 0 THEN <<"0">>
  ELSE (IF sign /\ num >= 2^(NumWidth - 1) THEN <<"-">> ELSE <<>>)
       \o (IF base \in {10, 16} THEN DigitsOf(num, base) ELSE <<>>)

\* Print::printNumber
PrintNumber(n, base) == IF n = 0 THEN <<"0">> ELSE DigitsOf(n, base)

\* Print::print of an unsigned number; the base 0 writes it as a character.
PrintUnsigned(n, base) == IF base = 0 THEN <<"character">> ELSE PrintNumber(n, base)

\* Print::print of a char, int or long: only in base 10 the sign is apart.
PrintLong(n, base) ==
  IF base = 10 /\ n < 0 THEN <<"-">> \o PrintNumber(-n, 10)
                        ELSE PrintUnsigned(n % 2^NumWidth, base)

\* Print::println of what one of the others prints.
Println(text) == text \o <<"\r", "\n">>

\* FAULT: the digits of the fraction are those of the number before rounding.
FixedUnrounded(n, digits) ==
  <<n \div 1000, [i \in 1 .. digits |-> ((n * 10^i) \div 1000) % 10]>>

(***************************************************************************)
(* What print_flt and Print::printFloat take from the number n / 1000, for *)
(* up to three digits: the integer part and the digits of the fraction,    *)
(* one by one, after one half of the last digit has been added.            *)
(***************************************************************************)
Fixed(n, digits) ==
  LET rounded == 2 * n + 1000 \div 10^digits   \* in units of 1 / 2000
  IN  <<rounded \div 2000, [i \in 1 .. digits |-> (((rounded % 2000) * 10^i) \div 2000) % 10]>>

\* print_flt, FLT_DIGITS = 2.  Of a negative number the code converts a
\* negative double to size_t, so that n is not negative.
PrintFlt(n) ==
  LET f == Fixed(n, 2)
  IN  ConvertToNum(f[1], 10, FALSE) \o <<".">>
      \o <<ConvertToNum(f[2][1], 10, FALSE)[1], ConvertToNum(f[2][2], 10, FALSE)[1]>>

\* Print::printFloat
PrintFloat(n, digits) ==
  LET f == Fixed(IF n < 0 THEN -n ELSE n, digits)
  IN  (IF n < 0 THEN <<"-">> ELSE <<>>) \o PrintNumber(f[1], 10)
      \o (IF digits > 0 THEN <<".">> ELSE <<>>)
      \o [i \in 1 .. digits |-> PrintNumber(f[2][i], 10)[1]]

\* One conversion of vfprintf with the unsigned int arg; others print nothing.
Converted(c, arg) ==
  CASE c = "i" -> ConvertToNum(arg, 10, TRUE)
    [] c = "u" -> ConvertToNum(arg, 10, FALSE)
    [] c \in {"x", "X", "p"} -> ConvertToNum(arg, 16, FALSE)
    [] c = "%" -> <<"%">>
    [] OTHER -> <<>>

TakesArg == {"i", "u", "x", "X", "p"}

\* vfprintf: each conversion takes the next argument.  A format does not end
\* in %: the code would read on behind it.
Vfprintf(fmt, args) ==
  LET out[i \in Nat, a \in Nat] ==
        CASE i > Len(fmt) -> <<>>
          [] i <= Len(fmt) /\ fmt[i] # "%" -> <<fmt[i]>> \o out[i + 1, a]
          [] OTHER -> IF fmt[i + 1] \in TakesArg
                      THEN Converted(fmt[i + 1], args[a]) \o out[i + 2, a + 1]
                      ELSE Converted(fmt[i + 1], 0) \o out[i + 2, a]
  IN  out[1, 1]

-----------------------------------------------------------------------------
WSize == 4   \* sizeof(long)

\* One assignment of memcpy: size bytes, read before they are written.
Moved(m, move) ==
  [b \in DOMAIN m |-> IF b \in move.to .. move.to + move.size - 1
                      THEN m[b - move.to + move.from] ELSE m[b]]

\* The bytes before the first whole word, seen from where the copy starts;
\* near is how far src is from an alignment there.
Unaligned(near, aligned, same, short, length) ==
  IF aligned THEN 0 ELSE IF ~same \/ short THEN length ELSE near

\* The offsets and sizes of the moves from the start of the block.
Moves(first, length) ==
  LET words == (length - first) \div WSize
      rest  == first + words * WSize
  IN  [k \in 1 .. first |-> [at |-> k - 1, size |-> 1]]
      \o [k \in 1 .. words |-> [at |-> first + (k - 1) * WSize, size |-> WSize]]
      \o [k \in 1 .. length - rest |-> [at |-> rest + k - 1, size |-> 1]]

\* FAULT: always from the start of the block.
MemcpyForward(m, dst, src, length) ==
  IF length = 0 \/ dst = src THEN m
  ELSE LET same  == (src % WSize) = (dst % WSize)
           first == Unaligned(WSize - (src % WSize), same /\ (src % WSize) = 0, same,
                              length < WSize, length)
       IN  FoldLeft(LAMBDA n, v : Moved(n, [to |-> dst + v.at, from |-> src + v.at,
                                            size |-> v.size]),
                    m, Moves(first, length))

(***************************************************************************)
(* memcpy on blocks that may overlap: from the start if dst is below src,  *)
(* else from the end; bytes up to an alignment that both share, words, and *)
(* the bytes that remain.                                                  *)
(***************************************************************************)
Memcpy(m, dst, src, length) ==
  IF length = 0 \/ dst = src THEN m
  ELSE LET up    == dst < src
           s     == (IF up THEN src ELSE src + length) % WSize
           d     == (IF up THEN dst ELSE dst + length) % WSize
           first == IF up
                    THEN Unaligned(WSize - s, s = 0 /\ d = 0, s = d, length < WSize, length)
                    ELSE Unaligned(s, s = 0 /\ d = 0, s = d, length <= WSize, length)
           off(v) == IF up THEN v.at ELSE length - v.at - v.size
       IN  FoldLeft(LAMBDA n, v : Moved(n, [to |-> dst + off(v), from |-> src + off(v),
                                            size |-> v.size]),
                    m, Moves(first, length))

\* strlen: s ends with the character 0.
Strlen(s) == SelectInSeq(s, LAMBDA c : c = 0) - 1

Strnlen(s, len) == IF Strlen(s) > len THEN len ELSE Strlen(s)

\* The first place at which s and t differ, 0 if there is none before n.
Differ(s, t, n) == SelectInSeq([i \in 1 .. n |-> s[i] # t[i]], LAMBDA b : b)

\* memcmp of n bytes.
Memcmp(s, t, n) == IF Differ(s, t, n) = 0 THEN 0 ELSE s[Differ(s, t, n)] - t[Differ(s, t, n)]

\* strcmp: up to the end of the shorter string, which differs from the other.
Strcmp(s, t) ==
  Memcmp(s, t, IF Strlen(s) < Strlen(t) THEN Strlen(s) + 1 ELSE Strlen(t) + 1)

\* strchr: the index from 0, -1 for NULL; the end of the string counts.
Strchr(s, c) ==
  LET at == SelectInSeq(s, LAMBDA d : d \in {c, 0})
  IN  IF s[at] = c THEN at - 1 ELSE -1

-----------------------------------------------------------------------------
\* htons and ntohs; htonl and ntohl on the bytes of a number, the low first.
Htons(val) == (val % 256) * 256 + val \div 256

Htonl(bytes) == [i \in 1 .. 4 |-> bytes[5 - i]]

\* vlan_inflate: the two halves of the raw tag, in network order.
VlanInflate(tag) == <<Htons(33024), Htons(tag.id + tag.format * 2^12 + tag.prio * 2^13)>>

\* vlan_extract: the tag; the low half is what ntohs gets.
VlanExtract(raw) ==
  LET tci == Htons(raw[2])
  IN  [id |-> tci % 2^12, format |-> (tci \div 2^12) % 2, prio |-> (tci \div 2^13) % 8]

\* BermudaUsartConfigBaud: UBRR and U2X; products of a baud rate have 16 bits.
ConfigBaud(baud) ==
  LET w(n)  == n % 2^16
      twice == 100 * LibFCpu < w(w(16 * w(baud + 1)) * w(100 * baud) - w(2 * baud))
      ubrr  == IF twice THEN (LibFCpu + w(4 * baud)) \div w(8 * baud) - 1
                        ELSE (LibFCpu + w(8 * baud)) \div w(16 * baud) - 1
  IN  [ubrr |-> w(ubrr) % 2^12, twice |-> twice]

\* I2C_FRQ: the frequency with TWBR = x and the prescaler n.
I2cFrq(x, n) == LibFCpu \div (16 + 2 * x * n)

\* atmega_i2c_calc_prescaler: the bits TWPS.  The second range gets those of
\* a prescaler of 64, and the fourth those of 4.
CalcPrescaler(frq) ==
  CASE frq > I2cFrq(255, 1)  -> 0
    [] frq <= I2cFrq(255, 1) /\ frq > I2cFrq(255, 4) /\ frq < I2cFrq(1, 4) -> 3
    [] frq <= I2cFrq(255, 4) /\ frq > I2cFrq(255, 16) /\ frq < I2cFrq(1, 16) -> 2
    [] frq <= I2cFrq(255, 16) /\ frq > I2cFrq(255, 64) /\ frq < I2cFrq(1, 64) -> 1
    [] OTHER -> 0

\* atmega_i2c_calc_twbr with the bits TWPS.
CalcTwbr(freq, pres) == ((LibFCpu - 16 * freq) \div (2 * 4^pres * freq)) % 256

\* The status codes of the TWI.
TwiStatus ==
  [MASTER_START |-> 8, MASTER_REP_START |-> 16, MT_SLA_ACK |-> 24, MT_SLA_NACK |-> 32,
   MT_DATA_ACK |-> 40, MT_DATA_NACK |-> 48, MASTER_ARB_LOST |-> 56,
   MR_SLA_ACK |-> 64, MR_SLA_NACK |-> 72, MR_DATA_ACK |-> 80, MR_DATA_NACK |-> 88,
   SR_SLAW_ACK |-> 96, SR_SLAW_ARB_LOST |-> 104, SR_GC_ACK |-> 112, SR_GC_ARB_LOST |-> 120,
   SR_SLAW_DATA_ACK |-> 128, SR_SLAW_DATA_NACK |-> 136, SR_GC_DATA_ACK |-> 144,
   SR_GC_DATA_NACK |-> 152, SR_STOP |-> 160, ST_SLAR_ACK |-> 168, ST_ARB_LOST |-> 176,
   ST_DATA_ACK |-> 184, ST_DATA_NACK |-> 192, ST_LAST_DATA_ACK |-> 200, BUS_ERROR |-> 0]

\* atmega_i2c_set_bitrate writes the prescaler bits, and 0 for the status,
\* which the hardware keeps; atmega_i2c_get_status reads the status alone.
SetBitrate(twsr, twps) == (twsr \div 8) * 8 + (twps % 4)

GetStatus(twsr) == (twsr \div 8) * 8

BitAt(n, i) == (n \div 2^i) % 2

\* I2C_MSG_CHECK of the features of a message and of an adapter.
MsgMasterCheck(msg, bus) == BitAt(msg, 2) * BitAt(bus, 0)
MsgSlaveCheck(msg, bus)  == BitAt(msg, 1) * BitAt(bus, 1)
MsgCheck(msg, bus)       == (MsgMasterCheck(msg, bus) + MsgSlaveCheck(msg, bus)) % 2

-----------------------------------------------------------------------------
Nums == 0 .. 2^NumWidth - 1
Thousandths == {0, 4, 5, 49, 50, 94, 95, 499, 500, 994, 995, 999, 1000, 1249, 1250, 9995, 12345}
Args == {0, 1, 2^(ArgWidth - 1), 2^ArgWidth - 1}
Pieces == {<<"a">>, <<"%", "i">>, <<"%", "u">>, <<"%", "x">>, <<"%", "%">>, <<"%", "q">>}
Strings == {s \o <<0>> : s \in UNION {[1 .. n -> 1 .. 2] : n \in 0 .. 3}}
Tags == [id : {0, 1, 2^11, 2^12 - 1}, format : 0 .. 1, prio : 0 .. 7]
Memory == [b \in 1 .. MemSize |-> b]

Call ==
  /\ libCall = <<"none">>
  /\ \/ \E n \in Nums, b \in {8, 10, 16}, s \in BOOLEAN :
          Calls(<<"convert", n, b, s>>, ConvertToNum(n, b, s))
     \/ \E n \in -(2^(NumWidth - 1)) .. 2^(NumWidth - 1) - 1, b \in {2, 10, 16} :
          Calls(<<"print", n, b>>, Println(PrintLong(n, b)))
     \/ \E n \in Thousandths : Calls(<<"flt", n>>, PrintFlt(n))
     \/ \E n \in Thousandths, d \in 0 .. 3, neg \in BOOLEAN :
          Calls(<<"float", n, d, neg>>, PrintFloat(IF neg THEN -n ELSE n, d))
     \/ \E p, q, r \in Pieces, x, y, z \in Args :
          Calls(<<"format", <<p, q, r>>, <<x, y, z>>>>, Vfprintf(p \o q \o r, <<x, y, z>>))
     \/ \E d, s \in 1 .. MemSize : \E n \in 0 .. MemSize + 1 - (IF d > s THEN d ELSE s) :
          Calls(<<"memcpy", d, s, n>>, Memcpy(Memory, d, s, n))
     \/ \E s, t \in Strings, n \in 0 .. 3, c \in 0 .. 2 :
          Calls(<<"string", s, t, n, c>>,
                [cmp |-> Strcmp(s, t), len |-> Strlen(s), nlen |-> Strnlen(s, n),
                 chr |-> Strchr(s, c),
                 mem |-> IF n < Len(s) /\ n < Len(t) THEN Memcmp(s, t, n) ELSE 0])
     \/ \E v \in Nums : Calls(<<"htons", v>>, Htons(v))
     \/ \E p \in Permutations(1 .. 4) : Calls(<<"htonl", p>>, Htonl(p))
     \/ \E t \in Tags : Calls(<<"vlan", t>>, VlanExtract(VlanInflate(t)))
     \/ \E b \in Bauds : Calls(<<"baud", b>>, ConfigBaud(b))
     \/ \E f \in Rates : Calls(<<"i2c", f>>, <<CalcTwbr(f, CalcPrescaler(f)), CalcPrescaler(f)>>)
     \/ \E code \in DOMAIN TwiStatus, twps \in 0 .. 7 :
          Calls(<<"status", code, twps>>, GetStatus(SetBitrate(TwiStatus[code], twps)))
     \/ \E m \in 0 .. 127, b \in 0 .. 3 : Calls(<<"check", m, b>>, MsgCheck(m, b))

LibNext == Call \/ Returned

-----------------------------------------------------------------------------
\* The number that digits stand for.
Value(digits, base) ==
  FoldLeft(LAMBDA x, d : x * base + (CHOOSE n \in 0 .. base - 1 : ToString(n) = d), 0, digits)

\* digits write n in the base, without a zero in front.
Writes(digits, n, base) ==
  Len(digits) >= 1 /\ Value(digits, base) = n /\ (n # 0 => digits[1] # "0")

\* text, without its point, is the number n / 1000 in digits places, at most
\* one half of the last place away.
Rounds(text, n, digits) ==
  LET v == Value(SelectSeq(text, LAMBDA d : d # "."), 10) * 10^(3 - digits)
  IN  2 * n - 10^(3 - digits) <= 2 * v /\ 2 * v <= 2 * n + 10^(3 - digits)

\* s comes before t in the order of the dictionary.
Before(s, t) ==
  \E i \in 1 .. Len(s) :
    i <= Len(t) /\ SubSeq(s, 1, i - 1) = SubSeq(t, 1, i - 1) /\ s[i] < t[i]

Rest_(s, n) == SubSeq(s, n, Len(s))

(***************************************************************************)
(* The pure functions return what they are for.  Printed digits stand for  *)
(* the number, rounded in its last place, and fit the buffer of 16; a      *)
(* format prints its pieces in order; memcpy moves a block as if by a copy *)
(* of it, and nothing else; strings compare as in a dictionary; a tag      *)
(* survives the way through its raw form.  Baud rates for which products   *)
(* stay within 16 bits are met up to 2 %, I2C frequencies above            *)
(* I2C_FRQ(255, 16) are not undercut and exceeded by at most one half.     *)
(* Whatever the prescaler, a status is the one of one code, and a message  *)
(* of one role passes the check of the adapters that have this role.       *)
(***************************************************************************)
Computed ==
  LET c == libCall  r == libCall[Len(libCall)] IN
  CASE c[1] = "convert" ->
         /\ Len(r) < 16
         /\ IF c[2] # 0 /\ c[4] /\ c[2] >= 2^(NumWidth - 1)
            THEN r[1] = "-" /\ (c[3] \in {10, 16} => Writes(Rest_(r, 2), c[2], c[3]))
            ELSE c[3] \in {10, 16} => Writes(r, c[2], c[3])
    [] c[1] = "print" ->
         LET text == SubSeq(r, 1, Len(r) - 2) IN
         /\ Rest_(r, Len(r) - 1) = <<"\r", "\n">>
         /\ IF c[2] < 0 /\ c[3] = 10 THEN text[1] = "-" /\ Writes(Rest_(text, 2), -c[2], 10)
            ELSE Writes(text, c[2] % 2^NumWidth, c[3]) /\ Len(text) <= NumWidth
    [] c[1] = "flt" -> r[Len(r) - 2] = "." /\ Rounds(r, c[2], 2)
    [] c[1] = "float" ->
         LET text == IF c[4] /\ c[2] # 0 THEN Rest_(r, 2) ELSE r IN
         /\ c[4] /\ c[2] # 0 => r[1] = "-"
         /\ c[3] > 0 => text[Len(text) - c[3]] = "."
         /\ Rounds(text, c[2], c[3])
    [] c[1] = "format" ->
         LET taken(i) == Cardinality({j \in 1 .. i : c[2][j] \in {<<"%", d>> : d \in TakesArg}})
             text(i)  == IF Len(c[2][i]) = 1 THEN c[2][i]
                         ELSE Converted(c[2][i][2], IF taken(i) = 0 THEN 0 ELSE c[3][taken(i)])
         IN  r = text(1) \o text(2) \o text(3)
    [] c[1] = "memcpy" ->
         r = [b \in 1 .. MemSize |-> IF b \in c[2] .. c[2] + c[4] - 1 THEN b - c[2] + c[3] ELSE b]
    [] c[1] = "string" ->
         /\ r.cmp = 0 <=> c[2] = c[3]
         /\ r.cmp < 0 <=> Before(c[2], c[3])
         /\ r.len = Len(c[2]) - 1 /\ r.nlen \in {r.len, c[4]} /\ r.nlen <= r.len /\ r.nlen <= c[4]
         /\ r.chr # -1 => c[2][r.chr + 1] = c[5]
         /\ \A i \in 1 .. Len(c[2]) : c[2][i] = c[5] => r.chr \in 0 .. i - 1
         /\ r.mem = 0 <=> (c[4] < Len(c[2]) /\ c[4] < Len(c[3]) =>
                             SubSeq(c[2], 1, c[4]) = SubSeq(c[3], 1, c[4]))
    [] c[1] = "htons" -> r % 256 = c[2] \div 256 /\ r \div 256 = c[2] % 256
    [] c[1] = "htonl" -> Reverse(c[2]) = r
    [] c[1] = "vlan" -> r = c[2]
    [] c[1] = "baud" ->
         LET rate == LibFCpu \div ((IF r.twice THEN 8 ELSE 16) * (r.ubrr + 1))
         IN  16 * c[2] < 2^16 => 100 * rate \in 98 * c[2] .. 102 * c[2]
    [] c[1] = "i2c" ->
         LET rate == I2cFrq(r[1], 4^r[2])
         IN  c[2] > I2cFrq(255, 16) => c[2] <= rate /\ 2 * rate <= 3 * c[2]
    [] c[1] = "status" -> {code \in DOMAIN TwiStatus : TwiStatus[code] = r} = {c[2]}
    [] c[1] = "check" ->
         LET roles(n, first) == {i \in 0 .. 1 : BitAt(n, first + i) = 1}
             wanted == {1 - i : i \in roles(c[2], 1)}   \* 0 for master, 1 for slave
         IN  Cardinality(wanted) = 1 => (r = 1 <=> wanted \subseteq roles(c[3], 0))
    [] OTHER -> TRUE
=============================================================================
