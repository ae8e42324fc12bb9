------------------------------- MODULE SipHash -------------------------------
(* SipHash-2-4 (siphash_24.c) as the MAC of keycodes, links and commands.  A *)
(* 64-bit word is four 16-bit limbs, the least significant first.            *)
LOCAL INSTANCE Integers
LOCAL INSTANCE Sequences

(* The exclusive or of the two bytes of n. *)
ByteXor == [n \in 0 .. 65535 |->
  LET bit(i) == IF (n \div 2^i) % 2 = (n \div 2^(i + 8)) % 2 THEN 0 ELSE 2^i
  IN  bit(0) + bit(1) + bit(2) + bit(3) + bit(4) + bit(5) + bit(6) + bit(7)]

XorWith(bytes, a, b) ==
  bytes[256 * (a % 256) + (b % 256)] + 256 * bytes[256 * (a \div 256) + (b \div 256)]

LimbXor(a, b) == XorWith(ByteXor, a, b)

WordXor(bytes, x, y) == <<XorWith(bytes, x[1], y[1]), XorWith(bytes, x[2], y[2]),
                          XorWith(bytes, x[3], y[3]), XorWith(bytes, x[4], y[4])>>

Xor(x, y) == WordXor(ByteXor, x, y)

Plus(x, y) ==
  LET s1 == x[1] + y[1]
      s2 == x[2] + y[2] + (s1 \div 65536)
      s3 == x[3] + y[3] + (s2 \div 65536)
      s4 == x[4] + y[4] + (s3 \div 65536)
  IN  <<s1 % 65536, s2 % 65536, s3 % 65536, s4 % 65536>>

(* Whole limbs, then the bits below one. *)
ROTL(x, n) ==
  LET moved(y, k) == <<((y[1] * k) % 65536) + ((y[4] * k) \div 65536),
                       ((y[2] * k) % 65536) + ((y[1] * k) \div 65536),
                       ((y[3] * k) % 65536) + ((y[2] * k) \div 65536),
                       ((y[4] * k) % 65536) + ((y[3] * k) \div 65536)>>
  IN  CASE n = 32 -> <<x[3], x[4], x[1], x[2]>>
        [] n # 32 -> moved(IF n < 16 THEN x ELSE <<x[4], x[1], x[2], x[3]>>, 2^(n % 16))

U8TO64_LE(p) == <<p[1] + 256 * p[2], p[3] + 256 * p[4], p[5] + 256 * p[6], p[7] + 256 * p[8]>>

U64TO8_LE(v) == <<v[1] % 256, v[1] \div 256, v[2] % 256, v[2] \div 256,
                  v[3] % 256, v[3] \div 256, v[4] % 256, v[4] \div 256>>

(* Half a round: two additions, each with the rotation and the exclusive or *)
(* that follow, then v0 and v2 in each other's place for the other half.    *)
Mixed(v, v0, v2, n1, n3) == <<v2, Xor(ROTL(v[2], n1), v0), ROTL(v0, 32), Xor(ROTL(v[4], n3), v2)>>
HalfRound(v, n1, n3) == Mixed(v, Plus(v[1], v[2]), Plus(v[3], v[4]), n1, n3)

SIPROUND(v) == HalfRound(HalfRound(v, 13, 16), 17, 21)

XorWord(v, i, m) == [v EXCEPT ![i] = Xor(@, m)]

(* The state, then the words still to be mixed into it. *)
RECURSIVE Absorb(_)
Absorb(s) ==
  IF Len(s) = 1 THEN s[1]
  ELSE Absorb(<<XorWord(SIPROUND(SIPROUND(XorWord(s[1], 4, s[2]))), 1, s[2])>> \o SubSeq(s, 3, Len(s)))

(* The magic words with the key's words k0 and k1. *)
Keyed(k0, k1) ==
  <<Xor(<<25973, 28787, 28005, 29551>>, k0), Xor(<<28525, 28260, 29281, 25711>>, k1),
    Xor(<<29281, 28261, 26469, 27769>>, k0), Xor(<<25971, 31092, 25698, 29797>>, k1)>>

(* The bytes in words, the last one filled up with zeros and the length. *)
Words(in) ==
  LET whole == Len(in) \div 8
      padded == in \o [i \in 1 .. 7 - (Len(in) % 8) |-> 0] \o <<Len(in) % 256>>
  IN  [i \in 1 .. whole + 1 |-> U8TO64_LE(SubSeq(padded, 8 * i - 7, 8 * i))]

Digest(v) == U64TO8_LE(Xor(Xor(v[1], v[2]), Xor(v[3], v[4])))

Zero == <<0, 0, 0, 0>>

(* The last four rounds are those of two words of zeros, which change        *)
(* nothing themselves.                                                       *)
Finished(v) == Digest(Absorb(<<XorWord(v, 3, <<255, 0, 0, 0>>), Zero, Zero>>))

siphash24_compute(in, k) ==
  Finished(Absorb(<<Keyed(U8TO64_LE(k), U8TO64_LE(SubSeq(k, 9, 16)))>> \o Words(in)))

nexus_check_compute(key, data) == siphash24_compute(data, key)

(* The first n bytes of the MAC of a zero byte followed by the seed. *)
nexus_check_compute_pseudorandom_bytes(key, seed, n) ==
  SubSeq(nexus_check_compute(key, <<0>> \o seed), 1, n)
==============================================================================
