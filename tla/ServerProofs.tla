---------------------------- MODULE ServerProofs -----------------------------
(***************************************************************************)
(* Theorems about Server, for any number of connections, any scripts,      *)
(* buffers of any size and clients that leave at any moment: which line a  *)
(* reply answers, and whose words the request behind it is made of.        *)
(***************************************************************************)
EXTENDS Server, SequenceTheorems, FiniteSetTheorems, WellFoundedInduction, TLAPS

-----------------------------------------------------------------------------
(***************************************************************************)
(* Smallest numbers, and prefixes.                                         *)
(***************************************************************************)

\* A set of natural numbers has a least element.
LEMMA LeastNat ==
  ASSUME NEW T, T \subseteq Nat, T # {}
  PROVE  \E m \in T : \A k \in T : m <= k
  <1>1. PICK m \in T : \A k \in T : ~ (<<k, m>> \in OpToRel(<, Nat))
    BY NatLessThanWellFounded, WFMin, Zenon
  <1>2. \A k \in T : ~ (k < m)
    BY <1>1 DEF OpToRel
  <1> QED
    BY <1>2

\* The positions up to the first one that is out are those of a prefix.
LEMMA PrefixInterval ==
  ASSUME NEW n \in Nat, NEW T, T \subseteq 1 .. n,
         \A i \in T : \A j \in 1 .. i : j \in T
  PROVE  \E m \in 0 .. n : T = 1 .. m
  <1> DEFINE U == (1 .. n + 1) \ T
  <1>1. U \subseteq Nat /\ n + 1 \in U
    OBVIOUS
  <1>2. PICK u \in U : \A k \in U : u <= k
    <2> HIDE DEF U
    <2> QED
      BY <1>1, LeastNat
  <1>3. u - 1 \in 0 .. n
    BY <1>1, <1>2
  <1>4. T = 1 .. u - 1
    <2>1. ASSUME NEW k \in T PROVE k \in 1 .. u - 1
      <3>1. ~ (k >= u)
        BY <1>2, <2>1
      <3> QED
        BY <1>3, <2>1, <3>1
    <2>2. ASSUME NEW k \in 1 .. u - 1 PROVE k \in T
      BY <1>2, <1>3, <2>2
    <2> QED
      BY <2>1, <2>2
  <1> QED
    BY <1>3, <1>4

-----------------------------------------------------------------------------
(***************************************************************************)
(* The types of the state.                                                 *)
(***************************************************************************)

USE ServerAssumption

Units == UNION {{Script[c][i] : i \in Nat} : c \in Conns}

Pcs == {"new", "recv", "line", "load", "more", "store", "answer", "closed"}
Pos == [of : Conns \cup {NoConn}, next : Nat \ {0}]
ConnRec == [pc : Pcs, buf : Seq(Nat), at : Nat, span : Seq(Nat), line : Seq(Nat),
            toks : Seq(Units), ptr : Pos, shared : BOOLEAN]
ReplyRec == [kind : {"reply"}, span : Seq(Nat), line : Seq(Nat), toks : Seq(Units),
             request : Units \cup {"invalid"}, shared : BOOLEAN]

\* line_start is in the buffer, and at its front outside the inner loop.
Placed(r) ==
    /\ r.at <= Len(r.buf)
    /\ r.pc \in {"new", "recv"} => r.at = 0

ServerTypeOK ==
    /\ alive \in BOOLEAN
    /\ conn \in [Conns -> ConnRec]
    /\ net \in [Conns -> Nat]
    /\ gone \in [Conns -> BOOLEAN]
    /\ strtokPos \in Pos
    /\ out \in [Conns -> Seq(ReplyRec \cup {TooLong})]
    /\ \A c \in Conns : Placed(conn[c])

LEMMA WordsType ==
  ASSUME NEW c \in Conns, NEW line \in Seq(Nat)
  PROVE  Words(c, line) \in Seq(Units)
  <1> DEFINE T == {i \in DOMAIN line : \A j \in 1 .. i : Script[c][line[j]] # NL}
  <1>1. Len(line) \in Nat /\ T \subseteq 1 .. Len(line) /\ \A i \in T : \A j \in 1 .. i : j \in T
    OBVIOUS
  <1>2. PICK m \in 0 .. Len(line) : T = 1 .. m
    <2> HIDE DEF T
    <2> QED
      BY <1>1, PrefixInterval
  <1>3. Words(c, line) = [k \in 1 .. m |-> Script[c][line[k]]]
    BY <1>2 DEF Words
  <1>4. \A k \in 1 .. m : Script[c][line[k]] \in Units
    <2> SUFFICES ASSUME NEW k \in 1 .. m PROVE Script[c][line[k]] \in Units
      OBVIOUS
    <2>1. line[k] \in Nat
      BY <1>1, <1>2, ElementOfSeq
    <2> QED
      BY <2>1 DEF Units
  <1> QED
    BY <1>3, <1>4

\* The first newline, if there is one, is in the part of the buffer that is left.
LEMMA LineEndFacts ==
  ASSUME NEW c \in Conns, NEW r \in ConnRec
  PROVE  LET nl == LineEnd(c, r) IN
         /\ nl \in Nat
         /\ nl # 0 => /\ nl \in r.at + 1 .. Len(r.buf)
                      /\ Script[c][r.buf[nl]] = NL
                      /\ \A i \in r.at + 1 .. nl - 1 : Script[c][r.buf[i]] # NL
         /\ nl = 0 => \A i \in r.at + 1 .. Len(r.buf) : Script[c][r.buf[i]] # NL
  <1> DEFINE ends == {i \in r.at + 1 .. Len(r.buf) : Script[c][r.buf[i]] = NL}
  <1>1. r.at \in Nat /\ Len(r.buf) \in Nat
    BY DEF ConnRec
  <1>2. CASE ends = {}
    <2>1. LineEnd(c, r) = 0
      BY <1>2 DEF LineEnd
    <2>2. \A i \in r.at + 1 .. Len(r.buf) : Script[c][r.buf[i]] # NL
      BY <1>2
    <2> QED
      BY <2>1, <2>2
  <1>3. CASE ends # {}
    <2>1. ends \subseteq Nat
      BY <1>1
    <2>2. \E i \in ends : \A j \in ends : i <= j
      <3> HIDE DEF ends
      <3> QED
        BY <1>3, <2>1, LeastNat
    <2>3. LineEnd(c, r) = CHOOSE i \in ends : \A j \in ends : i <= j
      BY <1>3 DEF LineEnd
    <2>4. LineEnd(c, r) \in ends /\ \A j \in ends : LineEnd(c, r) <= j
      BY <2>2, <2>3
    <2>5. ASSUME NEW i \in r.at + 1 .. LineEnd(c, r) - 1
          PROVE  Script[c][r.buf[i]] # NL
      <3>1. i \in r.at + 1 .. Len(r.buf) /\ ~ (LineEnd(c, r) <= i)
        BY <1>1, <2>1, <2>4, <2>5
      <3> QED
        BY <2>4, <3>1
    <2>6. LineEnd(c, r) # 0 /\ LineEnd(c, r) \in Nat /\ LineEnd(c, r) \in r.at + 1 .. Len(r.buf)
      BY <1>1, <2>4
    <2> QED
      BY <2>4, <2>5, <2>6
  <1> QED
    BY <1>2, <1>3

\* The two ways in which conn changes.
LEMMA SetFacts ==
  ASSUME ServerTypeOK, NEW c \in Conns, NEW r \in ConnRec, Placed(r), Set(c, r)
  PROVE  /\ conn' \in [Conns -> ConnRec] /\ conn'[c] = r
         /\ \A d \in Conns \ {c} : conn'[d] = conn[d]
         /\ \A d \in Conns : Placed(conn'[d])
  BY DEF ServerTypeOK, Set

\* Another handler's strtok changes nothing but shared.
SameButShared(d) ==
    /\ conn'[d].pc = conn[d].pc /\ conn'[d].buf = conn[d].buf /\ conn'[d].at = conn[d].at
    /\ conn'[d].span = conn[d].span /\ conn'[d].line = conn[d].line
    /\ conn'[d].toks = conn[d].toks /\ conn'[d].ptr = conn[d].ptr
    /\ ~ conn'[d].shared => ~ conn[d].shared /\ ~ Parsing(d)

LEMMA DisturbsFacts ==
  ASSUME ServerTypeOK, NEW c \in Conns, NEW r \in ConnRec, Placed(r), Disturbs(c, r)
  PROVE  /\ conn' \in [Conns -> ConnRec]
         /\ conn'[c].pc = r.pc /\ conn'[c].buf = r.buf /\ conn'[c].at = r.at
         /\ conn'[c].span = r.span /\ conn'[c].line = r.line
         /\ conn'[c].toks = r.toks /\ conn'[c].ptr = r.ptr
         /\ ~ conn'[c].shared => ~ r.shared
         /\ \A d \in Conns \ {c} : SameButShared(d)
         /\ \A d \in Conns : Placed(conn'[d])
  <1> DEFINE b == r.shared \/ \E e \in Conns \ {c} : Parsing(e)
             x == [r EXCEPT !.shared = b]
             y(d) == [conn[d] EXCEPT !.shared = conn[d].shared \/ Parsing(d)]
  <1>1. conn' = [d \in Conns |-> IF d = c THEN x ELSE y(d)]
    BY DEF Disturbs
  <1>2. /\ x \in ConnRec
        /\ x.pc = r.pc /\ x.buf = r.buf /\ x.at = r.at /\ x.span = r.span /\ x.line = r.line
        /\ x.toks = r.toks /\ x.ptr = r.ptr /\ (~ x.shared => ~ r.shared)
    <2>1. b \in BOOLEAN /\ (r.shared => b)
      BY DEF ConnRec
    <2> HIDE DEF b
    <2> QED
      BY <2>1 DEF ConnRec
  <1>3. ASSUME NEW d \in Conns
        PROVE  /\ y(d) \in ConnRec
               /\ y(d).pc = conn[d].pc /\ y(d).buf = conn[d].buf /\ y(d).at = conn[d].at
               /\ y(d).span = conn[d].span /\ y(d).line = conn[d].line
               /\ y(d).toks = conn[d].toks /\ y(d).ptr = conn[d].ptr
               /\ ~ y(d).shared => ~ conn[d].shared /\ ~ Parsing(d)
    <2> DEFINE z == conn[d]
               s == conn[d].shared \/ Parsing(d)
    <2>1. s \in BOOLEAN /\ (z.shared => s) /\ (Parsing(d) => s) /\ z \in ConnRec
      BY <1>3 DEF ServerTypeOK, ConnRec, Parsing
    <2>2. y(d) = [z EXCEPT !.shared = s]
      OBVIOUS
    <2> HIDE DEF s, z, y
    <2>3. /\ y(d) \in ConnRec
          /\ y(d).pc = z.pc /\ y(d).buf = z.buf /\ y(d).at = z.at
          /\ y(d).span = z.span /\ y(d).line = z.line
          /\ y(d).toks = z.toks /\ y(d).ptr = z.ptr
          /\ y(d).shared = s
      BY <2>1, <2>2 DEF ConnRec
    <2> QED
      BY <2>1, <2>3 DEF z
  <1> HIDE DEF x, y
  <1>4. conn' \in [Conns -> ConnRec] /\ conn'[c] = x /\ \A d \in Conns \ {c} : conn'[d] = y(d)
    BY <1>1, <1>2, <1>3
  <1>5. \A d \in Conns \ {c} : SameButShared(d)
    BY <1>3, <1>4 DEF SameButShared
  <1>6. \A d \in Conns : Placed(conn'[d])
    BY <1>2, <1>4, <1>5, ZenonT(40) DEF ServerTypeOK, SameButShared, Placed
  <1> QED
    BY <1>2, <1>4, <1>5, <1>6

\* What a send does: only a reply to a client that is there is recorded.
LEMMA SendFacts ==
  ASSUME ServerTypeOK, NEW c \in Conns, NEW x \in ReplyRec \cup {TooLong}, Send(c, x)
  PROVE  /\ out' \in [Conns -> Seq(ReplyRec \cup {TooLong})] /\ alive' \in BOOLEAN
         /\ \A d \in Conns \ {c} : out'[d] = out[d]
         /\ \/ ~ gone[c] /\ out'[c] = Append(out[c], x)
            \/ gone[c] /\ out'[c] = out[c]
  <1>1. out \in [Conns -> Seq(ReplyRec \cup {TooLong})] /\ out[c] \in Seq(ReplyRec \cup {TooLong})
    BY DEF ServerTypeOK
  <1>2. CASE Delivered(c, x)
    <2> DEFINE y == Append(out[c], x)
    <2>1. y \in Seq(ReplyRec \cup {TooLong})
      BY <1>1, AppendProperties
    <2>2. out' = [out EXCEPT ![c] = y] /\ alive' = alive /\ ~ gone[c]
      BY <1>2 DEF Delivered
    <2>3. /\ out' \in [Conns -> Seq(ReplyRec \cup {TooLong})] /\ out'[c] = y
          /\ \A d \in Conns \ {c} : out'[d] = out[d]
      <3> HIDE DEF y
      <3> QED
        BY <1>1, <2>1, <2>2
    <2> QED
      BY <2>2, <2>3 DEF ServerTypeOK
  <1>3. CASE Unnoticed(c) \/ Killed(c)
    BY <1>1, <1>3 DEF ServerTypeOK, Unnoticed, Killed
  <1> QED
    BY <1>2, <1>3 DEF Send

\* What a step of c may leave alone.
Untouched(d) == net'[d] = net[d] /\ gone'[d] = gone[d] /\ out'[d] = out[d]

\* Each action, field by field.
LEMMA AcceptStep ==
  ASSUME ServerTypeOK, NEW c \in Conns, createPthreadForUsers(c)
  PROVE  /\ ServerTypeOK'
         /\ \A d \in Conns : Untouched(d)
         /\ \A d \in Conns \ {c} : conn'[d] = conn[d]
         /\ strtokPos' = strtokPos
         /\ conn[c].pc = "new" /\ conn'[c].pc \in {"recv", "closed"}
         /\ conn'[c].buf = conn[c].buf /\ conn'[c].at = conn[c].at
  <1>1. /\ conn[c].pc = "new" /\ UNCHANGED <<alive, net, gone, strtokPos, out>>
    BY DEF createPthreadForUsers
  <1>2. PICK pc \in {"recv", "closed"} : Set(c, [conn[c] EXCEPT !.pc = pc])
    BY DEF createPthreadForUsers
  <1> DEFINE r == [conn[c] EXCEPT !.pc = pc]
  <1>3. /\ r \in ConnRec /\ r.pc = pc /\ r.buf = conn[c].buf /\ r.at = conn[c].at
        /\ Placed(r)
    <2>1. conn[c] \in ConnRec /\ Placed(conn[c])
      BY DEF ServerTypeOK
    <2>2. r \in ConnRec /\ r.pc = pc /\ r.buf = conn[c].buf /\ r.at = conn[c].at
      BY <2>1 DEF ConnRec, Pcs
    <2> QED
      BY <1>1, <2>1, <2>2 DEF Placed
  <1> HIDE DEF r
  <1>4. Set(c, r)
    BY <1>2 DEF r
  <1>5. /\ conn' \in [Conns -> ConnRec] /\ conn'[c] = r
        /\ \A d \in Conns \ {c} : conn'[d] = conn[d]
        /\ \A d \in Conns : Placed(conn'[d])
    BY <1>3, <1>4, SetFacts
  <1>6. ServerTypeOK'
    BY <1>1, <1>5 DEF ServerTypeOK
  <1> QED
    BY <1>1, <1>3, <1>5, <1>6 DEF Untouched

\* recv, when what it returns fits.
LEMMA RecvStep ==
  ASSUME ServerTypeOK, NEW c \in Conns, NEW n \in 1 .. BUFFER_SIZE, recv(c, n)
  PROVE  /\ ServerTypeOK'
         /\ \A d \in Conns \ {c} : conn'[d] = conn[d] /\ Untouched(d)
         /\ strtokPos' = strtokPos
         /\ conn[c].pc = "recv" /\ net'[c] = net[c] + n /\ gone'[c] = gone[c]
         /\ n <= Len(Script[c]) - net[c]
         /\ \/ /\ Len(conn[c].buf) + n >= INBUF
               /\ conn'[c].pc = "recv" /\ conn'[c].buf = << >> /\ conn'[c].at = conn[c].at
               /\ \/ ~ gone[c] /\ out'[c] = Append(out[c], TooLong)
                  \/ gone[c] /\ out'[c] = out[c]
            \/ /\ conn'[c].pc = "line" /\ conn'[c].at = 0 /\ out'[c] = out[c]
               /\ conn'[c].buf = conn[c].buf \o [i \in 1 .. n |-> net[c] + i]
  <1>1. /\ conn[c].pc = "recv" /\ UNCHANGED <<gone, strtokPos>>
        /\ net' = [net EXCEPT ![c] = @ + n] /\ n <= Len(Script[c]) - net[c]
    BY DEF recv
  <1>2. conn[c] \in ConnRec /\ net[c] \in Nat
    BY DEF ServerTypeOK
  <1>3. net' \in [Conns -> Nat] /\ net'[c] = net[c] + n /\ \A d \in Conns \ {c} : net'[d] = net[d]
    BY <1>1, <1>2 DEF ServerTypeOK
  <1>4. CASE Overflows(conn[c].buf, n)
    <2> DEFINE r == [conn[c] EXCEPT !.buf = << >>]
    <2>1. Send(c, TooLong) /\ Set(c, r)
      BY <1>4 DEF recv
    <2>2. r \in ConnRec /\ r.pc = conn[c].pc /\ r.buf = << >> /\ r.at = conn[c].at
      <3>1. << >> \in Seq(Nat)
        OBVIOUS
      <3> QED
        BY <1>2, <3>1 DEF ConnRec
    <2>3. Placed(r)
      BY <1>1, <1>2, <2>2 DEF Placed, ServerTypeOK
    <2> HIDE DEF r
    <2>4. /\ conn' \in [Conns -> ConnRec] /\ conn'[c] = r
          /\ \A d \in Conns \ {c} : conn'[d] = conn[d]
          /\ \A d \in Conns : Placed(conn'[d])
      BY <2>1, <2>2, <2>3, SetFacts
    <2>5. /\ out' \in [Conns -> Seq(ReplyRec \cup {TooLong})] /\ alive' \in BOOLEAN
          /\ \A d \in Conns \ {c} : out'[d] = out[d]
          /\ \/ ~ gone[c] /\ out'[c] = Append(out[c], TooLong)
             \/ gone[c] /\ out'[c] = out[c]
      BY <2>1, SendFacts
    <2>6. ServerTypeOK'
      BY <1>1, <1>3, <2>4, <2>5 DEF ServerTypeOK
    <2> QED
      BY <1>1, <1>3, <1>4, <2>2, <2>4, <2>5, <2>6 DEF Untouched, Overflows
  <1>5. CASE ~ Overflows(conn[c].buf, n)
    <2> DEFINE s == [i \in 1 .. n |-> net[c] + i]
               b == conn[c].buf \o s
               r == [conn[c] EXCEPT !.pc = "line", !.at = 0, !.buf = b]
    <2>1. Set(c, r) /\ UNCHANGED <<alive, out>>
      BY <1>5 DEF recv
    <2>2. b \in Seq(Nat)
      <3>1. s \in Seq(Nat) /\ conn[c].buf \in Seq(Nat)
        BY <1>2 DEF ConnRec
      <3> HIDE DEF s
      <3> QED
        BY <3>1
    <2> HIDE DEF b
    <2>3. r \in ConnRec /\ r.pc = "line" /\ r.at = 0 /\ r.buf = b /\ Placed(r)
      <3>1. r \in ConnRec /\ r.pc = "line" /\ r.at = 0 /\ r.buf = b
        BY <1>2, <2>2 DEF ConnRec, Pcs
      <3> QED
        BY <2>2, <3>1 DEF Placed
    <2> HIDE DEF r
    <2>4. /\ conn' \in [Conns -> ConnRec] /\ conn'[c] = r
          /\ \A d \in Conns \ {c} : conn'[d] = conn[d]
          /\ \A d \in Conns : Placed(conn'[d])
      BY <2>1, <2>3, SetFacts
    <2>5. ServerTypeOK'
      BY <1>1, <1>3, <2>1, <2>4 DEF ServerTypeOK
    <2> QED
      BY <1>1, <1>3, <2>1, <2>3, <2>4, <2>5 DEF Untouched, b
  <1> QED
    BY <1>4, <1>5

LEMMA RecvEndStep ==
  ASSUME ServerTypeOK, NEW c \in Conns, recv_end(c)
  PROVE  /\ ServerTypeOK'
         /\ \A d \in Conns : Untouched(d)
         /\ \A d \in Conns \ {c} : conn'[d] = conn[d]
         /\ strtokPos' = strtokPos
         /\ conn'[c].pc = "closed" /\ conn'[c].buf = conn[c].buf
  <1> DEFINE r == [conn[c] EXCEPT !.pc = "closed"]
  <1>1. Set(c, r) /\ UNCHANGED <<alive, net, gone, strtokPos, out>>
    BY DEF recv_end
  <1>2. conn[c] \in ConnRec /\ Placed(conn[c])
    BY DEF ServerTypeOK
  <1>3. r \in ConnRec /\ r.pc = "closed" /\ r.buf = conn[c].buf /\ r.at = conn[c].at
    BY <1>2 DEF ConnRec, Pcs
  <1>4. Placed(r)
    BY <1>2, <1>3 DEF Placed
  <1> HIDE DEF r
  <1>5. /\ conn' \in [Conns -> ConnRec] /\ conn'[c] = r
        /\ \A d \in Conns \ {c} : conn'[d] = conn[d]
        /\ \A d \in Conns : Placed(conn'[d])
    BY <1>1, <1>3, <1>4, SetFacts
  <1>6. ServerTypeOK'
    BY <1>1, <1>5 DEF ServerTypeOK
  <1> QED
    BY <1>1, <1>3, <1>5, <1>6 DEF Untouched

\* The rest of a buffer.
LEMMA RemainderFacts ==
  ASSUME NEW r \in ConnRec, r.at <= Len(r.buf)
  PROVE  LET x == Remainder(r) IN
         /\ x \in ConnRec /\ x.pc = "recv" /\ x.at = 0 /\ Placed(x)
         /\ Len(x.buf) = Len(r.buf) - r.at
         /\ \A i \in 1 .. Len(x.buf) : x.buf[i] = r.buf[r.at + i]
  <1> DEFINE b == SubSeq(r.buf, r.at + 1, Len(r.buf))
             n == Len(r.buf)
             a == r.at
  <1>1. r.buf \in Seq(Nat) /\ n \in Nat /\ a \in Nat /\ a <= n
    BY DEF ConnRec
  <1>2. \A i \in a + 1 .. n : r.buf[i] \in Nat
    BY <1>1, SMTT(40)
  <1> HIDE DEF n, a
  <1>3. /\ SubSeq(r.buf, a + 1, n) \in Seq(Nat)
        /\ Len(SubSeq(r.buf, a + 1, n)) = IF a + 1 <= n THEN n - (a + 1) + 1 ELSE 0
        /\ \A i \in 1 .. n - (a + 1) + 1 : SubSeq(r.buf, a + 1, n)[i] = r.buf[a + 1 + i - 1]
    <2>1. a + 1 \in Int /\ n \in Int
      BY <1>1
    <2> QED
      BY <1>2, <2>1, SubSeqProperties, SMTT(40)
  <1>4. b \in Seq(Nat) /\ Len(b) = n - a /\ \A i \in 1 .. n - a : b[i] = r.buf[a + i]
    <2>1. SubSeq(r.buf, a + 1, n) = b
      BY DEF a, n
    <2> HIDE DEF b
    <2>2. n - (a + 1) + 1 = n - a /\ (IF a + 1 <= n THEN n - (a + 1) + 1 ELSE 0) = n - a
      BY <1>1
    <2>3. \A i \in 1 .. n - a : a + 1 + i - 1 = a + i
      BY <1>1
    <2> QED
      BY <1>3, <2>1, <2>2, <2>3
  <1>5. Remainder(r) = [r EXCEPT !.pc = "recv", !.at = 0, !.buf = b]
    BY DEF Remainder
  <1> HIDE DEF b
  <1> DEFINE x == Remainder(r)
  <1>6. x \in ConnRec /\ x.pc = "recv" /\ x.at = 0 /\ x.buf = b
    <2> DEFINE y == [r EXCEPT !.pc = "recv", !.at = 0, !.buf = b]
    <2>1. y \in ConnRec /\ y.pc = "recv" /\ y.at = 0 /\ y.buf = b
      BY <1>4 DEF ConnRec, Pcs
    <2> HIDE DEF y
    <2> QED
      BY <1>5, <2>1 DEF y
  <1>7. Placed(x)
    BY <1>4, <1>6 DEF Placed
  <1> QED
    BY <1>4, <1>6, <1>7 DEF a, n

\* next_line: back to recv with the rest, or on with the next line.
LEMMA NextLineStep ==
  ASSUME ServerTypeOK, NEW c \in Conns, next_line(c)
  PROVE  LET r == conn[c]
             nl == LineEnd(c, r) IN
         /\ ServerTypeOK'
         /\ \A d \in Conns : Untouched(d)
         /\ \A d \in Conns \ {c} : conn'[d] = conn[d]
         /\ strtokPos' = strtokPos
         /\ r.pc = "line"
         /\ \/ nl = 0 /\ conn'[c] = Remainder(r)
            \/ /\ nl # 0 /\ conn'[c].pc = "load" /\ conn'[c].at = nl /\ conn'[c].buf = r.buf
               /\ conn'[c].span = SubSeq(r.buf, r.at + 1, nl) /\ conn'[c].toks = << >>
  <1> DEFINE r == conn[c]
             nl == LineEnd(c, r)
             span == SubSeq(r.buf, r.at + 1, nl)
             line == IF Len(span) < LINE THEN span ELSE SubSeq(span, 1, LINE)
             x == [r EXCEPT !.pc = "load", !.at = nl, !.span = span, !.toks = << >>,
                            !.line = line, !.shared = FALSE]
  <1>1. /\ UNCHANGED <<alive, net, gone, strtokPos, out>> /\ r.pc = "line"
        /\ \/ nl = 0 /\ Set(c, Remainder(r))
           \/ nl # 0 /\ Set(c, x)
    BY DEF next_line, AfterLine
  <1>2. r \in ConnRec /\ Placed(r) /\ r.buf \in Seq(Nat) /\ r.at \in Nat /\ r.at <= Len(r.buf)
    BY DEF ServerTypeOK, ConnRec, Placed
  <1>3. nl \in Nat /\ (nl # 0 => nl \in r.at + 1 .. Len(r.buf))
    BY <1>2, LineEndFacts
  <1>4. ASSUME NEW y \in ConnRec, Placed(y), Set(c, y)
        PROVE  /\ ServerTypeOK' /\ conn'[c] = y
               /\ \A d \in Conns : Untouched(d)
               /\ \A d \in Conns \ {c} : conn'[d] = conn[d]
    <2>1. /\ conn' \in [Conns -> ConnRec] /\ conn'[c] = y
          /\ \A d \in Conns \ {c} : conn'[d] = conn[d]
          /\ \A d \in Conns : Placed(conn'[d])
      BY <1>4, SetFacts
    <2> QED
      BY <1>1, <2>1 DEF ServerTypeOK, Untouched
  <1>5. CASE nl = 0 /\ Set(c, Remainder(r))
    <2>1. Remainder(r) \in ConnRec /\ Placed(Remainder(r))
      BY <1>2, RemainderFacts
    <2> HIDE DEF r
    <2> QED
      BY <1>1, <1>4, <1>5, <2>1 DEF r
  <1>6. CASE nl # 0 /\ Set(c, x)
    <2> HIDE DEF r, nl
    <2>1. span \in Seq(Nat)
      <3>1. \A i \in r.at + 1 .. nl : r.buf[i] \in Nat
        BY <1>2, <1>3, <1>6, SMTT(40)
      <3>2. r.at + 1 \in Int /\ nl \in Int
        BY <1>2, <1>3
      <3> QED
        BY <3>1, <3>2, SubSeqProperties
    <2>2. line \in Seq(Nat)
      <3> HIDE DEF span
      <3>1. CASE Len(span) < LINE
        BY <2>1, <3>1
      <3>2. CASE ~ (Len(span) < LINE)
        <4>1. \A i \in 1 .. LINE : span[i] \in Nat
          BY <2>1, <3>2
        <4>2. 1 \in Int /\ LINE \in Int
          OBVIOUS
        <4>3. SubSeq(span, 1, LINE) \in Seq(Nat)
          BY <4>1, <4>2, SubSeqProperties
        <4> QED
          BY <3>2, <4>3
      <3> QED
        BY <3>1, <3>2
    <2>3. << >> \in Seq(Units)
      OBVIOUS
    <2> HIDE DEF span, line
    <2>4. /\ x \in ConnRec /\ x.pc = "load" /\ x.at = nl /\ x.buf = r.buf
          /\ x.span = span /\ x.toks = << >>
      BY <1>2, <1>3, <2>1, <2>2, <2>3 DEF ConnRec, Pcs
    <2>5. Placed(x)
      BY <1>2, <1>3, <1>6, <2>4 DEF Placed
    <2> HIDE DEF x
    <2>6. /\ ServerTypeOK' /\ conn'[c] = x
          /\ \A d \in Conns : Untouched(d)
          /\ \A d \in Conns \ {c} : conn'[d] = conn[d]
      BY <1>4, <1>6, <2>4, <2>5
    <2> QED
      BY <1>1, <1>6, <2>4, <2>6 DEF r, nl, span
  <1> QED
    BY <1>1, <1>5, <1>6

LEMMA LoadStep ==
  ASSUME ServerTypeOK, NEW c \in Conns, strtok_load(c)
  PROVE  /\ ServerTypeOK'
         /\ \A d \in Conns : Untouched(d)
         /\ \A d \in Conns \ {c} : SameButShared(d)
         /\ strtokPos' = strtokPos
         /\ conn[c].pc \in {"load", "more"} /\ conn'[c].pc = "store"
         /\ conn'[c].buf = conn[c].buf /\ conn'[c].at = conn[c].at
         /\ conn'[c].span = conn[c].span /\ conn'[c].line = conn[c].line
         /\ conn'[c].toks = conn[c].toks
         /\ conn'[c].ptr = IF conn[c].pc = "load" THEN [of |-> c, next |-> 1] ELSE strtokPos
         /\ ~ conn'[c].shared => ~ conn[c].shared
  <1> DEFINE q == IF conn[c].pc = "load" THEN [of |-> c, next |-> 1] ELSE strtokPos
             r == [conn[c] EXCEPT !.pc = "store", !.ptr = q]
  <1>1. /\ conn[c].pc \in {"load", "more"} /\ Disturbs(c, r)
        /\ UNCHANGED <<alive, net, gone, strtokPos, out>>
    BY DEF strtok_load, First
  <1>2. conn[c] \in ConnRec /\ Placed(conn[c]) /\ q \in Pos
    BY DEF ServerTypeOK, Pos
  <1> HIDE DEF q
  <1>3. /\ r \in ConnRec /\ r.pc = "store" /\ r.ptr = q /\ r.buf = conn[c].buf
        /\ r.at = conn[c].at /\ r.span = conn[c].span /\ r.line = conn[c].line
        /\ r.toks = conn[c].toks /\ r.shared = conn[c].shared
    BY <1>2 DEF ConnRec, Pcs
  <1>4. Placed(r)
    BY <1>2, <1>3 DEF Placed
  <1> HIDE DEF r
  <1>5. /\ conn' \in [Conns -> ConnRec]
        /\ conn'[c].pc = r.pc /\ conn'[c].buf = r.buf /\ conn'[c].at = r.at
        /\ conn'[c].span = r.span /\ conn'[c].line = r.line
        /\ conn'[c].toks = r.toks /\ conn'[c].ptr = r.ptr
        /\ ~ conn'[c].shared => ~ r.shared
        /\ \A d \in Conns \ {c} : SameButShared(d)
        /\ \A d \in Conns : Placed(conn'[d])
    BY <1>1, <1>3, <1>4, DisturbsFacts
  <1>6. ServerTypeOK'
    BY <1>1, <1>5 DEF ServerTypeOK
  <1> QED
    BY <1>1, <1>3, <1>5, <1>6 DEF Untouched, q

\* strtok_store: a word, or the end.  A parse that ran alone reads its own line.
LEMMA StoreStep ==
  ASSUME ServerTypeOK, NEW c \in Conns, strtok_store(c)
  PROVE  LET r == conn[c]
             own == Words(c, r.line) IN
         /\ ServerTypeOK'
         /\ \A d \in Conns : Untouched(d)
         /\ \A d \in Conns \ {c} : SameButShared(d)
         /\ r.pc = "store"
         /\ conn'[c].buf = r.buf /\ conn'[c].at = r.at
         /\ conn'[c].span = r.span /\ conn'[c].line = r.line
         /\ ~ conn'[c].shared => ~ r.shared
         /\ conn'[c].pc \in {"more", "answer"}
         /\ ~ r.shared /\ r.ptr.of = c =>
              \/ /\ r.ptr.next <= Len(own) /\ conn'[c].pc = "more"
                 /\ strtokPos' = [of |-> c, next |-> r.ptr.next + 1]
                 /\ conn'[c].toks = Append(r.toks, own[r.ptr.next])
              \/ /\ r.ptr.next > Len(own) /\ conn'[c].pc = "answer"
                 /\ conn'[c].toks = r.toks
  <1> DEFINE r == conn[c]
             own == IF r.ptr.of = NoConn THEN << >> ELSE Words(r.ptr.of, conn[r.ptr.of].line)
             word == [r EXCEPT !.pc = "more", !.toks = Append(@, own[r.ptr.next])]
             end == [r EXCEPT !.pc = "answer"]
  <1>1. r.pc = "store" /\ UNCHANGED <<alive, net, gone, out>>
    BY DEF strtok_store
  <1>2. r \in ConnRec /\ Placed(r) /\ r.ptr \in Pos /\ r.ptr.next \in Nat \ {0} /\ r.toks \in Seq(Units)
    BY DEF ServerTypeOK, ConnRec, Pos
  <1>3. own \in Seq(Units) /\ Len(own) + 1 \in Nat \ {0}
    <2>1. CASE r.ptr.of = NoConn
      BY <2>1
    <2>2. CASE r.ptr.of \in Conns
      <3>1. conn[r.ptr.of].line \in Seq(Nat)
        BY <2>2 DEF ServerTypeOK, ConnRec
      <3>2. Words(r.ptr.of, conn[r.ptr.of].line) \in Seq(Units)
        BY <2>2, <3>1, WordsType
      <3> QED
        BY <2>2, <3>2
    <2> QED
      BY <1>2, <2>1, <2>2 DEF Pos
  <1>4. r.ptr.of = c => own = Words(c, r.line)
    OBVIOUS
  <1>5. ASSUME NEW y \in ConnRec, Placed(y), Disturbs(c, y), strtokPos' \in Pos
        PROVE  /\ ServerTypeOK'
               /\ \A d \in Conns : Untouched(d)
               /\ \A d \in Conns \ {c} : SameButShared(d)
               /\ conn'[c].pc = y.pc /\ conn'[c].buf = y.buf /\ conn'[c].at = y.at
               /\ conn'[c].span = y.span /\ conn'[c].line = y.line
               /\ conn'[c].toks = y.toks
               /\ ~ conn'[c].shared => ~ y.shared
    <2>1. /\ conn' \in [Conns -> ConnRec]
          /\ conn'[c].pc = y.pc /\ conn'[c].buf = y.buf /\ conn'[c].at = y.at
          /\ conn'[c].span = y.span /\ conn'[c].line = y.line
          /\ conn'[c].toks = y.toks /\ conn'[c].ptr = y.ptr
          /\ ~ conn'[c].shared => ~ y.shared
          /\ \A d \in Conns \ {c} : SameButShared(d)
          /\ \A d \in Conns : Placed(conn'[d])
      BY <1>5, DisturbsFacts
    <2> QED
      BY <1>1, <1>5, <2>1 DEF ServerTypeOK, Untouched
  <1>6. CASE /\ r.ptr.next <= Len(own)
             /\ strtokPos' \in {[r.ptr EXCEPT !.next = @ + 1]}
                  \cup (IF r.shared THEN {[r.ptr EXCEPT !.next = Len(own) + 1]} ELSE {})
             /\ Disturbs(c, word)
    <2>1. /\ strtokPos' \in Pos
          /\ ~ r.shared /\ r.ptr.of = c => strtokPos' = [of |-> c, next |-> r.ptr.next + 1]
      <3> HIDE DEF r, own
      <3> QED
        BY <1>2, <1>3, <1>6, SMTT(40) DEF Pos
    <2> DEFINE t == Append(r.toks, own[r.ptr.next])
    <2>2. t \in Seq(Units)
      <3> HIDE DEF own, r
      <3>1. r.ptr.next \in 1 .. Len(own)
        BY <1>2, <1>3, <1>6
      <3>2. own[r.ptr.next] \in Units
        BY <1>3, <3>1, ElementOfSeq
      <3> QED
        BY <1>2, <3>2
    <2>3. word = [r EXCEPT !.pc = "more", !.toks = t]
      OBVIOUS
    <2> HIDE DEF t
    <2>4. /\ word \in ConnRec /\ word.pc = "more" /\ word.toks = t /\ word.buf = r.buf
          /\ word.at = r.at /\ word.span = r.span /\ word.line = r.line /\ word.shared = r.shared
      <3> DEFINE x == [r EXCEPT !.pc = "more", !.toks = t]
      <3>1. /\ x \in ConnRec /\ x.pc = "more" /\ x.toks = t /\ x.buf = r.buf
            /\ x.at = r.at /\ x.span = r.span /\ x.line = r.line /\ x.shared = r.shared
        <4> HIDE DEF r
        <4> QED
          BY <1>2, <2>2 DEF ConnRec, Pcs
      <3> HIDE DEF x, word
      <3> QED
        BY <2>3, <3>1 DEF x
    <2> HIDE DEF word, own, r
    <2>5. Placed(word)
      BY <1>2, <2>4 DEF Placed
    <2>6. /\ ServerTypeOK'
          /\ \A d \in Conns : Untouched(d)
          /\ \A d \in Conns \ {c} : SameButShared(d)
          /\ conn'[c].pc = word.pc /\ conn'[c].buf = word.buf /\ conn'[c].at = word.at
          /\ conn'[c].span = word.span /\ conn'[c].line = word.line
          /\ conn'[c].toks = word.toks
          /\ ~ conn'[c].shared => ~ word.shared
      BY <1>5, <1>6, <2>1, <2>4, <2>5
    <2> QED
      BY <1>1, <1>4, <1>6, <2>1, <2>4, <2>6 DEF r, t
  <1>7. CASE /\ r.ptr.next > Len(own) \/ r.shared
             /\ strtokPos' = [r.ptr EXCEPT !.next = Len(own) + 1]
             /\ Disturbs(c, end)
    <2>1. strtokPos' \in Pos
      <3> HIDE DEF r, own
      <3> QED
        BY <1>2, <1>3, <1>7 DEF Pos
    <2>2. /\ end \in ConnRec /\ end.pc = "answer" /\ end.toks = r.toks /\ end.buf = r.buf
          /\ end.at = r.at /\ end.span = r.span /\ end.line = r.line /\ end.shared = r.shared
      <3> HIDE DEF r
      <3> QED
        BY <1>2 DEF ConnRec, Pcs
    <2> HIDE DEF end, own, r
    <2>3. Placed(end)
      BY <1>2, <2>2 DEF Placed
    <2>4. /\ ServerTypeOK'
          /\ \A d \in Conns : Untouched(d)
          /\ \A d \in Conns \ {c} : SameButShared(d)
          /\ conn'[c].pc = end.pc /\ conn'[c].buf = end.buf /\ conn'[c].at = end.at
          /\ conn'[c].span = end.span /\ conn'[c].line = end.line
          /\ conn'[c].toks = end.toks
          /\ ~ conn'[c].shared => ~ end.shared
      BY <1>5, <1>7, <2>1, <2>2, <2>3
    <2> QED
      BY <1>1, <1>4, <1>7, <2>2, <2>4 DEF r
  <1> QED
    BY <1>6, <1>7 DEF strtok_store

\* answer: the reply is recorded if the client is there.
LEMMA AnswerStep ==
  ASSUME ServerTypeOK, NEW c \in Conns, answer(c)
  PROVE  LET r == conn[c] IN
         /\ ServerTypeOK'
         /\ \A d \in Conns \ {c} : conn'[d] = conn[d] /\ Untouched(d)
         /\ strtokPos' = strtokPos /\ net'[c] = net[c] /\ gone'[c] = gone[c]
         /\ r.pc = "answer" /\ Reply(r) \in ReplyRec
         /\ conn'[c].pc \in {"recv", "line", "closed"}
         /\ \/ gone[c] /\ out'[c] = out[c]
            \/ /\ ~ gone[c] /\ out'[c] = Append(out[c], Reply(r))
               /\ conn'[c].pc # "recv" /\ conn'[c].buf = r.buf /\ conn'[c].at = r.at
  <1> DEFINE r == conn[c]
             request == getRequest(r.toks)
             done == [r EXCEPT !.span = << >>, !.toks = << >>, !.ptr = NewConn.ptr, !.shared = FALSE]
  <1>1. r.pc = "answer" /\ UNCHANGED <<net, gone, strtokPos>>
    BY DEF answer
  <1>2. r \in ConnRec /\ Placed(r) /\ r.toks \in Seq(Units)
    BY DEF ServerTypeOK, ConnRec
  <1>3. Reply(r) \in ReplyRec
    <2>1. request \in Units \cup {"invalid"}
      <3>1. r.toks # << >> => r.toks[1] \in Units
        <4> HIDE DEF r
        <4>1. r.toks # << >> => 1 \in 1 .. Len(r.toks)
          BY <1>2
        <4> QED
          BY <1>2, <4>1, ElementOfSeq
      <3> QED
        BY <3>1 DEF getRequest
    <2> HIDE DEF r, request
    <2>2. Reply(r) = [kind |-> "reply", span |-> r.span, line |-> r.line, toks |-> r.toks,
                      request |-> request, shared |-> r.shared]
      BY DEF Reply, request
    <2> QED
      BY <1>2, <2>1, <2>2 DEF ReplyRec, ConnRec
  <1>4. /\ done \in ConnRec /\ done.buf = r.buf /\ done.at = r.at /\ done.pc = r.pc
        /\ done.at <= Len(done.buf)
    <2>1. << >> \in Seq(Nat) /\ << >> \in Seq(Units)
      OBVIOUS
    <2>2. NewConn.ptr \in Pos
      BY DEF NewConn, Pos
    <2> HIDE DEF r
    <2>3. done \in ConnRec /\ done.buf = r.buf /\ done.at = r.at /\ done.pc = r.pc
      BY <1>2, <2>1, <2>2 DEF ConnRec
    <2> QED
      BY <1>2, <2>3 DEF Placed
  <1>5. ASSUME NEW pc \in {"line", "closed"}
        PROVE  LET x == [done EXCEPT !.pc = pc] IN
               x \in ConnRec /\ Placed(x) /\ x.pc = pc /\ x.buf = r.buf /\ x.at = r.at
    <2> HIDE DEF done
    <2> DEFINE x == [done EXCEPT !.pc = pc]
    <2>1. x \in ConnRec /\ x.pc = pc /\ x.buf = done.buf /\ x.at = done.at
      BY <1>4 DEF ConnRec, Pcs
    <2> HIDE DEF x
    <2>2. Placed(x)
      BY <1>4, <2>1 DEF Placed
    <2> QED
      BY <1>4, <2>1, <2>2 DEF x
  <1> HIDE DEF done
  <1>6. ASSUME NEW pc \in {"line", "closed"}, Send(c, Reply(r)), Set(c, [done EXCEPT !.pc = pc])
        PROVE  /\ ServerTypeOK'
               /\ \A d \in Conns \ {c} : conn'[d] = conn[d] /\ Untouched(d)
               /\ conn'[c].pc \in {"recv", "line", "closed"}
               /\ \/ gone[c] /\ out'[c] = out[c]
                  \/ /\ ~ gone[c] /\ out'[c] = Append(out[c], Reply(r))
                     /\ conn'[c].pc # "recv" /\ conn'[c].buf = r.buf /\ conn'[c].at = r.at
    <2> DEFINE x == [done EXCEPT !.pc = pc]
    <2>1. x \in ConnRec /\ Placed(x) /\ x.pc = pc /\ x.buf = r.buf /\ x.at = r.at /\ Set(c, x)
      BY <1>5, <1>6
    <2> HIDE DEF x
    <2>2. /\ conn' \in [Conns -> ConnRec] /\ conn'[c] = x
          /\ \A d \in Conns \ {c} : conn'[d] = conn[d]
          /\ \A d \in Conns : Placed(conn'[d])
      BY <2>1, SetFacts
    <2>3. /\ out' \in [Conns -> Seq(ReplyRec \cup {TooLong})] /\ alive' \in BOOLEAN
          /\ \A d \in Conns \ {c} : out'[d] = out[d]
          /\ \/ ~ gone[c] /\ out'[c] = Append(out[c], Reply(r))
             \/ gone[c] /\ out'[c] = out[c]
      <3> HIDE DEF r
      <3> QED
        BY <1>3, <1>6, SendFacts
    <2>4. ServerTypeOK'
      BY <1>1, <2>2, <2>3 DEF ServerTypeOK
    <2> QED
      BY <1>1, <1>6, <2>1, <2>2, <2>3, <2>4 DEF Untouched
  <1>7. ASSUME gone[c], Set(c, Remainder(done)), UNCHANGED <<alive, out>>
        PROVE  /\ ServerTypeOK'
               /\ \A d \in Conns \ {c} : conn'[d] = conn[d] /\ Untouched(d)
               /\ conn'[c].pc \in {"recv", "line", "closed"}
               /\ gone[c] /\ out'[c] = out[c]
    <2>1. Remainder(done) \in ConnRec /\ Placed(Remainder(done)) /\ Remainder(done).pc = "recv"
      BY <1>4, RemainderFacts
    <2>2. /\ conn' \in [Conns -> ConnRec] /\ conn'[c] = Remainder(done)
          /\ \A d \in Conns \ {c} : conn'[d] = conn[d]
          /\ \A d \in Conns : Placed(conn'[d])
      BY <1>7, <2>1, SetFacts
    <2>3. ServerTypeOK'
      BY <1>1, <1>7, <2>2 DEF ServerTypeOK
    <2> QED
      BY <1>1, <1>7, <2>1, <2>2, <2>3 DEF Untouched
  <1>8. \/ \E pc \in {"line", "closed"} : Send(c, Reply(r)) /\ Set(c, [done EXCEPT !.pc = pc])
        \/ gone[c] /\ Set(c, Remainder(done)) /\ UNCHANGED <<alive, out>>
    BY DEF answer, done
  <1> QED
    BY <1>1, <1>3, <1>6, <1>7, <1>8

LEMMA DisconnectStep ==
  ASSUME ServerTypeOK, NEW c \in Conns, Disconnect(c)
  PROVE  /\ ServerTypeOK'
         /\ UNCHANGED <<conn, net, strtokPos, out>>
         /\ \A d \in Conns : ~ gone'[d] => ~ gone[d]
  BY DEF ServerTypeOK, Disconnect

-----------------------------------------------------------------------------
(***************************************************************************)
(* The inductive invariant: the words of a parse that ran alone.           *)
(***************************************************************************)

\* toks are the first words of the line of c.
OwnPrefix(c) ==
    LET r == conn[c] IN
    /\ Len(r.toks) <= Len(Words(c, r.line))
    /\ \A k \in 1 .. Len(r.toks) : r.toks[k] = Words(c, r.line)[k]

\* Where the next strtok of c begins.
NextWord(c) == [of |-> c, next |-> Len(conn[c].toks) + 1]

\* As long as no other parse has run, strtok's position is the one of c's parse.
ParseInv(c) ==
    LET r == conn[c] IN
    /\ r.pc = "load" => r.toks = << >>
    /\ ~ r.shared =>
         /\ r.pc \in {"more", "store"} => OwnPrefix(c)
         /\ r.pc = "more" => strtokPos = NextWord(c)
         /\ r.pc = "store" => r.ptr = NextWord(c)
         /\ r.pc = "answer" => r.toks = Words(c, r.line)

OwnReplies(c) ==
    \A k \in DOMAIN out[c] :
      LET x == out[c][k] IN x.kind = "reply" /\ ~ x.shared => x.toks = Words(c, x.line)

WordsInv == ServerTypeOK /\ \A c \in Conns : ParseInv(c) /\ OwnReplies(c)

\* A step that does not concern the parse of d.
LEMMA ParseKept ==
  ASSUME NEW d \in Conns, ParseInv(d), conn'[d] = conn[d], strtokPos' = strtokPos
  PROVE  ParseInv(d)'
  BY SMTT(40) DEF ParseInv, OwnPrefix, NextWord, Words

\* The strtok of another handler.
LEMMA ParseDisturbed ==
  ASSUME ServerTypeOK, NEW d \in Conns, ParseInv(d), SameButShared(d)
  PROVE  ParseInv(d)'
  <1>1. CASE conn'[d].shared
    BY <1>1 DEF ParseInv, SameButShared
  <1>2. CASE ~ conn'[d].shared
    <2>1. ~ conn[d].shared /\ conn[d].pc \notin {"more", "store"}
      BY <1>2, SMTT(40) DEF SameButShared, Parsing
    <2> QED
      BY <1>2, <2>1 DEF ParseInv, SameButShared, Words
  <1> QED
    BY <1>1, <1>2

LEMMA RepliesKept ==
  ASSUME NEW d \in Conns, OwnReplies(d), out'[d] = out[d]
  PROVE  OwnReplies(d)'
  BY SMTT(40) DEF OwnReplies, Words

\* A new reply.
LEMMA RepliesGrow ==
  ASSUME ServerTypeOK, NEW c \in Conns, OwnReplies(c), NEW x \in ReplyRec \cup {TooLong},
         out'[c] = Append(out[c], x),
         x.kind = "reply" /\ ~ x.shared => x.toks = Words(c, x.line)
  PROVE  OwnReplies(c)'
  <1>1. out[c] \in Seq(ReplyRec \cup {TooLong})
    BY DEF ServerTypeOK
  <1>2. /\ DOMAIN out'[c] = 1 .. Len(out[c]) + 1 /\ Len(out[c]) \in Nat
        /\ DOMAIN out[c] = 1 .. Len(out[c])
        /\ out'[c][Len(out[c]) + 1] = x
        /\ \A k \in 1 .. Len(out[c]) : out'[c][k] = out[c][k]
    BY <1>1
  <1>3. ASSUME NEW k \in DOMAIN out'[c], out'[c][k].kind = "reply", ~ out'[c][k].shared
        PROVE  out'[c][k].toks = Words(c, out'[c][k].line)
    <2>1. CASE k \in 1 .. Len(out[c])
      BY <1>2, <1>3, <2>1 DEF OwnReplies
    <2>2. CASE k = Len(out[c]) + 1
      BY <1>2, <1>3, <2>2
    <2> QED
      BY <1>2, <2>1, <2>2
  <1> QED
    BY <1>3 DEF OwnReplies, Words

LEMMA WordsLoad ==
  ASSUME WordsInv, NEW c \in Conns, strtok_load(c)
  PROVE  WordsInv'
  <1>1. ServerTypeOK /\ \A d \in Conns : ParseInv(d) /\ OwnReplies(d)
    BY DEF WordsInv
  <1>2. /\ ServerTypeOK'
        /\ \A d \in Conns : Untouched(d)
        /\ \A d \in Conns \ {c} : SameButShared(d)
        /\ strtokPos' = strtokPos
        /\ conn[c].pc \in {"load", "more"} /\ conn'[c].pc = "store"
        /\ conn'[c].line = conn[c].line
        /\ conn'[c].toks = conn[c].toks
        /\ conn'[c].ptr = IF conn[c].pc = "load" THEN [of |-> c, next |-> 1] ELSE strtokPos
        /\ ~ conn'[c].shared => ~ conn[c].shared
    BY <1>1, LoadStep
  <1>a. OwnPrefix(c) => OwnPrefix(c)'
    <2>1. Words(c, conn[c].line)' = Words(c, conn[c].line)
      BY <1>2 DEF Words
    <2> QED
      BY <1>2, <2>1 DEF OwnPrefix
  <1>3. ParseInv(c)'
    <2> SUFFICES ASSUME ~ conn'[c].shared
                 PROVE  OwnPrefix(c)' /\ conn'[c].ptr = NextWord(c)'
      BY <1>2 DEF ParseInv
    <2>1. CASE conn[c].pc = "load"
      <3>1. conn[c].toks = << >> /\ Len(conn[c].toks) = 0
        BY <1>1, <2>1 DEF ParseInv
      <3>2. Words(c, conn[c].line) \in Seq(Units)
        BY <1>1, WordsType DEF ServerTypeOK, ConnRec
      <3>3. OwnPrefix(c)
        BY <3>1, <3>2 DEF OwnPrefix
      <3>4. OwnPrefix(c)'
        BY <1>a, <3>3
      <3>5. conn'[c].ptr = NextWord(c)'
        BY <1>2, <2>1, <3>1 DEF NextWord
      <3> QED
        BY <3>4, <3>5
    <2>2. CASE conn[c].pc = "more"
      <3>1. OwnPrefix(c) /\ strtokPos = NextWord(c)
        BY <1>1, <1>2, <2>2 DEF ParseInv
      <3>2. OwnPrefix(c)'
        BY <1>a, <3>1
      <3>3. conn'[c].ptr = NextWord(c)'
        BY <1>2, <2>2, <3>1 DEF NextWord
      <3> QED
        BY <3>2, <3>3
    <2> QED
      BY <1>2, <2>1, <2>2
  <1>4. \A d \in Conns \ {c} : ParseInv(d)'
    BY <1>1, <1>2, ParseDisturbed
  <1>5. \A d \in Conns : OwnReplies(d)'
    BY <1>1, <1>2, RepliesKept DEF Untouched
  <1> QED
    BY <1>2, <1>3, <1>4, <1>5 DEF WordsInv

LEMMA WordsStore ==
  ASSUME WordsInv, NEW c \in Conns, strtok_store(c)
  PROVE  WordsInv'
  <1> DEFINE r == conn[c]
             own == Words(c, r.line)
             n == Len(r.toks)
  <1>1. ServerTypeOK /\ \A d \in Conns : ParseInv(d) /\ OwnReplies(d)
    BY DEF WordsInv
  <1>2. /\ ServerTypeOK'
        /\ \A d \in Conns : Untouched(d)
        /\ \A d \in Conns \ {c} : SameButShared(d)
        /\ r.pc = "store" /\ conn'[c].line = r.line
        /\ ~ conn'[c].shared => ~ r.shared
        /\ conn'[c].pc \in {"more", "answer"}
        /\ ~ r.shared /\ r.ptr.of = c =>
             \/ /\ r.ptr.next <= Len(own) /\ conn'[c].pc = "more"
                /\ strtokPos' = [of |-> c, next |-> r.ptr.next + 1]
                /\ conn'[c].toks = Append(r.toks, own[r.ptr.next])
             \/ /\ r.ptr.next > Len(own) /\ conn'[c].pc = "answer"
                /\ conn'[c].toks = r.toks
    BY <1>1, StoreStep
  <1>3. ParseInv(c)'
    <2> SUFFICES ASSUME ~ conn'[c].shared
                 PROVE  /\ conn'[c].pc = "more" => OwnPrefix(c)' /\ strtokPos' = NextWord(c)'
                        /\ conn'[c].pc = "answer" => conn'[c].toks = own
      BY <1>2 DEF ParseInv, Words
    <2>1. /\ n <= Len(own) /\ \A k \in 1 .. n : r.toks[k] = own[k]
          /\ r.ptr.of = c /\ r.ptr.next = n + 1
      <3>1. OwnPrefix(c) /\ r.ptr = NextWord(c)
        BY <1>1, <1>2 DEF ParseInv
      <3>2. r.ptr.of = c /\ r.ptr.next = n + 1
        BY <3>1 DEF NextWord
      <3>3. n <= Len(own) /\ \A k \in 1 .. n : r.toks[k] = own[k]
        BY <3>1 DEF OwnPrefix
      <3> QED
        BY <3>2, <3>3
    <2>2. r.toks \in Seq(Units) /\ own \in Seq(Units) /\ n \in Nat /\ Len(own) \in Nat
      <3>1. r.toks \in Seq(Units) /\ r.line \in Seq(Nat)
        BY <1>1 DEF ServerTypeOK, ConnRec
      <3> QED
        BY <3>1, WordsType
    <2>3. CASE /\ n + 1 <= Len(own) /\ conn'[c].pc = "more"
               /\ strtokPos' = [of |-> c, next |-> n + 1 + 1]
               /\ conn'[c].toks = Append(r.toks, own[n + 1])
      <3> DEFINE t == conn'[c].toks
      <3> HIDE DEF own
      <3>1. own[n + 1] \in Units
        <4>1. n + 1 \in 1 .. Len(own)
          BY <2>2, <2>3
        <4> QED
          BY <2>2, <4>1, ElementOfSeq
      <3>2. /\ Len(t) = n + 1 /\ t[n + 1] = own[n + 1]
            /\ \A k \in 1 .. n : t[k] = r.toks[k]
        <4> HIDE DEF r
        <4>1. t = Append(r.toks, own[n + 1])
          BY <2>3 DEF r
        <4> HIDE DEF t
        <4> QED
          BY <2>2, <3>1, <4>1
      <3>3. \A k \in 1 .. n + 1 : t[k] = own[k]
        <4> HIDE DEF t, n
        <4> QED
          BY <2>1, <2>2, <3>2
      <3>4. OwnPrefix(c)'
        <4>1. Words(c, conn[c].line)' = own
          BY <1>2 DEF Words, own
        <4> QED
          BY <2>3, <3>2, <3>3, <4>1, SMTT(40) DEF OwnPrefix
      <3>5. strtokPos' = NextWord(c)'
        BY <2>3, <3>2 DEF NextWord
      <3> QED
        BY <2>3, <3>4, <3>5
    <2>4. CASE /\ n + 1 > Len(own) /\ conn'[c].pc = "answer" /\ conn'[c].toks = r.toks
      <3> HIDE DEF own
      <3>1. n = Len(own)
        BY <2>1, <2>2, <2>4
      <3>2. r.toks = own
        BY <2>1, <2>2, <3>1, SeqEqual
      <3> QED
        BY <2>4, <3>2
    <2> QED
      BY <1>2, <2>1, <2>3, <2>4, SMTT(40)
  <1>4. \A d \in Conns \ {c} : ParseInv(d)'
    BY <1>1, <1>2, ParseDisturbed
  <1>5. \A d \in Conns : OwnReplies(d)'
    BY <1>1, <1>2, RepliesKept DEF Untouched
  <1> QED
    BY <1>2, <1>3, <1>4, <1>5 DEF WordsInv

LEMMA WordsAnswer ==
  ASSUME WordsInv, NEW c \in Conns, answer(c)
  PROVE  WordsInv'
  <1> DEFINE r == conn[c]
  <1>1. ServerTypeOK /\ \A d \in Conns : ParseInv(d) /\ OwnReplies(d)
    BY DEF WordsInv
  <1>2. /\ ServerTypeOK'
        /\ \A d \in Conns \ {c} : conn'[d] = conn[d] /\ Untouched(d)
        /\ strtokPos' = strtokPos
        /\ r.pc = "answer" /\ Reply(r) \in ReplyRec
        /\ conn'[c].pc \in {"recv", "line", "closed"}
        /\ out'[c] = out[c] \/ out'[c] = Append(out[c], Reply(r))
    BY <1>1, AnswerStep
  <1>3. ParseInv(c)'
    BY <1>2 DEF ParseInv
  <1>4. OwnReplies(c)'
    <2>1. CASE out'[c] = out[c]
      BY <1>1, <2>1, RepliesKept
    <2>2. CASE out'[c] = Append(out[c], Reply(r))
      <3>1. /\ Reply(r).kind = "reply" /\ Reply(r).shared = r.shared
            /\ Reply(r).toks = r.toks /\ Reply(r).line = r.line
        BY DEF Reply
      <3>2. ~ r.shared => r.toks = Words(c, r.line)
        BY <1>1, <1>2 DEF ParseInv
      <3> HIDE DEF r
      <3> QED
        BY <1>1, <1>2, <2>2, <3>1, <3>2, RepliesGrow
    <2> QED
      BY <1>2, <2>1, <2>2
  <1>5. \A d \in Conns \ {c} : ParseInv(d)' /\ OwnReplies(d)'
    BY <1>1, <1>2, ParseKept, RepliesKept DEF Untouched
  <1> QED
    BY <1>2, <1>3, <1>4, <1>5 DEF WordsInv

\* The steps before a line is parsed.
LEMMA WordsOther ==
  ASSUME WordsInv, NEW c \in Conns,
         \/ createPthreadForUsers(c) \/ recv_end(c) \/ next_line(c) \/ Disconnect(c)
         \/ \E n \in 1 .. BUFFER_SIZE : recv(c, n)
  PROVE  WordsInv'
  <1>1. ServerTypeOK /\ \A d \in Conns : ParseInv(d) /\ OwnReplies(d)
    BY DEF WordsInv
  <1>2. ASSUME ServerTypeOK', strtokPos' = strtokPos,
               \A d \in Conns \ {c} : conn'[d] = conn[d] /\ out'[d] = out[d],
               conn'[c].pc \in {"new", "recv", "line", "closed"}
                 \/ (conn'[c].pc = "load" /\ conn'[c].toks = << >>)
                 \/ conn'[c] = conn[c],
               out'[c] = out[c] \/ out'[c] = Append(out[c], TooLong)
        PROVE  WordsInv'
    <2>1. ParseInv(c)'
      <3>1. CASE conn'[c] = conn[c]
        BY <1>1, <1>2, <3>1, ParseKept
      <3>2. CASE conn'[c] # conn[c]
        BY <1>2, <3>2 DEF ParseInv
      <3> QED
        BY <3>1, <3>2
    <2>2. OwnReplies(c)'
      <3>1. CASE out'[c] = out[c]
        BY <1>1, <3>1, RepliesKept
      <3>2. CASE out'[c] = Append(out[c], TooLong)
        <4>1. TooLong.kind # "reply"
          BY DEF TooLong
        <4> QED
          BY <1>1, <3>2, <4>1, RepliesGrow
      <3> QED
        BY <1>2, <3>1, <3>2
    <2>3. \A d \in Conns \ {c} : ParseInv(d)' /\ OwnReplies(d)'
      BY <1>1, <1>2, ParseKept, RepliesKept
    <2> QED
      BY <1>2, <2>1, <2>2, <2>3 DEF WordsInv
  <1>3. CASE createPthreadForUsers(c)
    BY <1>1, <1>2, <1>3, AcceptStep DEF Untouched
  <1>4. CASE recv_end(c)
    BY <1>1, <1>2, <1>4, RecvEndStep DEF Untouched
  <1>5. CASE next_line(c)
    <2>1. conn[c] \in ConnRec /\ conn[c].at <= Len(conn[c].buf)
      BY <1>1 DEF ServerTypeOK, Placed
    <2>2. Remainder(conn[c]).pc = "recv"
      BY <2>1, RemainderFacts
    <2> QED
      BY <1>1, <1>2, <1>5, <2>2, NextLineStep DEF Untouched
  <1>6. CASE Disconnect(c)
    BY <1>1, <1>2, <1>6, DisconnectStep
  <1>7. ASSUME NEW n \in 1 .. BUFFER_SIZE, recv(c, n)
        PROVE  WordsInv'
    BY <1>1, <1>2, <1>7, RecvStep DEF Untouched
  <1> QED
    BY <1>3, <1>4, <1>5, <1>6, <1>7

LEMMA ServerInit ==
  ASSUME Init
  PROVE  /\ ServerTypeOK
         /\ \A c \in Conns : conn[c].pc = "new" /\ conn[c].buf = << >> /\ conn[c].at = 0
                               /\ net[c] = 0 /\ out[c] = << >>
  <1>1. NewConn \in ConnRec /\ NewConn.pc = "new" /\ NewConn.buf = << >> /\ NewConn.at = 0
    <2>1. << >> \in Seq(Nat) /\ << >> \in Seq(Units)
      OBVIOUS
    <2> QED
      BY <2>1 DEF NewConn, ConnRec, Pcs, Pos
  <1>2. Placed(NewConn)
    BY <1>1 DEF Placed
  <1>3. << >> \in Seq(ReplyRec \cup {TooLong}) /\ strtokPos \in Pos
    BY DEF Init, Pos
  <1> QED
    BY <1>1, <1>2, <1>3 DEF Init, ServerTypeOK

\* The request behind a reply is made of the words of its own line whenever no
\* other handler was inside parseString during the parse: the static position of
\* strtok carries nothing over from one line, or one connection, to the next.
THEOREM OwnWordsSafe == Spec => []OwnWords
  <1>1. Init => WordsInv
    <2> SUFFICES ASSUME Init PROVE WordsInv
      OBVIOUS
    <2>1. /\ ServerTypeOK
          /\ \A c \in Conns : conn[c].pc = "new" /\ out[c] = << >>
      BY ServerInit
    <2>2. \A c \in Conns : ParseInv(c) /\ OwnReplies(c)
      BY <2>1 DEF ParseInv, OwnReplies
    <2> QED
      BY <2>1, <2>2 DEF WordsInv
  <1>2. WordsInv /\ [Next]_vars => WordsInv'
    <2> SUFFICES ASSUME WordsInv, [Next]_vars PROVE WordsInv'
      OBVIOUS
    <2>1. CASE UNCHANGED vars
      <3>1. ServerTypeOK' /\ UNCHANGED <<conn, strtokPos, out>>
        BY <2>1 DEF vars, WordsInv, ServerTypeOK, Placed
      <3>2. \A c \in Conns : ParseInv(c)' /\ OwnReplies(c)'
        BY <3>1, ParseKept, RepliesKept DEF WordsInv
      <3> QED
        BY <3>1, <3>2 DEF WordsInv
    <2>2. ASSUME NEW c \in Conns, createPthreadForUsers(c) \/ Handle(c) \/ Disconnect(c)
          PROVE  WordsInv'
      BY <2>2, WordsLoad, WordsStore, WordsAnswer, WordsOther DEF Handle
    <2> QED
      BY <2>1, <2>2 DEF Next, Waiting
  <1>3. WordsInv => OwnWords
    BY DEF WordsInv, OwnReplies, OwnWords, Replies
  <1> QED
    BY <1>1, <1>2, <1>3, PTL DEF Spec

-----------------------------------------------------------------------------
(***************************************************************************)
(* The inductive invariant: where the buffer lies in the stream.           *)
(***************************************************************************)

\* The buffer b holds the units up to position t, without a gap.
Contiguous(b, t) == \A i \in 1 .. Len(b) : b[i] = t - Len(b) + i

\* What is received goes behind what is kept.
LEMMA ContiguousGrows ==
  ASSUME NEW b \in Seq(Nat), NEW s \in Seq(Nat), NEW t \in Nat,
         Contiguous(b, t), Contiguous(s, t + Len(s))
  PROVE  Len(b \o s) = Len(b) + Len(s) /\ Contiguous(b \o s, t + Len(s))
  <1> DEFINE m == Len(b)
             n == Len(s)
             x == b \o s
  <1>1. m \in Nat /\ n \in Nat
    OBVIOUS
  <1>2. (\A i \in 1 .. m : b[i] = t - m + i) /\ \A i \in 1 .. n : s[i] = t + n - n + i
    BY DEF Contiguous
  <1> HIDE DEF m, n, x
  <1>3. Len(x) = m + n /\ \A i \in 1 .. m + n : x[i] = IF i <= m THEN b[i] ELSE s[i - m]
    <2>1. /\ Len(b \o s) = Len(b) + Len(s)
          /\ \A i \in 1 .. Len(b) + Len(s) :
               (b \o s)[i] = IF i <= Len(b) THEN b[i] ELSE s[i - Len(b)]
      BY ConcatProperties, Zenon
    <2> QED
      BY <2>1 DEF m, n, x
  <1>4. \A i \in 1 .. m + n : x[i] = (t + n) - (m + n) + i
    <2> SUFFICES ASSUME NEW i \in 1 .. m + n PROVE x[i] = (t + n) - (m + n) + i
      OBVIOUS
    <2>1. CASE i <= m
      <3>1. i \in 1 .. m /\ t - m + i = (t + n) - (m + n) + i
        BY <1>1, <2>1
      <3> QED
        BY <1>2, <1>3, <2>1, <3>1
    <2>2. CASE ~ (i <= m)
      <3>1. i - m \in 1 .. n /\ t + n - n + (i - m) = (t + n) - (m + n) + i
        BY <1>1, <2>2
      <3> QED
        BY <1>2, <1>3, <2>2, <3>1
    <2> QED
      BY <2>1, <2>2
  <1>5. Contiguous(x, t + n)
    BY <1>3, <1>4 DEF Contiguous
  <1> QED
    BY <1>3, <1>5 DEF m, n, x

\* The rest of the buffer ends where the buffer did, and begins behind at.
LEMMA ContiguousRest ==
  ASSUME NEW r \in ConnRec, r.at <= Len(r.buf), NEW t \in Nat, Contiguous(r.buf, t)
  PROVE  LET x == Remainder(r) IN
         Contiguous(x.buf, t) /\ t - Len(x.buf) + x.at = t - Len(r.buf) + r.at
  <1> DEFINE x == Remainder(r)
             a == r.at
             m == Len(r.buf)
  <1>1. m \in Nat /\ a \in Nat /\ a <= m
    BY DEF ConnRec
  <1>2. x.at = 0 /\ Len(x.buf) = m - a /\ \A i \in 1 .. Len(x.buf) : x.buf[i] = r.buf[a + i]
    BY RemainderFacts, ZenonT(40)
  <1>3. \A i \in 1 .. m : r.buf[i] = t - m + i
    BY DEF Contiguous
  <1> HIDE DEF m, a, x
  <1>4. \A i \in 1 .. Len(x.buf) : x.buf[i] = t - (m - a) + i
    <2> SUFFICES ASSUME NEW i \in 1 .. m - a PROVE x.buf[i] = t - (m - a) + i
      BY <1>2
    <2>1. a + i \in 1 .. m /\ t - m + (a + i) = t - (m - a) + i
      BY <1>1
    <2> QED
      BY <1>2, <1>3, <2>1
  <1>5. t - Len(x.buf) + x.at = t - m + a
    BY <1>1, <1>2
  <1> QED
    BY <1>2, <1>4, <1>5 DEF Contiguous, x, m, a

\* The line that next_line takes is that of the units behind at, up to a newline.
LEMMA LineTaken ==
  ASSUME NEW c \in Conns, NEW r \in ConnRec, r.at <= Len(r.buf), NEW t \in Nat,
         Contiguous(r.buf, t), LineEnd(c, r) # 0,
         NEW span, span = SubSeq(r.buf, r.at + 1, LineEnd(c, r))
  PROVE  /\ span \in Seq(Nat) /\ IsLine(c, span)
         /\ span[1] = t - Len(r.buf) + r.at + 1
         /\ span[Len(span)] = t - Len(r.buf) + LineEnd(c, r)
  <1> DEFINE nl == LineEnd(c, r)
             a == r.at
             m == Len(r.buf)
             n == nl - a
  <1>1. r.buf \in Seq(Nat) /\ m \in Nat /\ a \in Nat /\ a <= m
    BY DEF ConnRec
  <1>2. \A i \in 1 .. m : r.buf[i] = t - m + i
    BY DEF Contiguous
  <1>3. /\ nl \in a + 1 .. m
        /\ Script[c][r.buf[nl]] = NL
        /\ \A i \in a + 1 .. nl - 1 : Script[c][r.buf[i]] # NL
    BY LineEndFacts
  <1>s. span = SubSeq(r.buf, a + 1, nl)
    OBVIOUS
  <1> HIDE DEF nl, a, m
  <1>4. n \in Nat \ {0} /\ nl = a + n /\ n <= m - a
    BY <1>1, <1>3, SMTT(40)
  <1>5. /\ span \in Seq(Nat) /\ Len(span) = n
        /\ \A k \in 1 .. n : span[k] = r.buf[a + k]
    <2>1. \A i \in a + 1 .. nl : r.buf[i] \in Nat
      BY <1>1, <1>3 DEF m
    <2>2. a + 1 \in Int /\ nl \in Int
      BY <1>1, <1>3
    <2>3. /\ SubSeq(r.buf, a + 1, nl) \in Seq(Nat)
          /\ Len(SubSeq(r.buf, a + 1, nl)) = IF a + 1 <= nl THEN nl - (a + 1) + 1 ELSE 0
          /\ \A i \in 1 .. nl - (a + 1) + 1 :
               SubSeq(r.buf, a + 1, nl)[i] = r.buf[a + 1 + i - 1]
      BY <2>1, <2>2, SubSeqProperties
    <2> HIDE DEF n
    <2>4. /\ (IF a + 1 <= nl THEN nl - (a + 1) + 1 ELSE 0) = n
          /\ nl - (a + 1) + 1 = n
          /\ \A k \in 1 .. n : a + 1 + k - 1 = a + k
      BY <1>1, <1>4
    <2> QED
      BY <1>s, <2>3, <2>4
  <1> HIDE DEF n
  <1>6. \A k \in 1 .. n : span[k] = t - m + a + k /\ a + k \in 1 .. m
    <2> SUFFICES ASSUME NEW k \in 1 .. n PROVE span[k] = t - m + a + k /\ a + k \in 1 .. m
      OBVIOUS
    <2>1. a + k \in 1 .. m /\ t - m + (a + k) = t - m + a + k
      BY <1>1, <1>4
    <2> QED
      BY <1>2, <1>5, <2>1
  <1>7. 1 \in 1 .. n /\ n \in 1 .. n
    BY <1>4
  <1>8. span[1] = t - m + a + 1 /\ span[n] = t - m + nl
    <2>1. span[1] = t - m + a + 1 /\ span[n] = t - m + a + n
      BY <1>6, <1>7
    <2>2. t - m + a + n = t - m + nl
      BY <1>1, <1>4
    <2> QED
      BY <2>1, <2>2
  <1>9. IsLine(c, span)
    <2>1. span # << >> /\ DOMAIN span = 1 .. n
      <3>1. \A s \in Seq(Nat) : DOMAIN s = 1 .. Len(s) /\ (Len(s) # 0 => s # << >>)
        OBVIOUS
      <3> QED
        BY <1>4, <1>5, <3>1, Zenon
    <2>2. \A k \in 1 .. n : span[k] = span[1] + k - 1
      <3> SUFFICES ASSUME NEW k \in 1 .. n PROVE span[k] = span[1] + k - 1
        OBVIOUS
      <3>1. span[k] = t - m + a + k /\ span[1] = t - m + a + 1
        BY <1>6, <1>7
      <3>2. t - m + a + k = t - m + a + 1 + k - 1
        BY <1>1
      <3> QED
        BY <3>1, <3>2
    <2>3. \A k \in 1 .. n : Script[c][span[k]] = NL <=> k = n
      <3> SUFFICES ASSUME NEW k \in 1 .. n PROVE Script[c][span[k]] = NL <=> k = n
        OBVIOUS
      <3>1. CASE k = n
        BY <1>3, <1>4, <1>5, <3>1
      <3>2. CASE k # n
        <4>1. a + k \in a + 1 .. nl - 1
          BY <1>1, <1>4, <3>2
        <4> QED
          BY <1>3, <1>5, <3>2, <4>1
      <3> QED
        BY <3>1, <3>2
    <2> QED
      BY <1>5, <2>1, <2>2, <2>3 DEF IsLine
  <1> QED
    BY <1>5, <1>8, <1>9 DEF nl, a, m

\* The position up to which the handler of c has taken lines.
Taken(c) == net[c] - Len(conn[c].buf) + conn[c].at

\* The last position that the replies of c have answered.
Done(c) == Answered(c, Len(out[c]) + 1)

\* As long as the client is there and no line has overflowed, the buffer holds the
\* units that follow the lines taken, without a gap, and the line in work is the
\* one behind the last that was answered.
StreamInv(c) ==
    ~ gone[c] /\ Errors(c) = {} =>
      LET r == conn[c] IN
      /\ Contiguous(r.buf, net[c])
      /\ r.pc \in {"new", "recv", "line"} => Taken(c) = Done(c)
      /\ r.pc \in {"load", "more", "store", "answer"} =>
           /\ IsLine(c, r.span) /\ r.span[1] = Done(c) + 1
           /\ r.span[Len(r.span)] = Taken(c)

OrderedReplies(c) ==
    Errors(c) = {} =>
      \A k \in DOMAIN out[c] :
        IsLine(c, out[c][k].span) /\ out[c][k].span[1] = Answered(c, k) + 1

OrderInv == ServerTypeOK /\ \A c \in Conns : StreamInv(c) /\ OrderedReplies(c)

\* A step that does not touch the buffer or the line of d.
SameStream(d) ==
    /\ conn'[d].pc = conn[d].pc \/ {conn[d].pc, conn'[d].pc} \subseteq {"load", "more", "store", "answer"}
    /\ conn'[d].buf = conn[d].buf /\ conn'[d].at = conn[d].at /\ conn'[d].span = conn[d].span

LEMMA OrderKept ==
  ASSUME NEW d \in Conns, StreamInv(d), OrderedReplies(d), SameStream(d),
         net'[d] = net[d], out'[d] = out[d], ~ gone'[d] => ~ gone[d]
  PROVE  StreamInv(d)' /\ OrderedReplies(d)'
  <1>1. /\ Errors(d)' = Errors(d) /\ Taken(d)' = Taken(d) /\ Done(d)' = Done(d)
        /\ \A k : Answered(d, k)' = Answered(d, k)
    BY DEF Errors, Taken, Done, Answered, SameStream
  <1>2. OrderedReplies(d)'
    BY <1>1 DEF OrderedReplies, IsLine
  <1>3. IsLine(d, conn[d].span) => IsLine(d, conn[d].span)'
    BY DEF IsLine, SameStream
  <1>4. StreamInv(d)'
    BY <1>1, <1>3 DEF StreamInv, SameStream
  <1> QED
    BY <1>2, <1>4

\* A step without a new reply.
LEMMA RepliesSame ==
  ASSUME NEW d \in Conns, OrderedReplies(d), out'[d] = out[d]
  PROVE  Errors(d)' = Errors(d) /\ Done(d)' = Done(d) /\ OrderedReplies(d)'
  <1>1. Errors(d)' = Errors(d) /\ \A k : Answered(d, k)' = Answered(d, k)
    BY DEF Errors, Answered
  <1>2. Done(d)' = Done(d)
    BY DEF Done, Answered
  <1>3. OrderedReplies(d)'
    BY <1>1 DEF OrderedReplies, IsLine
  <1> QED
    BY <1>1, <1>2, <1>3

\* A new reply.
LEMMA OrderReply ==
  ASSUME ServerTypeOK, NEW c \in Conns, NEW x \in ReplyRec \cup {TooLong},
         out'[c] = Append(out[c], x)
  PROVE  /\ x = TooLong => Errors(c)' # {}
         /\ Errors(c)' = {} => Errors(c) = {}
         /\ x \in ReplyRec => Done(c)' = x.span[Len(x.span)]
         /\ Done(c) + 1 = x.span[1] /\ IsLine(c, x.span) /\ x \in ReplyRec
              => (OrderedReplies(c) => OrderedReplies(c)')
  <1>1. out[c] \in Seq(ReplyRec \cup {TooLong})
    BY DEF ServerTypeOK
  <1>n. PICK n \in Nat : n = Len(out[c])
    BY <1>1
  <1>2. /\ n \in Nat /\ DOMAIN out[c] = 1 .. n /\ DOMAIN out'[c] = 1 .. n + 1
        /\ Len(out'[c]) = n + 1 /\ out'[c][n + 1] = x
        /\ \A k \in 1 .. n : out'[c][k] = out[c][k]
    BY <1>1, <1>n
  <1>3. x = TooLong => Errors(c)' # {}
    <2>1. TooLong.kind = "too long"
      BY DEF TooLong
    <2>2. n + 1 \in 1 .. n + 1
      BY <1>2
    <2> QED
      BY <1>2, <2>1, <2>2 DEF Errors
  <1>4. Errors(c)' = {} => Errors(c) = {}
    <2>1. \A k \in 1 .. n : k \in 1 .. n + 1
      BY <1>2
    <2> QED
      BY <1>2, <2>1 DEF Errors
  <1>5. x \in ReplyRec => Done(c)' = x.span[Len(x.span)]
    <2>1. Done(c)' = Answered(c, n + 2)'
      <3>1. Len(out'[c]) + 1 = n + 2
        BY <1>2
      <3> QED
        BY <3>1 DEF Done, Answered
    <2>2. n + 2 # 1 /\ n + 2 - 1 = n + 1
      BY <1>2
    <2> QED
      BY <1>2, <2>1, <2>2 DEF Answered
  <1>6. \A k \in 1 .. n + 1 : Answered(c, k)' = Answered(c, k)
    <2> SUFFICES ASSUME NEW k \in 1 .. n + 1 PROVE Answered(c, k)' = Answered(c, k)
      OBVIOUS
    <2>1. k # 1 => k - 1 \in 1 .. n
      BY <1>2
    <2> QED
      BY <1>2, <2>1 DEF Answered
  <1>7. ASSUME Done(c) + 1 = x.span[1], IsLine(c, x.span), x \in ReplyRec, OrderedReplies(c),
               Errors(c)' = {}, NEW k \in 1 .. n + 1
        PROVE  IsLine(c, out'[c][k].span) /\ out'[c][k].span[1] = Answered(c, k) + 1
    <2>1. CASE k \in 1 .. n
      BY <1>2, <1>4, <1>7, <2>1 DEF OrderedReplies
    <2>2. CASE k = n + 1
      BY <1>2, <1>n, <1>7, <2>2 DEF Done
    <2> QED
      BY <1>2, <2>1, <2>2
  <1>8. Done(c) + 1 = x.span[1] /\ IsLine(c, x.span) /\ x \in ReplyRec
              => (OrderedReplies(c) => OrderedReplies(c)')
    BY <1>2, <1>6, <1>7, SMTT(40) DEF OrderedReplies, IsLine
  <1> QED
    BY <1>3, <1>4, <1>5, <1>8

\* What is received goes behind what is kept.
LEMMA OrderRecv ==
  ASSUME ServerTypeOK, NEW c \in Conns, StreamInv(c), OrderedReplies(c),
         NEW n \in 1 .. BUFFER_SIZE, recv(c, n)
  PROVE  StreamInv(c)' /\ OrderedReplies(c)'
  <1>1. /\ conn[c].pc = "recv" /\ net'[c] = net[c] + n /\ gone'[c] = gone[c]
        /\ \/ ~ gone[c] /\ out'[c] = Append(out[c], TooLong)
           \/ gone[c] /\ out'[c] = out[c]
           \/ /\ conn'[c].pc = "line" /\ conn'[c].at = 0 /\ out'[c] = out[c]
              /\ conn'[c].buf = conn[c].buf \o [i \in 1 .. n |-> net[c] + i]
    BY RecvStep
  <1>2. out'[c] = out[c] =>
          /\ Errors(c)' = Errors(c) /\ Done(c)' = Done(c) /\ OrderedReplies(c)'
    BY RepliesSame
  <1>3. CASE ~ gone[c] /\ out'[c] = Append(out[c], TooLong)
    <2>1. Errors(c)' # {}
      BY <1>3, OrderReply
    <2> QED
      BY <2>1 DEF StreamInv, OrderedReplies
  <1>4. CASE gone[c] /\ out'[c] = out[c]
    BY <1>1, <1>2, <1>4 DEF StreamInv
  <1>5. CASE /\ conn'[c].pc = "line" /\ conn'[c].at = 0 /\ out'[c] = out[c]
             /\ conn'[c].buf = conn[c].buf \o [i \in 1 .. n |-> net[c] + i]
    <2> SUFFICES ASSUME ~ gone[c], Errors(c) = {}
                 PROVE  Contiguous(conn'[c].buf, net'[c]) /\ Taken(c)' = Done(c)
      BY <1>1, <1>2, <1>5 DEF StreamInv
    <2>1. conn[c].buf \in Seq(Nat) /\ net[c] \in Nat /\ conn[c].at = 0
      BY <1>1 DEF ServerTypeOK, ConnRec, Placed
    <2>2. Contiguous(conn[c].buf, net[c]) /\ Taken(c) = Done(c)
      BY <1>1 DEF StreamInv
    <2>3. Len(conn'[c].buf) = Len(conn[c].buf) + n /\ Contiguous(conn'[c].buf, net[c] + n)
      <3> DEFINE b == conn[c].buf
                 t == net[c]
                 s == [i \in 1 .. n |-> t + i]
      <3>1. conn'[c].buf = b \o s
        BY <1>5
      <3>2. s \in Seq(Nat) /\ Len(s) = n /\ Contiguous(s, t + Len(s))
        BY <2>1 DEF Contiguous
      <3> HIDE DEF b, t, s
      <3>3. Len(b \o s) = Len(b) + Len(s) /\ Contiguous(b \o s, t + Len(s))
        BY <2>1, <2>2, <3>2, ContiguousGrows DEF b, t
      <3> QED
        BY <3>1, <3>2, <3>3 DEF b, t
    <2>4. Taken(c)' = Taken(c)
      BY <1>1, <1>5, <2>1, <2>3 DEF Taken
    <2> QED
      BY <1>1, <2>2, <2>3, <2>4
  <1> QED
    BY <1>1, <1>3, <1>4, <1>5

\* The next line is the one behind the lines taken.
LEMMA OrderNextLine ==
  ASSUME ServerTypeOK, NEW c \in Conns, StreamInv(c), OrderedReplies(c), next_line(c)
  PROVE  StreamInv(c)' /\ OrderedReplies(c)'
  <1> DEFINE r == conn[c]
             nl == LineEnd(c, r)
  <1>1. /\ r.pc = "line" /\ net'[c] = net[c] /\ gone'[c] = gone[c] /\ out'[c] = out[c]
        /\ \/ conn'[c] = Remainder(r)
           \/ /\ nl # 0 /\ conn'[c].pc = "load" /\ conn'[c].at = nl /\ conn'[c].buf = r.buf
              /\ conn'[c].span = SubSeq(r.buf, r.at + 1, nl)
    BY NextLineStep DEF Untouched
  <1>2. /\ Errors(c)' = Errors(c) /\ Done(c)' = Done(c) /\ OrderedReplies(c)'
    BY <1>1, RepliesSame
  <1>3. r \in ConnRec /\ r.at <= Len(r.buf) /\ net[c] \in Nat
    BY DEF ServerTypeOK, Placed
  <1> SUFFICES ASSUME ~ gone[c], Errors(c) = {} PROVE StreamInv(c)'
    BY <1>1, <1>2 DEF StreamInv
  <1>4. Contiguous(r.buf, net[c]) /\ Taken(c) = Done(c)
    BY <1>1 DEF StreamInv
  <1>5. CASE conn'[c] = Remainder(r)
    <2> DEFINE x == conn'[c]
    <2>1. x.pc = "recv"
      BY <1>3, <1>5, RemainderFacts, ZenonT(40)
    <2>2. Contiguous(x.buf, net[c]) /\ net[c] - Len(x.buf) + x.at = net[c] - Len(r.buf) + r.at
      BY <1>3, <1>4, <1>5, ContiguousRest
    <2>3. Taken(c)' = Done(c)
      BY <1>1, <1>4, <2>2 DEF Taken
    <2> QED
      BY <1>1, <1>2, <2>1, <2>2, <2>3 DEF StreamInv
  <1>6. CASE /\ nl # 0 /\ conn'[c].pc = "load" /\ conn'[c].at = nl /\ conn'[c].buf = r.buf
             /\ conn'[c].span = SubSeq(r.buf, r.at + 1, nl)
    <2> DEFINE span == conn'[c].span
    <2>1. /\ IsLine(c, span) /\ span[1] = net[c] - Len(r.buf) + r.at + 1
          /\ span[Len(span)] = net[c] - Len(r.buf) + nl
      <3>1. PICK y, t, z : y = r /\ t = net[c] /\ z = span
        OBVIOUS
      <3>2. /\ y \in ConnRec /\ y.at <= Len(y.buf) /\ t \in Nat /\ Contiguous(y.buf, t)
            /\ LineEnd(c, y) # 0 /\ z = SubSeq(y.buf, y.at + 1, LineEnd(c, y))
        BY <1>3, <1>4, <1>6, <3>1
      <3>3. /\ IsLine(c, z) /\ z[1] = t - Len(y.buf) + y.at + 1
            /\ z[Len(z)] = t - Len(y.buf) + LineEnd(c, y)
        BY <3>2, LineTaken, ZenonT(80)
      <3> QED
        BY <3>1, <3>3
    <2>2. span[1] = Done(c) + 1
      BY <1>4, <2>1 DEF Taken
    <2>3. Taken(c)' = span[Len(span)]
      BY <1>1, <1>6, <2>1 DEF Taken
    <2>4. IsLine(c, conn[c].span)'
      BY <2>1 DEF IsLine
    <2> QED
      BY <1>1, <1>2, <1>4, <1>6, <2>2, <2>3, <2>4 DEF StreamInv
  <1> QED
    BY <1>1, <1>5, <1>6

\* The answer to the line in work comes behind the other replies.
LEMMA OrderAnswer ==
  ASSUME ServerTypeOK, NEW c \in Conns, StreamInv(c), OrderedReplies(c), answer(c)
  PROVE  StreamInv(c)' /\ OrderedReplies(c)'
  <1> DEFINE r == conn[c]
             x == Reply(r)
  <1>1. /\ net'[c] = net[c] /\ gone'[c] = gone[c]
        /\ r.pc = "answer" /\ x \in ReplyRec
        /\ conn'[c].pc \in {"recv", "line", "closed"}
        /\ \/ gone[c] /\ out'[c] = out[c]
           \/ /\ ~ gone[c] /\ out'[c] = Append(out[c], x)
              /\ conn'[c].pc # "recv" /\ conn'[c].buf = r.buf /\ conn'[c].at = r.at
    BY AnswerStep
  <1>2. CASE gone[c] /\ out'[c] = out[c]
    <2>1. OrderedReplies(c)'
      BY <1>2, RepliesSame
    <2> QED
      BY <1>1, <1>2, <2>1 DEF StreamInv
  <1>3. CASE /\ ~ gone[c] /\ out'[c] = Append(out[c], x)
             /\ conn'[c].pc # "recv" /\ conn'[c].buf = r.buf /\ conn'[c].at = r.at
    <2>0. x.span = r.span
      BY DEF Reply
    <2> HIDE DEF x
    <2>1. /\ Errors(c)' = {} => Errors(c) = {}
          /\ Done(c)' = x.span[Len(x.span)]
          /\ Done(c) + 1 = x.span[1] /\ IsLine(c, x.span)
               => (OrderedReplies(c) => OrderedReplies(c)')
      BY <1>1, <1>3, OrderReply
    <2> SUFFICES ASSUME Errors(c)' = {} PROVE StreamInv(c)' /\ OrderedReplies(c)'
      BY DEF StreamInv, OrderedReplies
    <2>2. /\ Contiguous(r.buf, net[c])
          /\ IsLine(c, r.span) /\ r.span[1] = Done(c) + 1
          /\ r.span[Len(r.span)] = Taken(c)
      BY <1>1, <1>3, <2>1 DEF StreamInv
    <2>3. OrderedReplies(c)'
      BY <2>0, <2>1, <2>2
    <2>4. Taken(c)' = Done(c)'
      BY <1>1, <1>3, <2>0, <2>1, <2>2 DEF Taken
    <2>5. StreamInv(c)'
      BY <1>1, <1>3, <2>2, <2>4 DEF StreamInv
    <2> QED
      BY <2>3, <2>5
  <1> QED
    BY <1>1, <1>2, <1>3

LEMMA OrderStep ==
  ASSUME OrderInv, NEW c \in Conns, createPthreadForUsers(c) \/ Handle(c) \/ Disconnect(c)
  PROVE  OrderInv'
  <1>1. ServerTypeOK /\ \A d \in Conns : StreamInv(d) /\ OrderedReplies(d)
    BY DEF OrderInv
  <1>2. ASSUME ServerTypeOK', StreamInv(c)', OrderedReplies(c)',
               \A d \in Conns \ {c} : SameStream(d) /\ Untouched(d)
        PROVE  OrderInv'
    <2>1. \A d \in Conns \ {c} : StreamInv(d)' /\ OrderedReplies(d)'
      BY <1>1, <1>2, OrderKept DEF Untouched
    <2> QED
      BY <1>2, <2>1 DEF OrderInv
  <1>3. \A d \in Conns : (conn'[d] = conn[d] \/ SameButShared(d)) => SameStream(d)
    BY DEF SameStream, SameButShared
  <1>4. CASE createPthreadForUsers(c)
    <2>1. /\ ServerTypeOK'
          /\ \A d \in Conns : Untouched(d)
          /\ \A d \in Conns \ {c} : conn'[d] = conn[d]
          /\ conn[c].pc = "new" /\ conn'[c].pc \in {"recv", "closed"}
          /\ conn'[c].buf = conn[c].buf /\ conn'[c].at = conn[c].at
      BY <1>1, <1>4, AcceptStep
    <2>2. /\ Errors(c)' = Errors(c) /\ Done(c)' = Done(c) /\ OrderedReplies(c)'
      BY <1>1, <2>1, RepliesSame DEF Untouched
    <2>3. Taken(c)' = Taken(c)
      BY <2>1 DEF Taken, Untouched
    <2>4. StreamInv(c)'
      <3> SUFFICES ASSUME ~ gone[c], Errors(c) = {}
                   PROVE  /\ Contiguous(conn'[c].buf, net'[c])
                          /\ Taken(c)' = Done(c)'
        BY <2>1, <2>2 DEF StreamInv, Untouched
      <3> QED
        BY <1>1, <2>1, <2>2, <2>3 DEF StreamInv, Untouched
    <2> QED
      BY <1>2, <1>3, <2>1, <2>2, <2>4
  <1>5. CASE recv_end(c)
    <2>1. /\ ServerTypeOK'
          /\ \A d \in Conns : Untouched(d)
          /\ \A d \in Conns \ {c} : conn'[d] = conn[d]
          /\ conn'[c].pc = "closed" /\ conn'[c].buf = conn[c].buf
      BY <1>1, <1>5, RecvEndStep
    <2>2. Errors(c)' = Errors(c) /\ OrderedReplies(c)'
      BY <1>1, <2>1, RepliesSame DEF Untouched
    <2>3. StreamInv(c)'
      <3> SUFFICES ASSUME ~ gone[c], Errors(c) = {}
                   PROVE  Contiguous(conn'[c].buf, net'[c])
        BY <2>1, <2>2 DEF StreamInv, Untouched
      <3> QED
        BY <1>1, <2>1, <2>2 DEF StreamInv, Untouched
    <2> QED
      BY <1>2, <1>3, <2>1, <2>2, <2>3
  <1>6. ASSUME NEW n \in 1 .. BUFFER_SIZE, recv(c, n)
        PROVE  OrderInv'
    <2>1. ServerTypeOK' /\ \A d \in Conns \ {c} : conn'[d] = conn[d] /\ Untouched(d)
      BY <1>1, <1>6, RecvStep
    <2>2. StreamInv(c)' /\ OrderedReplies(c)'
      BY <1>1, <1>6, OrderRecv
    <2> QED
      BY <1>2, <1>3, <2>1, <2>2
  <1>7. CASE next_line(c)
    <2>1. ServerTypeOK' /\ \A d \in Conns \ {c} : conn'[d] = conn[d] /\ Untouched(d)
      BY <1>1, <1>7, NextLineStep
    <2>2. StreamInv(c)' /\ OrderedReplies(c)'
      BY <1>1, <1>7, OrderNextLine
    <2> QED
      BY <1>2, <1>3, <2>1, <2>2
  <1>8. CASE strtok_load(c) \/ strtok_store(c)
    <2>1. /\ ServerTypeOK'
          /\ \A d \in Conns : Untouched(d)
          /\ \A d \in Conns \ {c} : SameButShared(d)
          /\ conn'[c].buf = conn[c].buf /\ conn'[c].at = conn[c].at
          /\ conn'[c].span = conn[c].span
          /\ {conn[c].pc, conn'[c].pc} \subseteq {"load", "more", "store", "answer"}
      BY <1>1, <1>8, LoadStep, StoreStep
    <2>2. SameStream(c)
      BY <2>1 DEF SameStream
    <2>3. StreamInv(c)' /\ OrderedReplies(c)'
      BY <1>1, <2>1, <2>2, OrderKept DEF Untouched
    <2> QED
      BY <1>2, <1>3, <2>1, <2>3
  <1>9. CASE answer(c)
    <2>1. ServerTypeOK' /\ \A d \in Conns \ {c} : conn'[d] = conn[d] /\ Untouched(d)
      BY <1>1, <1>9, AnswerStep
    <2>2. StreamInv(c)' /\ OrderedReplies(c)'
      BY <1>1, <1>9, OrderAnswer
    <2> QED
      BY <1>2, <1>3, <2>1, <2>2
  <1>10. CASE Disconnect(c)
    <2>1. /\ ServerTypeOK' /\ UNCHANGED <<conn, net, out>>
          /\ \A d \in Conns : ~ gone'[d] => ~ gone[d]
      BY <1>1, <1>10, DisconnectStep
    <2>2. \A d \in Conns : StreamInv(d)' /\ OrderedReplies(d)'
      BY <1>1, <1>3, <2>1, OrderKept
    <2> QED
      BY <2>1, <2>2 DEF OrderInv
  <1> QED
    BY <1>4, <1>5, <1>6, <1>7, <1>8, <1>9, <1>10 DEF Handle

\* The k-th reply of a connection answers the k-th line of its client, whatever
\* pieces recv returns and whatever the sizes of inbuf and line, until a line
\* overflows inbuf: handleClient loses, repeats and merges none.
THEOREM LinesInOrderSafe == Spec => []LinesInOrder
  <1>1. Init => OrderInv
    <2> SUFFICES ASSUME Init PROVE OrderInv
      OBVIOUS
    <2>1. /\ ServerTypeOK
          /\ \A c \in Conns : conn[c].pc = "new" /\ conn[c].buf = << >> /\ conn[c].at = 0
                                /\ net[c] = 0 /\ out[c] = << >>
      BY ServerInit
    <2>2. ASSUME NEW c \in Conns PROVE StreamInv(c) /\ OrderedReplies(c)
      <3>1. Len(conn[c].buf) = 0 /\ Len(out[c]) = 0 /\ DOMAIN out[c] = {}
        BY <2>1, <2>2
      <3>2. Taken(c) = 0 /\ Done(c) = 0
        BY <2>1, <2>2, <3>1 DEF Taken, Done, Answered
      <3> QED
        BY <2>1, <2>2, <3>1, <3>2 DEF StreamInv, OrderedReplies, Contiguous
    <2> QED
      BY <2>1, <2>2 DEF OrderInv
  <1>2. OrderInv /\ [Next]_vars => OrderInv'
    <2> SUFFICES ASSUME OrderInv, [Next]_vars PROVE OrderInv'
      OBVIOUS
    <2>1. CASE UNCHANGED vars
      <3>1. ServerTypeOK' /\ UNCHANGED <<conn, net, out, gone>>
        BY <2>1 DEF vars, OrderInv, ServerTypeOK, Placed
      <3>2. \A c \in Conns : SameStream(c)
        BY <3>1 DEF SameStream
      <3>3. \A c \in Conns : StreamInv(c)' /\ OrderedReplies(c)'
        BY <3>1, <3>2, OrderKept DEF OrderInv
      <3> QED
        BY <3>1, <3>3 DEF OrderInv
    <2> QED
      BY <2>1, OrderStep DEF Next, Waiting
  <1>3. OrderInv => LinesInOrder
    BY DEF OrderInv, OrderedReplies, LinesInOrder
  <1> QED
    BY <1>1, <1>2, <1>3, PTL DEF Spec

-----------------------------------------------------------------------------
(***************************************************************************)
(* The inductive invariant: every piece is paid for by an overflow.        *)
(***************************************************************************)

InWork == {"load", "more", "store", "answer"}

\* A line begins behind position p of what the client of c sends.
LineBegins(c, p) == p = 0 \/ Script[c][p] = NL

\* While the client is there, the buffer holds the last units received, without a
\* gap; when the handler waits for more there is no newline in it, and the line in
\* work ends where the handler stands.
BufferInv(c) ==
    LET r == conn[c] IN
    /\ net[c] <= Len(Script[c])
    /\ ~ gone[c] =>
         /\ Contiguous(r.buf, net[c]) /\ Len(r.buf) <= net[c]
         /\ r.pc \in {"new", "recv"} => \A i \in 1 .. Len(r.buf) : Script[c][r.buf[i]] # NL
         /\ r.pc \in InWork =>
              r.span \in Seq(Nat) /\ IsLine(c, r.span) /\ r.span[Len(r.span)] = Taken(c)

\* The next line taken, or the line in work, is a piece.
InPiece(c) ==
    LET r == conn[c] IN
    \/ r.pc \in {"new", "recv", "line"} /\ ~ LineBegins(c, Taken(c))
    \/ r.pc \in InWork /\ r.span \notin Lines(c)

\* There are as many overflows as pieces, the one that is still to be answered included.
DebtInv(c) ==
    /\ Errors(c) # {} => SendsRun(c, INBUF - BUFFER_SIZE)
    /\ Cardinality(Pieces(c)) <= Cardinality(Errors(c))
    /\ ~ gone[c] /\ InPiece(c) => Cardinality(Pieces(c)) < Cardinality(Errors(c))

OverflowInv == ServerTypeOK /\ \A c \in Conns : BufferInv(c) /\ DebtInv(c)

\* What begins behind a newline and ends at the next one is a line.
LEMMA LineFound ==
  ASSUME NEW c \in Conns, NEW span \in Seq(Nat), IsLine(c, span), span[1] >= 1,
         LineBegins(c, span[1] - 1), span[Len(span)] <= Len(Script[c])
  PROVE  span \in Lines(c)
  <1> DEFINE u == Len(Script[c])
             ends == {i \in DOMAIN Script[c] : Script[c][i] = NL}
  <1>1. PICK n \in Nat \ {0} : n = Len(span) /\ DOMAIN span = 1 .. n
    <2>1. \A s \in Seq(Nat) : Len(s) \in Nat /\ DOMAIN s = 1 .. Len(s) /\ (s # << >> => Len(s) # 0)
      OBVIOUS
    <2> QED
      BY <2>1, Zenon DEF IsLine
  <1>2. PICK p \in Nat : p = span[1]
    <2>1. 1 \in 1 .. Len(span)
      BY <1>1
    <2> QED
      BY <2>1, ElementOfSeq
  <1>3. u \in Nat /\ DOMAIN Script[c] = 1 .. u
    BY ScriptAssumption
  <1>4. /\ \A k \in 1 .. n : span[k] = p + k - 1
        /\ Script[c][span[n]] = NL
    <2>1. n \in 1 .. n
      OBVIOUS
    <2>2. /\ \A k \in 1 .. n : span[k] = span[1] + k - 1
          /\ \A k \in 1 .. n : Script[c][span[k]] = NL <=> k = n
      BY <1>1, Zenon DEF IsLine
    <2> QED
      BY <1>2, <2>1, <2>2
  <1>5. PICK b, e \in Nat : b = p - 1 /\ e = b + n
    BY <1>1, <1>2
  <1>e. e - b = n /\ b < e /\ span[n] = e /\ \A k \in 1 .. n : span[k] = b + k
    <2>1. e - b = n /\ b < e /\ n \in 1 .. n /\ p + n - 1 = e
      BY <1>5
    <2>2. \A k \in 1 .. n : p + k - 1 = b + k
      BY <1>5
    <2> QED
      BY <1>4, <2>1, <2>2
  <1>f. e <= u /\ LineBegins(c, b)
    BY <1>1, <1>2, <1>5, <1>e
  <1> HIDE DEF u
  <1>6. e \in ends
    BY <1>3, <1>4, <1>5, <1>e, <1>f
  <1>7. b \in ends \cup {0}
    BY <1>3, <1>5, <1>e, <1>f DEF LineBegins
  <1>8. span = [i \in 1 .. e - b |-> b + i]
    <2>1. span = [i \in 1 .. n |-> span[i]]
      BY <1>1
    <2> QED
      BY <1>e, <2>1
  <1> HIDE DEF ends
  <1>9. span \in {[i \in 1 .. y - x |-> x + i] : x \in ends \cup {0}, y \in ends}
    BY <1>6, <1>7, <1>8
  <1> QED
    <2>1. Lines(c) = {s \in {[i \in 1 .. y - x |-> x + i] : x \in ends \cup {0}, y \in ends} :
                        IsLine(c, s)}
      BY DEF Lines, ends
    <2> QED
      BY <1>9, <2>1

\* What a new reply, or a new overflow, does to the two counts.
LEMMA CountReply ==
  ASSUME ServerTypeOK, NEW c \in Conns, NEW x \in ReplyRec \cup {TooLong},
         out'[c] = Append(out[c], x)
  PROVE  /\ Cardinality(Pieces(c)) \in Nat /\ Cardinality(Errors(c)) \in Nat
         /\ x = TooLong => /\ Cardinality(Pieces(c)') = Cardinality(Pieces(c))
                           /\ Cardinality(Errors(c)') = Cardinality(Errors(c)) + 1
         /\ x \in ReplyRec =>
              /\ Errors(c)' = Errors(c)
              /\ x.span \in Lines(c) => Pieces(c)' = Pieces(c)
              /\ Cardinality(Pieces(c)') \in {Cardinality(Pieces(c)), Cardinality(Pieces(c)) + 1}
  <1>1. out[c] \in Seq(ReplyRec \cup {TooLong})
    BY DEF ServerTypeOK
  <1>n. PICK n \in Nat : n = Len(out[c])
    BY <1>1
  <1>2. /\ DOMAIN out[c] = 1 .. n /\ DOMAIN out'[c] = 1 .. n + 1
        /\ out'[c][n + 1] = x /\ n + 1 \notin 1 .. n
        /\ (1 .. n + 1) = (1 .. n) \cup {n + 1}
        /\ \A k \in 1 .. n : out'[c][k] = out[c][k]
    BY <1>1, <1>n
  <1>3. /\ Errors(c) \subseteq 1 .. n /\ Pieces(c) \subseteq 1 .. n
        /\ n + 1 \notin Errors(c) /\ n + 1 \notin Pieces(c)
    BY <1>2 DEF Errors, Pieces, Replies
  <1>4. IsFiniteSet(Errors(c)) /\ IsFiniteSet(Pieces(c))
    <2>1. IsFiniteSet(1 .. n)
      BY FS_Interval
    <2> QED
      BY <1>3, <2>1, FS_Subset
  <1>5. Cardinality(Pieces(c)) \in Nat /\ Cardinality(Errors(c)) \in Nat
    BY <1>4, FS_CardinalityType
  <1>6. /\ Errors(c)' = Errors(c) \cup {k \in {n + 1} : x.kind = "too long"}
        /\ Pieces(c)' = Pieces(c) \cup {k \in {n + 1} : x.kind = "reply" /\ x.span \notin Lines(c)}
    BY <1>2 DEF Errors, Pieces, Replies
  <1>7. CASE x = TooLong
    <2>1. x.kind = "too long"
      BY <1>7 DEF TooLong
    <2>2. x \notin ReplyRec
      BY <2>1 DEF ReplyRec
    <2>3. Errors(c)' = Errors(c) \cup {n + 1} /\ Pieces(c)' = Pieces(c)
      BY <1>6, <2>1
    <2>4. Cardinality(Errors(c) \cup {n + 1}) = Cardinality(Errors(c)) + 1
      BY <1>3, <1>4, FS_AddElement
    <2> QED
      BY <1>5, <2>2, <2>3, <2>4
  <1>8. CASE x \in ReplyRec
    <2>1. x.kind = "reply"
      BY <1>8 DEF ReplyRec
    <2>2. x # TooLong
      <3>1. TooLong.kind = "too long"
        BY DEF TooLong
      <3> QED
        BY <2>1, <3>1
    <2>3. Errors(c)' = Errors(c)
      BY <1>6, <2>1
    <2>4. x.span \in Lines(c) => Pieces(c)' = Pieces(c)
      BY <1>6
    <2>5. x.span \notin Lines(c) => Pieces(c)' = Pieces(c) \cup {n + 1}
      BY <1>6, <2>1
    <2>6. Cardinality(Pieces(c) \cup {n + 1}) = Cardinality(Pieces(c)) + 1
      BY <1>3, <1>4, FS_AddElement
    <2> QED
      BY <1>5, <2>2, <2>3, <2>4, <2>5, <2>6
  <1> QED
    BY <1>7, <1>8

\* A step that does not touch the buffer, the line or the replies of d.
LEMMA DebtKept ==
  ASSUME NEW d \in Conns, BufferInv(d), DebtInv(d), SameStream(d),
         net'[d] = net[d], out'[d] = out[d], ~ gone'[d] => ~ gone[d]
  PROVE  BufferInv(d)' /\ DebtInv(d)'
  <1>1. Errors(d)' = Errors(d) /\ Pieces(d)' = Pieces(d) /\ Taken(d)' = Taken(d)
    BY DEF Errors, Pieces, Replies, Taken, SameStream
  <1>2. IsLine(d, conn[d].span) => IsLine(d, conn[d].span)'
    BY DEF IsLine, SameStream
  <1>3. BufferInv(d)'
    BY <1>1, <1>2 DEF BufferInv, SameStream, InWork
  <1>4. InPiece(d)' => InPiece(d)
    BY <1>1 DEF InPiece, SameStream, InWork
  <1>5. DebtInv(d)'
    BY <1>1, <1>4 DEF DebtInv
  <1> QED
    BY <1>3, <1>5

\* recv: either the buffer grows, or it overflows, which pays for the piece that
\* the rest of the line becomes.
LEMMA DebtRecv ==
  ASSUME ServerTypeOK, NEW c \in Conns, BufferInv(c), DebtInv(c),
         NEW n \in 1 .. BUFFER_SIZE, recv(c, n)
  PROVE  BufferInv(c)' /\ DebtInv(c)'
  <1> DEFINE b == conn[c].buf
             m == Len(b)
             t == net[c]
             u == Len(Script[c])
  <1>1. /\ conn[c].pc = "recv" /\ net'[c] = t + n /\ gone'[c] = gone[c] /\ n <= u - t
        /\ \/ /\ m + n >= INBUF /\ conn'[c].pc = "recv"
              /\ conn'[c].buf = << >> /\ conn'[c].at = conn[c].at
              /\ \/ ~ gone[c] /\ out'[c] = Append(out[c], TooLong)
                 \/ gone[c] /\ out'[c] = out[c]
           \/ /\ conn'[c].pc = "line" /\ conn'[c].at = 0 /\ out'[c] = out[c]
              /\ conn'[c].buf = b \o [i \in 1 .. n |-> t + i]
    BY RecvStep, ZenonT(40)
  <1>2. b \in Seq(Nat) /\ m \in Nat /\ t \in Nat /\ u \in Nat /\ conn[c].at = 0
    BY <1>1, ScriptAssumption DEF ServerTypeOK, ConnRec, Placed
  <1>3. net'[c] <= Len(Script[c])
    <2> HIDE DEF t
    <2> QED
      BY <1>1, <1>2
  <1>4. out'[c] = out[c] => Errors(c)' = Errors(c) /\ Pieces(c)' = Pieces(c)
    BY DEF Errors, Pieces, Replies
  <1>5. CASE gone[c] /\ out'[c] = out[c]
    BY <1>1, <1>3, <1>4, <1>5 DEF BufferInv, DebtInv
  <1>6. CASE /\ m + n >= INBUF /\ conn'[c].pc = "recv"
             /\ conn'[c].buf = << >> /\ conn'[c].at = conn[c].at
             /\ ~ gone[c] /\ out'[c] = Append(out[c], TooLong)
    <2>1. Contiguous(b, t) /\ m <= t /\ \A i \in 1 .. m : Script[c][b[i]] # NL
      BY <1>1, <1>6 DEF BufferInv
    <2>2. BufferInv(c)'
      <3>1. Len(conn'[c].buf) = 0 /\ Contiguous(conn'[c].buf, net'[c]) /\ 0 <= net'[c]
        BY <1>1, <1>2, <1>6 DEF Contiguous
      <3>2. conn'[c].pc \notin InWork /\ \A i \in 1 .. 0 : Script[c][conn'[c].buf[i]] # NL
        BY <1>6 DEF InWork
      <3> QED
        BY <1>3, <3>1, <3>2 DEF BufferInv
    <2>3. SendsRun(c, INBUF - BUFFER_SIZE)
      <3> DEFINE w == INBUF - BUFFER_SIZE
                 s == t - m
      <3>1. \A i \in 1 .. m : b[i] = s + i
        BY <2>1 DEF Contiguous
      <3> HIDE DEF b, m, t, u
      <3>2. w \in Int /\ w <= m /\ s \in 0 .. u - w
        BY <1>1, <1>2, <1>6, <2>1
      <3> HIDE DEF w, s
      <3>3. \A i \in 1 .. w : Script[c][s + i] # NL
        <4> SUFFICES ASSUME NEW i \in 1 .. w PROVE Script[c][s + i] # NL
          OBVIOUS
        <4>1. i \in 1 .. m
          BY <1>2, <3>2
        <4> QED
          BY <2>1, <3>1, <4>1
      <3>4. \E x \in 0 .. Len(Script[c]) - w : \A i \in 1 .. w : Script[c][x + i] # NL
        BY <3>2, <3>3 DEF u
      <3> QED
        BY <3>4 DEF SendsRun, w
    <2>4. /\ Cardinality(Pieces(c)) \in Nat /\ Cardinality(Errors(c)) \in Nat
          /\ Cardinality(Pieces(c)') = Cardinality(Pieces(c))
          /\ Cardinality(Errors(c)') = Cardinality(Errors(c)) + 1
      BY <1>6, CountReply
    <2>5. Cardinality(Pieces(c)') < Cardinality(Errors(c)')
      BY <2>4 DEF DebtInv
    <2>6. Cardinality(Pieces(c)') <= Cardinality(Errors(c)')
      BY <2>4, <2>5
    <2>7. SendsRun(c, INBUF - BUFFER_SIZE)'
      BY <2>3 DEF SendsRun
    <2> QED
      BY <2>2, <2>5, <2>6, <2>7 DEF DebtInv
  <1>7. CASE /\ conn'[c].pc = "line" /\ conn'[c].at = 0 /\ out'[c] = out[c] /\ ~ gone[c]
             /\ conn'[c].buf = b \o [i \in 1 .. n |-> t + i]
    <2> DEFINE s == [i \in 1 .. n |-> t + i]
    <2>1. Contiguous(b, t) /\ m <= t
      BY <1>7 DEF BufferInv
    <2>2. s \in Seq(Nat) /\ Len(s) = n /\ Contiguous(s, t + Len(s))
      BY <1>2 DEF Contiguous
    <2>3. conn'[c].buf = b \o s
      BY <1>7
    <2> HIDE DEF s
    <2>4. Len(conn'[c].buf) = m + n /\ Contiguous(conn'[c].buf, t + n)
      <3> HIDE DEF b, t
      <3>1. Len(b \o s) = Len(b) + Len(s) /\ Contiguous(b \o s, t + Len(s))
        BY <1>2, <2>1, <2>2, ContiguousGrows
      <3> QED
        BY <2>2, <2>3, <3>1 DEF b
    <2>5. Len(conn'[c].buf) <= net'[c] /\ Taken(c)' = Taken(c)
      <3>1. Taken(c) = t - m + 0 /\ Taken(c)' = (t + n) - (m + n) + 0
        BY <1>1, <1>2, <1>7, <2>4 DEF Taken
      <3> HIDE DEF m, t
      <3>2. (t + n) - (m + n) + 0 = t - m + 0 /\ m + n <= t + n
        BY <1>2, <2>1
      <3> QED
        BY <1>1, <2>4, <3>1, <3>2
    <2>6. BufferInv(c)'
      BY <1>1, <1>3, <1>7, <2>4, <2>5 DEF BufferInv, InWork
    <2>7. InPiece(c)' => InPiece(c)
      BY <1>1, <1>7, <2>5 DEF InPiece, InWork, LineBegins
    <2> QED
      BY <1>1, <1>4, <1>7, <2>6, <2>7 DEF DebtInv
  <1> QED
    BY <1>1, <1>5, <1>6, <1>7

\* next_line: the rest of the buffer has no newline, and a line that begins behind
\* a newline is one of the client's.
LEMMA DebtNextLine ==
  ASSUME ServerTypeOK, NEW c \in Conns, BufferInv(c), DebtInv(c), next_line(c)
  PROVE  BufferInv(c)' /\ DebtInv(c)'
  <1> DEFINE r == conn[c]
             nl == LineEnd(c, r)
             t == net[c]
             x == conn'[c]
  <1>1. /\ r.pc = "line" /\ net'[c] = t /\ gone'[c] = gone[c] /\ out'[c] = out[c]
        /\ \/ nl = 0 /\ x = Remainder(r)
           \/ /\ nl # 0 /\ x.pc = "load" /\ x.at = nl /\ x.buf = r.buf
              /\ x.span = SubSeq(r.buf, r.at + 1, nl)
    BY NextLineStep DEF Untouched
  <1>2. Errors(c)' = Errors(c) /\ Pieces(c)' = Pieces(c)
    BY <1>1 DEF Errors, Pieces, Replies
  <1>3. /\ r \in ConnRec /\ r.at <= Len(r.buf) /\ t \in Nat
        /\ Len(r.buf) \in Nat /\ r.at \in Nat /\ Len(Script[c]) \in Nat
    BY ScriptAssumption DEF ServerTypeOK, Placed, ConnRec
  <1>4. t <= Len(Script[c])
    BY DEF BufferInv
  <1> SUFFICES ASSUME ~ gone[c] PROVE BufferInv(c)' /\ DebtInv(c)'
    BY <1>1, <1>2, <1>4 DEF BufferInv, DebtInv
  <1>5. Contiguous(r.buf, t) /\ Len(r.buf) <= t
    BY DEF BufferInv
  <1>6. CASE nl = 0 /\ x = Remainder(r)
    <2>1. /\ x.pc = "recv" /\ x.at = 0 /\ Len(x.buf) = Len(r.buf) - r.at
          /\ \A i \in 1 .. Len(x.buf) : x.buf[i] = r.buf[r.at + i]
      BY <1>3, <1>6, RemainderFacts, ZenonT(40)
    <2>2. Contiguous(x.buf, t) /\ t - Len(x.buf) + x.at = t - Len(r.buf) + r.at
      BY <1>3, <1>5, <1>6, ContiguousRest
    <2>3. Taken(c)' = Taken(c)
      BY <1>1, <2>2 DEF Taken
    <2>4. \A i \in r.at + 1 .. Len(r.buf) : Script[c][r.buf[i]] # NL
      BY <1>3, <1>6, LineEndFacts
    <2>5. \A i \in 1 .. Len(x.buf) : Script[c][x.buf[i]] # NL
      <3> SUFFICES ASSUME NEW i \in 1 .. Len(x.buf) PROVE Script[c][x.buf[i]] # NL
        OBVIOUS
      <3> HIDE DEF x, r
      <3>1. r.at + i \in r.at + 1 .. Len(r.buf)
        BY <1>3, <2>1
      <3> QED
        BY <2>1, <2>4, <3>1
    <2>6. Len(x.buf) <= t
      <3> HIDE DEF x, r, t
      <3> QED
        BY <1>3, <1>5, <2>1
    <2>7. BufferInv(c)'
      BY <1>1, <1>4, <2>1, <2>2, <2>5, <2>6 DEF BufferInv, InWork
    <2>8. InPiece(c)' => InPiece(c)
      BY <1>1, <2>1, <2>3 DEF InPiece, InWork, LineBegins
    <2> QED
      BY <1>1, <1>2, <2>7, <2>8 DEF DebtInv
  <1>7. CASE /\ nl # 0 /\ x.pc = "load" /\ x.at = nl /\ x.buf = r.buf
             /\ x.span = SubSeq(r.buf, r.at + 1, nl)
    <2>1. /\ x.span \in Seq(Nat) /\ IsLine(c, x.span)
          /\ x.span[1] = t - Len(r.buf) + r.at + 1
          /\ x.span[Len(x.span)] = t - Len(r.buf) + nl
      <3>1. PICK y, s, z : y = r /\ s = t /\ z = x.span
        OBVIOUS
      <3>2. /\ y \in ConnRec /\ y.at <= Len(y.buf) /\ s \in Nat /\ Contiguous(y.buf, s)
            /\ LineEnd(c, y) # 0 /\ z = SubSeq(y.buf, y.at + 1, LineEnd(c, y))
        BY <1>3, <1>5, <1>7, <3>1
      <3>3. /\ z \in Seq(Nat) /\ IsLine(c, z) /\ z[1] = s - Len(y.buf) + y.at + 1
            /\ z[Len(z)] = s - Len(y.buf) + LineEnd(c, y)
        BY <3>2, LineTaken, ZenonT(80)
      <3> QED
        BY <3>1, <3>3
    <2>2. nl \in r.at + 1 .. Len(r.buf)
      BY <1>3, <1>7, LineEndFacts
    <2>3. Taken(c)' = x.span[Len(x.span)] /\ x.span[1] = Taken(c) + 1
      BY <1>1, <1>7, <2>1 DEF Taken
    <2>4. BufferInv(c)'
      <3>1. IsLine(c, conn[c].span)'
        BY <2>1 DEF IsLine
      <3> QED
        BY <1>1, <1>4, <1>5, <1>7, <2>1, <2>3, <3>1 DEF BufferInv, InWork
    <2>5. Taken(c) \in Nat /\ x.span[Len(x.span)] <= Len(Script[c])
      <3>1. Taken(c) = t - Len(r.buf) + r.at
        BY DEF Taken
      <3>2. PICK m, a, e, u : m = Len(r.buf) /\ a = r.at /\ e = nl /\ u = Len(Script[c])
        OBVIOUS
      <3>3. m \in Nat /\ a \in Nat /\ e \in a + 1 .. m /\ u \in Nat /\ t \in Nat /\ m <= t /\ t <= u
        BY <1>3, <1>4, <1>5, <2>2, <3>2
      <3> HIDE DEF t
      <3>4. t - m + a \in Nat /\ t - m + e <= u
        BY <3>3
      <3> HIDE DEF r, nl, x
      <3> QED
        BY <2>1, <3>1, <3>2, <3>4
    <2>6. LineBegins(c, Taken(c)) => x.span \in Lines(c)
      <3>1. PICK z, p : z = x.span /\ p = Taken(c)
        OBVIOUS
      <3>2. /\ z \in Seq(Nat) /\ IsLine(c, z) /\ p \in Nat /\ z[1] = p + 1
            /\ z[Len(z)] <= Len(Script[c])
        BY <2>1, <2>3, <2>5, <3>1
      <3>3. z[1] >= 1 /\ z[1] - 1 = p
        BY <3>2
      <3>4. LineBegins(c, p) => z \in Lines(c)
        BY <3>2, <3>3, LineFound
      <3> QED
        BY <3>1, <3>4
    <2>7. InPiece(c)' => InPiece(c)
      BY <1>1, <1>7, <2>6 DEF InPiece, InWork
    <2> QED
      BY <1>1, <1>2, <2>4, <2>7 DEF DebtInv
  <1> QED
    BY <1>1, <1>6, <1>7

\* The answer to a piece takes up what an overflow has paid, and leaves the handler
\* behind a newline.
LEMMA DebtAnswer ==
  ASSUME ServerTypeOK, NEW c \in Conns, BufferInv(c), DebtInv(c), answer(c)
  PROVE  BufferInv(c)' /\ DebtInv(c)'
  <1> DEFINE r == conn[c]
             x == Reply(r)
  <1>1. /\ net'[c] = net[c] /\ gone'[c] = gone[c]
        /\ r.pc = "answer" /\ x \in ReplyRec
        /\ conn'[c].pc \in {"recv", "line", "closed"}
        /\ \/ gone[c] /\ out'[c] = out[c]
           \/ /\ ~ gone[c] /\ out'[c] = Append(out[c], x)
              /\ conn'[c].pc # "recv" /\ conn'[c].buf = r.buf /\ conn'[c].at = r.at
    BY AnswerStep
  <1>2. CASE gone[c] /\ out'[c] = out[c]
    <2>1. Errors(c)' = Errors(c) /\ Pieces(c)' = Pieces(c)
      BY <1>2 DEF Errors, Pieces, Replies
    <2> QED
      BY <1>1, <1>2, <2>1 DEF BufferInv, DebtInv
  <1>3. CASE /\ ~ gone[c] /\ out'[c] = Append(out[c], x)
             /\ conn'[c].pc # "recv" /\ conn'[c].buf = r.buf /\ conn'[c].at = r.at
    <2>1. x.span = r.span
      BY DEF Reply
    <2> HIDE DEF x
    <2>2. /\ Contiguous(r.buf, net[c]) /\ Len(r.buf) <= net[c] /\ net[c] <= Len(Script[c])
          /\ r.span \in Seq(Nat) /\ IsLine(c, r.span) /\ r.span[Len(r.span)] = Taken(c)
      BY <1>1, <1>3 DEF BufferInv, InWork
    <2>3. Taken(c)' = Taken(c)
      BY <1>1, <1>3 DEF Taken
    <2>4. LineBegins(c, Taken(c))
      <3>1. Len(r.span) \in DOMAIN r.span
        <4>1. \A s \in Seq(Nat) : s # << >> => Len(s) \in DOMAIN s
          OBVIOUS
        <4> QED
          BY <2>2, <4>1, Zenon DEF IsLine
      <3>2. Script[c][r.span[Len(r.span)]] = NL
        BY <2>2, <3>1 DEF IsLine
      <3> QED
        BY <2>2, <3>2 DEF LineBegins
    <2>5. BufferInv(c)' /\ ~ InPiece(c)'
      BY <1>1, <1>3, <2>2, <2>3, <2>4 DEF BufferInv, InPiece, InWork, LineBegins
    <2>6. /\ Cardinality(Pieces(c)) \in Nat /\ Cardinality(Errors(c)) \in Nat
          /\ Errors(c)' = Errors(c)
          /\ x.span \in Lines(c) => Pieces(c)' = Pieces(c)
          /\ Cardinality(Pieces(c)') \in {Cardinality(Pieces(c)), Cardinality(Pieces(c)) + 1}
      BY <1>1, <1>3, CountReply
    <2>7. Cardinality(Pieces(c)') <= Cardinality(Errors(c)')
      <3>1. CASE x.span \in Lines(c)
        BY <2>6, <3>1 DEF DebtInv
      <3>2. CASE x.span \notin Lines(c)
        <4>1. Cardinality(Pieces(c)) < Cardinality(Errors(c))
          BY <1>1, <1>3, <2>1, <3>2 DEF DebtInv, InPiece, InWork
        <4> QED
          BY <2>6, <4>1
      <3> QED
        BY <3>1, <3>2
    <2> QED
      BY <2>5, <2>6, <2>7 DEF DebtInv
  <1> QED
    BY <1>1, <1>2, <1>3

LEMMA DebtStep ==
  ASSUME OverflowInv, NEW c \in Conns, createPthreadForUsers(c) \/ Handle(c) \/ Disconnect(c)
  PROVE  OverflowInv'
  <1>1. ServerTypeOK /\ \A d \in Conns : BufferInv(d) /\ DebtInv(d)
    BY DEF OverflowInv
  <1>2. ASSUME ServerTypeOK', BufferInv(c)', DebtInv(c)',
               \A d \in Conns \ {c} : SameStream(d) /\ Untouched(d)
        PROVE  OverflowInv'
    <2>1. \A d \in Conns \ {c} : BufferInv(d)' /\ DebtInv(d)'
      BY <1>1, <1>2, DebtKept DEF Untouched
    <2> QED
      BY <1>2, <2>1 DEF OverflowInv
  <1>3. \A d \in Conns : (conn'[d] = conn[d] \/ SameButShared(d)) => SameStream(d)
    BY DEF SameStream, SameButShared
  <1>4. CASE createPthreadForUsers(c) \/ recv_end(c)
    <2>1. /\ ServerTypeOK'
          /\ \A d \in Conns : Untouched(d)
          /\ \A d \in Conns \ {c} : conn'[d] = conn[d]
      BY <1>1, <1>4, AcceptStep, RecvEndStep
    <2>2. /\ conn'[c].buf = conn[c].buf
          /\ \/ conn'[c].pc = "closed"
             \/ conn[c].pc = "new" /\ conn'[c].pc = "recv" /\ conn'[c].at = conn[c].at
      BY <1>1, <1>4, AcceptStep, RecvEndStep
    <2>3. Errors(c)' = Errors(c) /\ Pieces(c)' = Pieces(c)
      BY <2>1 DEF Errors, Pieces, Replies, Untouched
    <2>4. conn'[c].pc # "closed" => Taken(c)' = Taken(c)
      BY <2>1, <2>2 DEF Taken, Untouched
    <2>5. BufferInv(c)'
      BY <1>1, <2>1, <2>2, SMTT(40) DEF BufferInv, Untouched, InWork
    <2>6. InPiece(c)' => InPiece(c)
      BY <2>2, <2>4 DEF InPiece, InWork, LineBegins
    <2>7. DebtInv(c)'
      BY <1>1, <2>1, <2>3, <2>6 DEF DebtInv, Untouched
    <2> QED
      BY <1>2, <1>3, <2>1, <2>5, <2>7
  <1>5. ASSUME NEW n \in 1 .. BUFFER_SIZE, recv(c, n)
        PROVE  OverflowInv'
    <2>1. ServerTypeOK' /\ \A d \in Conns \ {c} : conn'[d] = conn[d] /\ Untouched(d)
      BY <1>1, <1>5, RecvStep
    <2>2. BufferInv(c)' /\ DebtInv(c)'
      BY <1>1, <1>5, DebtRecv
    <2> QED
      BY <1>2, <1>3, <2>1, <2>2
  <1>6. CASE next_line(c)
    <2>1. ServerTypeOK' /\ \A d \in Conns \ {c} : conn'[d] = conn[d] /\ Untouched(d)
      BY <1>1, <1>6, NextLineStep
    <2>2. BufferInv(c)' /\ DebtInv(c)'
      BY <1>1, <1>6, DebtNextLine
    <2> QED
      BY <1>2, <1>3, <2>1, <2>2
  <1>7. CASE strtok_load(c) \/ strtok_store(c)
    <2>1. /\ ServerTypeOK'
          /\ \A d \in Conns : Untouched(d)
          /\ \A d \in Conns \ {c} : SameButShared(d)
          /\ conn'[c].buf = conn[c].buf /\ conn'[c].at = conn[c].at
          /\ conn'[c].span = conn[c].span
          /\ {conn[c].pc, conn'[c].pc} \subseteq {"load", "more", "store", "answer"}
      BY <1>1, <1>7, LoadStep, StoreStep
    <2>2. SameStream(c)
      BY <2>1 DEF SameStream
    <2>3. BufferInv(c)' /\ DebtInv(c)'
      BY <1>1, <2>1, <2>2, DebtKept DEF Untouched
    <2> QED
      BY <1>2, <1>3, <2>1, <2>3
  <1>8. CASE answer(c)
    <2>1. ServerTypeOK' /\ \A d \in Conns \ {c} : conn'[d] = conn[d] /\ Untouched(d)
      BY <1>1, <1>8, AnswerStep
    <2>2. BufferInv(c)' /\ DebtInv(c)'
      BY <1>1, <1>8, DebtAnswer
    <2> QED
      BY <1>2, <1>3, <2>1, <2>2
  <1>9. CASE Disconnect(c)
    <2>1. /\ ServerTypeOK' /\ UNCHANGED <<conn, net, out>>
          /\ \A d \in Conns : ~ gone'[d] => ~ gone[d]
      BY <1>1, <1>9, DisconnectStep
    <2>2. \A d \in Conns : BufferInv(d)' /\ DebtInv(d)'
      BY <1>1, <1>3, <2>1, DebtKept
    <2> QED
      BY <2>1, <2>2 DEF OverflowInv
  <1> QED
    BY <1>4, <1>5, <1>6, <1>7, <1>8, <1>9 DEF Handle

\* handleClient throws a full inbuf away only where the client has sent
\* INBUF - BUFFER_SIZE units or more without a newline, and every time it does so
\* it answers at most one piece of a line as if it were a line: the damage of a
\* line that is too long ends with that line.
THEOREM OverflowContainedSafe == Spec => []OverflowContained
  <1>1. Init => OverflowInv
    <2> SUFFICES ASSUME Init PROVE OverflowInv
      OBVIOUS
    <2>1. /\ ServerTypeOK
          /\ \A c \in Conns : conn[c].pc = "new" /\ conn[c].buf = << >> /\ conn[c].at = 0
                                /\ net[c] = 0 /\ out[c] = << >>
      BY ServerInit
    <2>2. ASSUME NEW c \in Conns PROVE BufferInv(c) /\ DebtInv(c)
      <3>1. Len(conn[c].buf) = 0 /\ DOMAIN out[c] = {} /\ Len(Script[c]) \in Nat
        BY <2>1, <2>2, ScriptAssumption
      <3>2. Taken(c) = 0 /\ Errors(c) = {} /\ Pieces(c) = {}
        BY <2>1, <2>2, <3>1 DEF Taken, Errors, Pieces, Replies
      <3>3. BufferInv(c)
        BY <2>1, <2>2, <3>1 DEF BufferInv, InWork, Contiguous
      <3>4. ~ InPiece(c)
        BY <2>1, <2>2, <3>2 DEF InPiece, InWork, LineBegins
      <3>5. Cardinality(Pieces(c)) <= Cardinality(Errors(c))
        BY <3>2, FS_EmptySet
      <3> QED
        BY <3>2, <3>3, <3>4, <3>5 DEF DebtInv
    <2> QED
      BY <2>1, <2>2 DEF OverflowInv
  <1>2. OverflowInv /\ [Next]_vars => OverflowInv'
    <2> SUFFICES ASSUME OverflowInv, [Next]_vars PROVE OverflowInv'
      OBVIOUS
    <2>1. CASE UNCHANGED vars
      <3>1. ServerTypeOK' /\ UNCHANGED <<conn, net, out, gone>>
        BY <2>1 DEF vars, OverflowInv, ServerTypeOK, Placed
      <3>2. \A c \in Conns : SameStream(c)
        BY <3>1 DEF SameStream
      <3>3. \A c \in Conns : BufferInv(c)' /\ DebtInv(c)'
        BY <3>1, <3>2, DebtKept DEF OverflowInv
      <3> QED
        BY <3>1, <3>3 DEF OverflowInv
    <2> QED
      BY <2>1, DebtStep DEF Next, Waiting
  <1>3. OverflowInv => OverflowContained
    BY DEF OverflowInv, DebtInv, OverflowContained
  <1> QED
    BY <1>1, <1>2, <1>3, PTL DEF Spec
=============================================================================
