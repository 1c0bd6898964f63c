------------------------- MODULE RequestParserProofs -------------------------
(***************************************************************************)
(* InBounds and RefusedForGood for every choice of clients and limits, and *)
(* AsMeant for all clients that speak the protocol.                        *)
(***************************************************************************)
EXTENDS RequestParser, SequenceTheorems, TLAPS

Numbers ==
  /\ rbuf \in Seq(Nat)
  /\ client \in Clients
  /\ sent \in Nat
  /\ pos \in Nat
  /\ nbulk \in Nat
  /\ bulk_len \in Nat
  /\ mbulk \in BOOLEAN

(* Which kind of request the parser is at, and that it is at none once the  *)
(* request is complete.                                                     *)
Phase ==
  /\ pc \in {"header", "bulks"} => mbulk
  /\ pc = "line" => ~mbulk
  /\ pc # "idle" => outcome # "complete"

(* argv and nbulk account for all slots, except that the words of a line    *)
(* have replaced them.                                                      *)
Slots ==
  mbulk \/ outcome # "complete" =>
    argv \in Seq(Seq(Nat)) /\ Len(argv) + nbulk = room

Position == pc = "bulks" => pos <= Len(rbuf)

BInv == Numbers /\ Phase /\ Slots /\ Position

(* cstr_range returns a part of the string.                                 *)
LEMMA RangeIsString ==
  ASSUME NEW s \in Seq(Nat), NEW b \in Nat, NEW e \in Int
  PROVE  CstrRange(s, b, e) \in Seq(Nat)
<1> DEFINE used == Len(s)
           end == IF e >= 0 THEN e ELSE IF e + used < 0 THEN 0 ELSE e + used
           last == IF end > used THEN used - 1 ELSE end
<1>1. used \in Nat /\ end \in Nat
  OBVIOUS
<1>2. CASE b >= end \/ b > used
  BY <1>2 DEF CstrRange
<1>3. CASE ~(b >= end \/ b > used)
  <2>1. last \in Int /\ last <= used
    BY <1>1
  <2>2. \A i \in b + 1 .. last : i \in 1 .. Len(s)
    BY <2>1
  <2>3. SubSeq(s, b + 1, last) \in Seq(Nat)
    BY <2>1, <2>2
  <2> QED BY <2>3, <1>3 DEF CstrRange
<1> QED BY <1>2, <1>3

(* The bytes that arrive are bytes of the client.                           *)
LEMMA ArrivalIsString ==
  ASSUME NEW s \in Seq(Nat), NEW m \in Nat, NEW n \in 1 .. Len(s)
  PROVE  SubSeq(s, m + 1, n) \in Seq(Nat)
<1>1. \A i \in m + 1 .. n : i \in 1 .. Len(s)
  OBVIOUS
<1> QED BY <1>1

LEMMA BInvInit == Init => BInv
<1>1. <<>> \in Seq(Nat) /\ <<>> \in Seq(Seq(Nat)) /\ Len(<<>>) = 0
  OBVIOUS
<1>2. ASSUME Init PROVE Numbers /\ Phase /\ Position
  BY <1>1, <1>2 DEF Init, Numbers, Phase, Position
<1>3. ASSUME Init PROVE Slots
  <2>1. argv \in Seq(Seq(Nat)) /\ Len(argv) = 0 /\ nbulk = 0 /\ room = 0
    BY <1>1, <1>3 DEF Init
  <2> QED BY <2>1 DEF Slots
<1> QED BY <1>2, <1>3 DEF BInv

(* An arrival starts the parser at the head of rbuf.                        *)
LEMMA ReadStep == BInv /\ Read => BInv'
<1> SUFFICES ASSUME BInv, Read PROVE BInv'
  OBVIOUS
<1> USE DEF BInv, Numbers
<1>1. PICK n \in client.ends :
        n > sent /\ rbuf' = rbuf \o SubSeq(client.bytes, sent + 1, n) /\ sent' = n
  BY DEF Read
<1>2. client.bytes \in Seq(Nat) /\ n \in 1 .. Len(client.bytes)
  BY <1>1, ClientsAssumption
<1>3. rbuf' \in Seq(Nat)
  BY <1>1, <1>2, ArrivalIsString
<1>4. pos' = 0 /\ mbulk' \in BOOLEAN /\ pc' \in {"line", "header", "bulks"}
  BY DEF Read
<1>5. Numbers'
  BY <1>1, <1>2, <1>3, <1>4 DEF Read
<1>6. Phase'
  BY <1>4 DEF Read, Phase
<1>7. Slots'
  BY <1>4 DEF Read, Slots
<1>8. Position'
  BY <1>3, <1>4 DEF Position
<1> QED BY <1>5, <1>6, <1>7, <1>8

(* A call that ends without a complete request keeps the bounds.            *)
LEMMA MoreStep == BInv /\ pc # "idle" /\ More => BInv'
<1> SUFFICES ASSUME BInv, pc # "idle", More PROVE BInv'
  OBVIOUS
<1>1. CstrRange(rbuf, pos + bulk_len, -1) \in Seq(Nat)
  <2>1. rbuf \in Seq(Nat) /\ pos + bulk_len \in Nat /\ -1 \in Int
    BY DEF BInv, Numbers
  <2> QED BY <2>1, RangeIsString
<1> QED BY <1>1 DEF BInv, Numbers, Phase, Slots, Position, More, Strip, Return, parsed

LEMMA RefuseStep == BInv /\ pc # "idle" /\ Refuse => BInv'
BY DEF BInv, Numbers, Phase, Slots, Position, Refuse, Return, buffer, parsed

(* A line end found in rbuf lies in rbuf.                                   *)
LEMMA LineEndInside ==
  ASSUME rbuf \in Seq(Nat), NEW p \in Nat, NEW e \in LineEnd(p)
  PROVE  e + 2 \in Nat /\ e + 2 <= Len(rbuf)
<1>1. e \in p .. Len(rbuf) - 2
  BY DEF LineEnd, LineEnds
<1> QED BY <1>1

(* No step of the parser leaves the bounds. *)
LEMMA BInvStep == BInv /\ [Next]_vars => BInv'
<1> SUFFICES ASSUME BInv, [Next]_vars PROVE BInv'
  OBVIOUS
<1> USE DEF BInv, Numbers
<1>1. CASE Read
  BY <1>1, ReadStep
<1>2. CASE LineRefused
  BY <1>2, RefuseStep DEF LineRefused
<1>3. CASE LineMore
  BY <1>3 DEF LineMore, Return, Phase, Slots, Position, buffer, parsed
<1>4. CASE LineTaken
  BY <1>4 DEF LineTaken, Return, Phase, Slots, Position, buffer
<1>5. CASE HeaderRefused
  BY <1>5, RefuseStep DEF HeaderRefused
<1>6. CASE HeaderMore
  BY <1>6 DEF HeaderMore, Return, Phase, Slots, Position, buffer, parsed
<1>7. CASE HeaderTaken
  <2>1. PICK n \in 1 .. MaxBulks : nbulk' = n /\ room' = n
    BY <1>7 DEF HeaderTaken
  <2>2. PICK e \in LineEnd(0) : pos' = e + 2
    BY <1>7 DEF HeaderTaken
  <2>3. pos' \in Nat /\ pos' <= Len(rbuf)
    BY <2>2, LineEndInside
  <2>4. Numbers'
    BY <1>7, <2>1, <2>3, LimitsAssumption DEF HeaderTaken
  <2>5. Phase' /\ Slots' /\ Position'
    BY <1>7, <2>1, <2>3, LimitsAssumption DEF HeaderTaken, Phase, Slots, Position
  <2> QED BY <2>4, <2>5
<1>8. CASE LengthMore
  BY <1>8, MoreStep DEF LengthMore, AtLength
<1>9. CASE LengthRefused
  BY <1>9, RefuseStep DEF LengthRefused, AtLength
<1>10. CASE LengthTaken
  <2>1. PICK n \in 1 .. LengthLimit : bulk_len' = n
    BY <1>10 DEF LengthTaken
  <2>2. PICK e \in LineEnd(pos) : pos' = e + 2
    BY <1>10 DEF LengthTaken
  <2>3. pos' \in Nat /\ pos' <= Len(rbuf)
    BY <2>2, LineEndInside
  <2>4. Numbers'
    BY <1>10, <2>1, <2>3, LimitsAssumption DEF LengthTaken, LengthLimit
  <2>5. Phase' /\ Slots' /\ Position'
    BY <1>10, <2>3 DEF LengthTaken, AtLength, Phase, Slots, Position
  <2> QED BY <2>4, <2>5
<1>11. CASE BodyMore
  BY <1>11, MoreStep DEF BodyMore, AtBody
<1>12. CASE BodyTaken
  <2>1. pos + bulk_len + 2 <= Len(rbuf) /\ nbulk - 1 \in Nat /\ mbulk /\ outcome # "complete"
    BY <1>12 DEF BodyTaken, Arrived, AtBody, Phase
  <2>2. SubSeq(rbuf, pos + 1, pos + bulk_len) \in Seq(Nat)
    <3>1. pos + bulk_len \in 1 .. Len(rbuf)
      BY <1>12, <2>1 DEF BodyTaken, AtBody
    <3> QED BY <3>1, ArrivalIsString
  <2>3. argv' \in Seq(Seq(Nat)) /\ Len(argv') = Len(argv) + 1
    BY <1>12, <2>1, <2>2 DEF BodyTaken, Slots
  <2>4. Numbers'
    BY <1>12, <2>1 DEF BodyTaken
  <2>5. Phase' /\ Slots' /\ Position'
    BY <1>12, <2>1, <2>3 DEF BodyTaken, AtBody, Phase, Slots, Position
  <2> QED BY <2>4, <2>5
<1>13. CASE Complete
  BY <1>13 DEF Complete, Return, Phase, Slots, Position, buffer, parsed
<1>14. CASE UNCHANGED vars
  BY <1>14 DEF vars, buffer, parsed, Phase, Slots, Position
<1> QED
  BY <1>1, <1>2, <1>3, <1>4, <1>5, <1>6, <1>7, <1>8, <1>9, <1>10, <1>11,
     <1>12, <1>13, <1>14 DEF Next

(* nread - pos never wraps around and argv never overflows, whatever bytes  *)
(* arrive in whatever pieces, refused requests and what follows them        *)
(* included.                                                                *)
THEOREM ParserInBounds == Spec => []InBounds
<1>1. BInv => InBounds
  BY DEF BInv, Slots, Position, InBounds
<1> QED BY BInvInit, BInvStep, <1>1, PTL DEF Spec
-----------------------------------------------------------------------------
(* What was refused with no bulk taken. *)
Refused == outcome = "refused" /\ argv = <<>>

(* Between requests nothing is left of the one before, and the parser has    *)
(* kept the star that made the request a multi-bulk one.                     *)
Fresh ==
  /\ ~mbulk => nbulk = 0
  /\ nbulk = 0 /\ pc # "bulks" /\ outcome # "complete" => argv = <<>>
  /\ mbulk /\ nbulk = 0 /\ pc # "bulks" /\ outcome # "complete" =>
       Len(rbuf) > 0 /\ Byte(0) = Star
  /\ pc = "line" => Len(rbuf) > 0 /\ Byte(0) # Star
  /\ pc = "header" => nbulk = 0
  /\ pc = "bulks" /\ argv = <<>> /\ bulk_len = 0 /\ pos > 0 =>
       Len(rbuf) > 0 /\ Byte(0) = Star

(* A line end that arrives after a refusal comes within the limit only if    *)
(* one was there before.                                                     *)
TooLongLeft == Refused /\ mbulk => EndsInLimit \/ Len(rbuf) > MaxCommand

(* What is in rbuf is refused again: the line is too long, or the number in  *)
(* the first line is wrong, and both stay so.                                *)
Hopeless ==
  Refused /\ EndsInLimit =>
    /\ ~mbulk => Len(rbuf) > MaxCommand /\ Byte(0) # Star /\ pc \in {"idle", "line"}
    /\ mbulk /\ nbulk = 0 =>
         pc \in {"idle", "header"} /\ \A n \in 1 .. MaxBulks : ~Header(n)
    /\ mbulk /\ nbulk > 0 =>
         /\ bulk_len = 0 /\ pc \in {"idle", "bulks"} /\ (pc = "bulks" => pos = 0)
         /\ Byte(0) = Dollar =>
              \A e \in LineEnd(0), n \in 1 .. LengthLimit : n \notin Number(1, e)

RInv == BInv /\ Fresh /\ TooLongLeft /\ Hopeless

(* Two strings that agree from i to j, d apart, have the same part there.    *)
LEMMA SamePart ==
  ASSUME NEW s \in Seq(Nat), NEW t \in Seq(Nat), NEW i \in Nat \ {0}, NEW j \in Int,
         NEW d \in Nat, j <= Len(s), j + d <= Len(t),
         \A k \in i .. j : s[k] = t[k + d]
  PROVE  SubSeq(s, i, j) = SubSeq(t, i + d, j + d) /\ SubSeq(s, i, j) \in Seq(Nat)
<1> DEFINE u == SubSeq(s, i, j)
           v == SubSeq(t, i + d, j + d)
<1>1. \A k \in i .. j : k \in 1 .. Len(s) /\ s[k] \in Nat
  OBVIOUS
<1>2. \A k \in i + d .. j + d : k \in 1 .. Len(t) /\ t[k] \in Nat
  OBVIOUS
<1>3. /\ u \in Seq(Nat)
      /\ Len(u) = IF i <= j THEN j - i + 1 ELSE 0
      /\ \A k \in 1 .. j - i + 1 : u[k] = s[i + k - 1]
  BY <1>1, SubSeqProperties
<1>4. /\ v \in Seq(Nat)
      /\ Len(v) = IF i + d <= j + d THEN (j + d) - (i + d) + 1 ELSE 0
      /\ \A k \in 1 .. (j + d) - (i + d) + 1 : v[k] = t[i + d + k - 1]
  BY <1>2, SubSeqProperties
<1> HIDE DEF u, v
<1>5. Len(u) = Len(v)
  BY <1>3, <1>4
<1>6. ASSUME NEW k \in 1 .. Len(u) PROVE u[k] = v[k]
  <2>1. k \in 1 .. j - i + 1 /\ k \in 1 .. (j + d) - (i + d) + 1 /\ i + k - 1 \in i .. j
    BY <1>3
  <2>2. u[k] = s[i + k - 1] /\ v[k] = t[i + d + k - 1]
    BY <1>3, <1>4, <2>1
  <2>3. s[i + k - 1] = t[(i + k - 1) + d] /\ (i + k - 1) + d = i + d + k - 1
    BY <2>1
  <2> QED BY <2>2, <2>3
<1>7. u = v
  BY <1>3, <1>4, <1>5, <1>6, SeqEqual
<1> QED BY <1>3, <1>7 DEF u, v

(* Bytes that arrive change nothing in what was there.                       *)
LEMMA Longer ==
  ASSUME rbuf \in Seq(Nat), NEW t \in Seq(Nat), rbuf' = rbuf \o t
  PROVE  /\ rbuf' \in Seq(Nat) /\ Len(rbuf') >= Len(rbuf)
         /\ Len(rbuf) > 0 => Byte(0)' = Byte(0)
         /\ LineEnds(0) \subseteq LineEnds(0)'
         /\ \A e \in LineEnds(0)' : e + 1 < Len(rbuf) => e \in LineEnds(0)
         /\ \A e \in LineEnds(0) : Number(1, e)' = Number(1, e)
<1>1. /\ rbuf' \in Seq(Nat) /\ Len(rbuf') = Len(rbuf) + Len(t)
      /\ \A i \in 1 .. Len(rbuf) : rbuf'[i] = rbuf[i]
  <2>1. /\ rbuf \o t \in Seq(Nat) /\ Len(rbuf \o t) = Len(rbuf) + Len(t)
        /\ \A i \in 1 .. Len(rbuf) + Len(t) :
             (rbuf \o t)[i] = IF i <= Len(rbuf) THEN rbuf[i] ELSE t[i - Len(rbuf)]
    BY ConcatProperties
  <2>2. Len(rbuf) \in Nat /\ Len(t) \in Nat
    OBVIOUS
  <2> QED BY <2>1, <2>2
<1>2. Len(rbuf) \in Nat /\ Len(t) \in Nat
  OBVIOUS
<1>3. \A i \in 0 .. Len(rbuf) - 1 : Byte(i)' = Byte(i)
  BY <1>1, <1>2 DEF Byte
<1>4. LineEnds(0) \subseteq LineEnds(0)'
  <2> SUFFICES ASSUME NEW e \in LineEnds(0) PROVE e \in LineEnds(0)'
    OBVIOUS
  <2>1. e \in 0 .. Len(rbuf) - 2 /\ Byte(e) = CR /\ Byte(e + 1) = LF
    BY DEF LineEnds
  <2>2. e \in 0 .. Len(rbuf') - 2 /\ e + 1 \in 0 .. Len(rbuf) - 1 /\ e \in 0 .. Len(rbuf) - 1
    BY <1>1, <1>2, <2>1
  <2>3. Byte(e)' = CR /\ Byte(e + 1)' = LF
    BY <1>3, <2>1, <2>2
  <2> QED BY <2>2, <2>3 DEF LineEnds
<1>5. ASSUME NEW e \in LineEnds(0)', e + 1 < Len(rbuf) PROVE e \in LineEnds(0)
  <2>1. e \in 0 .. Len(rbuf') - 2 /\ Byte(e)' = CR /\ Byte(e + 1)' = LF
    BY DEF LineEnds
  <2>2. e \in 0 .. Len(rbuf) - 2 /\ e + 1 \in 0 .. Len(rbuf) - 1 /\ e \in 0 .. Len(rbuf) - 1
    BY <1>2, <1>5, <2>1
  <2> QED BY <1>3, <2>1, <2>2 DEF LineEnds
<1>6. ASSUME NEW e \in LineEnds(0) PROVE Number(1, e)' = Number(1, e)
  <2>1. e \in 0 .. Len(rbuf) - 2
    BY DEF LineEnds
  <2>2. e \in Int /\ e + 0 <= Len(rbuf') /\ e <= Len(rbuf) /\ 1 + 1 \in Nat \ {0}
    BY <1>1, <1>2, <2>1
  <2>3. \A k \in 1 + 1 .. e : rbuf[k] = rbuf'[k + 0]
    BY <1>1, <1>2, <2>1
  <2>4. SubSeq(rbuf, 1 + 1, e) = SubSeq(rbuf', 1 + 1 + 0, e + 0)
    BY <1>1, <2>2, <2>3, SamePart
  <2>5. SubSeq(rbuf, 1 + 1, e) = SubSeq(rbuf', 1 + 1, e)
    BY <2>2, <2>4
  <2> QED BY <2>5, Zenon DEF Number
<1> QED BY <1>1, <1>2, <1>3, <1>4, <1>5, <1>6

LEMMA RInvInit == Init => RInv
<1> SUFFICES ASSUME Init PROVE RInv
  OBVIOUS
<1>1. /\ mbulk = FALSE /\ nbulk = 0 /\ argv = <<>> /\ pc = "idle" /\ outcome = "more"
  BY DEF Init
<1> QED BY <1>1, BInvInit DEF RInv, Fresh, TooLongLeft, Hopeless, Refused

(* An arrival: a refused request goes to the part of the parser it had been  *)
(* refused by, and finds there what it had found before.                     *)
LEMMA ReadRefused ==
  ASSUME RInv, Read
  PROVE  Fresh' /\ TooLongLeft' /\ Hopeless'
<1>1. PICK m \in client.ends :
        m > sent /\ rbuf' = rbuf \o SubSeq(client.bytes, sent + 1, m) /\ sent' = m
  BY DEF Read
<1>2. /\ rbuf \in Seq(Nat) /\ client \in Clients /\ sent \in Nat /\ mbulk \in BOOLEAN
      /\ nbulk \in Nat
  BY DEF RInv, BInv, Numbers
<1> DEFINE t == SubSeq(client.bytes, sent + 1, m)
<1>3. t \in Seq(Nat) /\ Len(t) > 0
  <2>1. client.bytes \in Seq(Nat) /\ m \in 1 .. Len(client.bytes)
    BY <1>1, <1>2, ClientsAssumption
  <2>2. \A i \in sent + 1 .. m : client.bytes[i] \in Nat
    BY <1>2, <2>1
  <2>3. t \in Seq(Nat) /\ Len(t) = IF sent + 1 <= m THEN m - (sent + 1) + 1 ELSE 0
    BY <1>1, <1>2, <2>1, <2>2, SubSeqProperties
  <2> QED BY <1>1, <1>2, <2>1, <2>3
<1> HIDE DEF t
<1>4. /\ rbuf' \in Seq(Nat) /\ Len(rbuf') >= Len(rbuf)
      /\ Len(rbuf) > 0 => Byte(0)' = Byte(0)
      /\ LineEnds(0) \subseteq LineEnds(0)'
      /\ \A e \in LineEnds(0)' : e + 1 < Len(rbuf) => e \in LineEnds(0)
      /\ \A e \in LineEnds(0) : Number(1, e)' = Number(1, e)
  BY <1>1, <1>2, <1>3, Longer DEF t
<1>5. Len(rbuf') > 0
  BY <1>1, <1>2, <1>3, ConcatProperties DEF t
<1>6. /\ pc = "idle" /\ outcome # "complete" /\ pos' = 0
      /\ mbulk' <=> mbulk \/ Byte(0)' = Star
      /\ pc' = IF ~mbulk' THEN "line" ELSE IF nbulk = 0 THEN "header" ELSE "bulks"
      /\ nbulk' = nbulk /\ bulk_len' = bulk_len /\ argv' = argv /\ outcome' = outcome
  <2>1. mbulk' = (mbulk \/ rbuf'[1] = Star)
    BY DEF Read
  <2>2. mbulk' <=> mbulk \/ rbuf'[1] = Star
    BY <2>1, Zenon
  <2>3. Byte(0)' = rbuf'[1]
    BY DEF Byte
  <2> QED BY <2>2, <2>3 DEF Read
<1>7. Len(rbuf) \in Nat /\ Len(rbuf') \in Nat /\ MaxCommand \in Nat \ {0}
  BY <1>2, <1>4, LimitsAssumption
<1>8. Fresh'
  <2>1. mbulk /\ nbulk = 0 => Byte(0)' = Star
    BY <1>4, <1>6 DEF RInv, Fresh
  <2> QED BY <1>2, <1>5, <1>6, <2>1 DEF RInv, Fresh
<1>9. Refused' <=> Refused
  BY <1>6 DEF Refused
<1>10. Refused /\ mbulk' => mbulk
  <2> SUFFICES ASSUME Refused, ~mbulk PROVE ~mbulk'
    BY <1>2, <1>6
  <2>1. EndsInLimit
    BY DEF EndsInLimit
  <2>2. Len(rbuf) > MaxCommand /\ Byte(0) # Star
    BY <2>1 DEF RInv, Hopeless
  <2> QED BY <1>4, <1>6, <1>7, <2>2
<1>11. ASSUME Refused, EndsInLimit', mbulk PROVE EndsInLimit
  <2>1. PICK e \in LineEnds(0)' : e < MaxCommand
    BY <1>6, <1>11, LimitsAssumption DEF EndsInLimit
  <2>2. SUFFICES ASSUME ~EndsInLimit PROVE FALSE
    OBVIOUS
  <2>3. Len(rbuf) > MaxCommand
    BY <1>11, <2>2 DEF RInv, TooLongLeft
  <2>4. e \in Nat
    BY <1>7 DEF LineEnds
  <2>5. e \in LineEnds(0)
    BY <1>4, <1>7, <2>1, <2>3, <2>4
  <2> QED BY <2>1, <2>2, <2>5 DEF EndsInLimit
<1>12. TooLongLeft'
  <2> SUFFICES ASSUME Refused, mbulk, mbulk' PROVE EndsInLimit' \/ Len(rbuf') > MaxCommand
    BY <1>9, <1>10 DEF TooLongLeft
  <2>1. CASE EndsInLimit
    BY <1>4, <2>1 DEF EndsInLimit
  <2>2. CASE Len(rbuf) > MaxCommand
    BY <1>4, <1>7, <2>2
  <2> QED BY <2>1, <2>2 DEF RInv, TooLongLeft
<1>13. ASSUME Refused, EndsInLimit', ~mbulk'
       PROVE  Len(rbuf') > MaxCommand /\ Byte(0)' # Star /\ pc' \in {"idle", "line"}
  <2>1. ~mbulk /\ EndsInLimit
    BY <1>6, <1>13 DEF EndsInLimit
  <2>2. Len(rbuf) > MaxCommand /\ Byte(0) # Star
    BY <1>13, <2>1 DEF RInv, Hopeless
  <2> QED BY <1>4, <1>6, <1>7, <1>13, <2>2
(* The first line end is the one that was first.                             *)
<1>14. ASSUME Refused, EndsInLimit', mbulk'
       PROVE  /\ mbulk /\ EndsInLimit /\ Len(rbuf) > 0
              /\ \A e \in LineEnd(0)' : e \in LineEnd(0) /\ Number(1, e)' = Number(1, e)
  <2>1. mbulk /\ EndsInLimit
    BY <1>10, <1>11, <1>14
  <2>2. PICK f \in LineEnds(0) : f < MaxCommand
    BY <2>1 DEF EndsInLimit
  <2>3. Len(rbuf) > 0 /\ f \in Nat /\ f + 1 < Len(rbuf)
    BY <1>7, <2>2 DEF LineEnds
  <2>4. ASSUME NEW e \in LineEnd(0)' PROVE e \in LineEnd(0) /\ Number(1, e)' = Number(1, e)
    <3>1. e \in LineEnds(0)' /\ e <= f /\ \A j \in LineEnds(0) : e <= j
      BY <1>4, <2>2 DEF LineEnd
    <3>2. e \in Nat
      BY <1>7, <3>1 DEF LineEnds
    <3>3. e \in LineEnds(0)
      BY <1>4, <1>7, <2>3, <3>1, <3>2
    <3> QED BY <1>4, <3>1, <3>3 DEF LineEnd
  <2> QED BY <2>1, <2>3, <2>4
<1>15. ASSUME Refused, EndsInLimit', mbulk', nbulk = 0
       PROVE  pc' = "header" /\ \A n \in 1 .. MaxBulks : ~Header(n)'
  <2>1. \A n \in 1 .. MaxBulks : ~Header(n)
    BY <1>14, <1>15 DEF RInv, Hopeless
  <2>2. \A n : Header(n)' => Header(n)
    BY <1>14, <1>15 DEF Header
  <2> QED BY <1>6, <1>15, <2>1, <2>2
<1>16. ASSUME Refused, EndsInLimit', mbulk', nbulk > 0
       PROVE  /\ bulk_len' = 0 /\ pc' = "bulks" /\ pos' = 0
              /\ Byte(0)' = Dollar =>
                   \A e \in LineEnd(0)', n \in 1 .. LengthLimit : n \notin Number(1, e)'
  <2>1. /\ bulk_len = 0
        /\ Byte(0) = Dollar =>
             \A e \in LineEnd(0), n \in 1 .. LengthLimit : n \notin Number(1, e)
    BY <1>14, <1>16 DEF RInv, Hopeless
  <2>2. Byte(0)' = Byte(0)
    BY <1>4, <1>14, <1>16
  <2>3. \A e \in LineEnd(0)' : e \in LineEnd(0) /\ Number(1, e)' = Number(1, e)
    BY <1>14, <1>16
  <2>4. pc' = "bulks" /\ pos' = 0 /\ bulk_len' = 0
    BY <1>2, <1>6, <1>16, <2>1
  <2> QED BY <2>1, <2>2, <2>3, <2>4
<1>17. Hopeless'
  BY <1>6, <1>9, <1>13, <1>15, <1>16 DEF Hopeless, LengthLimit
<1> QED BY <1>8, <1>12, <1>17

(* A line end found at or behind p comes within the limit, or rbuf exceeds it. *)
LEMMA LineEndWithin ==
  ASSUME rbuf \in Seq(Nat), NEW p \in Nat, NEW e \in LineEnds(p)
  PROVE  (\E f \in LineEnds(0) : f < MaxCommand) \/ Len(rbuf) > MaxCommand
<1>1. e \in p .. Len(rbuf) - 2 /\ Byte(e) = CR /\ Byte(e + 1) = LF
  BY DEF LineEnds
<1>2. e \in 0 .. Len(rbuf) - 2 /\ e + 1 < Len(rbuf) /\ MaxCommand \in Nat
  BY <1>1, LimitsAssumption
<1>3. e \in LineEnds(0)
  BY <1>1, <1>2 DEF LineEnds
<1> QED BY <1>2, <1>3

(* A refusal leaves what will be refused again. *)
LEMMA RefusalStays ==
  ASSUME RInv, LineRefused \/ HeaderRefused \/ LengthRefused
  PROVE  Fresh' /\ TooLongLeft' /\ Hopeless'
<1>1. /\ pc' = "idle" /\ outcome' = "refused"
      /\ UNCHANGED <<client, sent, rbuf, pos, mbulk, nbulk, bulk_len, argv, room>>
  BY DEF LineRefused, HeaderRefused, LengthRefused, Refuse, Return, buffer, parsed
<1>2. /\ rbuf \in Seq(Nat) /\ pos \in Nat /\ nbulk \in Nat /\ Len(rbuf) \in Nat
      /\ MaxCommand \in Nat
  BY LimitsAssumption DEF RInv, BInv, Numbers
<1>3. /\ EndsInLimit' <=> EndsInLimit
      /\ \A i : Byte(i)' = Byte(i)
      /\ LineEnds(0)' = LineEnds(0) /\ LineEnd(0)' = LineEnd(0)
      /\ \A e : Number(1, e)' = Number(1, e)
      /\ \A n : Header(n)' <=> Header(n)
  BY <1>1 DEF EndsInLimit, LineEnds, LineEnd, Byte, Number, Header
<1>4. CASE LineRefused
  <2>1. ~mbulk /\ nbulk = 0 /\ Len(rbuf) > MaxCommand /\ Byte(0) # Star /\ argv = <<>>
    BY <1>4 DEF LineRefused, TooLong, RInv, Fresh, BInv, Phase
  <2> QED BY <1>1, <1>3, <2>1 DEF RInv, Fresh, TooLongLeft, Hopeless
<1>5. CASE HeaderRefused
  <2>1. mbulk /\ nbulk = 0 /\ Byte(0) = Star /\ argv = <<>> /\ HeaderWrong /\ Len(rbuf) > 0
    BY <1>5 DEF HeaderRefused, RInv, Fresh, BInv, Phase
  <2>2. ASSUME EndsInLimit PROVE \A n \in 1 .. MaxBulks : ~Header(n)
    <3>1. LineEnds(0) # {}
      BY <2>1, <2>2 DEF EndsInLimit
    <3> QED BY <2>1, <3>1 DEF HeaderWrong
  <2>3. EndsInLimit \/ Len(rbuf) > MaxCommand
    <3>1. CASE LineEnds(0) = {}
      BY <2>1, <3>1 DEF HeaderWrong, TooLong
    <3>2. CASE LineEnds(0) # {}
      BY <1>2, <3>2, LineEndWithin DEF EndsInLimit
    <3> QED BY <3>1, <3>2
  <2>4. Fresh'
    BY <1>1, <1>3, <2>1 DEF Fresh
  <2>5. TooLongLeft'
    BY <1>1, <1>3, <2>3 DEF TooLongLeft
  <2>6. Hopeless'
    BY <1>1, <1>3, <2>1, <2>2 DEF Hopeless
  <2> QED BY <2>4, <2>5, <2>6
<1>6. CASE LengthRefused
  <2>1. mbulk /\ nbulk > 0 /\ bulk_len = 0 /\ LengthWrong /\ pc = "bulks"
    BY <1>6 DEF LengthRefused, AtLength, RInv, BInv, Phase
  <2>2. EndsInLimit \/ Len(rbuf) > MaxCommand
    <3>1. CASE LineEnds(pos) = {}
      BY <2>1, <3>1 DEF LengthWrong, TooLong
    <3>2. CASE LineEnds(pos) # {}
      BY <1>2, <3>2, LineEndWithin DEF EndsInLimit
    <3> QED BY <3>1, <3>2
  <2>3. ASSUME EndsInLimit, argv = <<>>, Byte(0) = Dollar,
               NEW e \in LineEnd(0), NEW n \in 1 .. LengthLimit
        PROVE  n \notin Number(1, e)
    <3>1. pos = 0
      BY <1>2, <2>1, <2>3 DEF RInv, Fresh, Star, Dollar
    <3>2. LineEnds(pos) # {} /\ Byte(pos) = Dollar
      BY <2>1, <2>3, <3>1 DEF EndsInLimit
    <3>3. ~Length(n)
      BY <2>1, <3>2 DEF LengthWrong
    <3> QED BY <2>3, <3>1, <3>3 DEF Length
  <2>4. Fresh'
    BY <1>1, <1>2, <2>1 DEF Fresh, RInv
  <2>5. TooLongLeft'
    BY <1>1, <1>3, <2>2 DEF TooLongLeft
  <2>6. Hopeless'
    <3>1. LengthLimit' = LengthLimit
      BY DEF LengthLimit
    <3> QED BY <1>1, <1>3, <2>1, <2>3, <3>1 DEF Hopeless, Refused
  <2> QED BY <2>4, <2>5, <2>6
<1> QED BY <1>4, <1>5, <1>6

(* With what was refused before, nothing else can happen. *)
LEMMA OnlyRefused ==
  ASSUME RInv, Refused, EndsInLimit, Next
  PROVE  Read \/ LineRefused \/ HeaderRefused \/ LengthRefused
<1> USE DEF RInv, Refused, BInv, Phase
<1>1. CASE LineMore \/ LineTaken
  <2>1. ~mbulk /\ pc = "line"
    BY <1>1 DEF LineMore, LineTaken
  <2>2. Len(rbuf) > MaxCommand
    BY <2>1 DEF Hopeless
  <2> QED BY <1>1, <2>1, <2>2 DEF LineMore, LineTaken, TooLong
<1>2. CASE HeaderMore \/ HeaderTaken
  <2>1. mbulk /\ pc = "header" /\ nbulk = 0
    BY <1>2 DEF HeaderMore, HeaderTaken, Fresh
  <2>2. \A n \in 1 .. MaxBulks : ~Header(n)
    BY <2>1 DEF Hopeless
  <2> QED BY <1>2, <2>1, <2>2 DEF HeaderMore, HeaderTaken, EndsInLimit
<1>3. CASE LengthMore \/ LengthTaken \/ BodyMore \/ BodyTaken \/ Complete
  <2>1. mbulk /\ pc = "bulks" /\ nbulk \in Nat
    BY <1>3 DEF LengthMore, LengthTaken, BodyMore, BodyTaken, Complete, AtLength, AtBody, Numbers
  <2>2. nbulk > 0
    <3>1. nbulk # 0
      BY <2>1 DEF Hopeless
    <3> QED BY <2>1, <3>1
  <2>3. /\ bulk_len = 0 /\ pos = 0
        /\ Byte(0) = Dollar =>
             \A e \in LineEnd(0), n \in 1 .. LengthLimit : n \notin Number(1, e)
    BY <2>1, <2>2 DEF Hopeless
  <2>4. LengthMore \/ LengthTaken
    BY <1>3, <2>2, <2>3 DEF BodyMore, BodyTaken, AtBody, Complete
  <2>5. LineEnds(0) # {}
    BY <2>1 DEF EndsInLimit
  <2>6. Byte(0) = Dollar => \A n \in 1 .. LengthLimit : ~Length(n)
    <3>1. 0 + 1 = 1
      OBVIOUS
    <3> QED BY <2>3, <3>1 DEF Length
  <2> QED BY <2>3, <2>4, <2>5, <2>6 DEF LengthMore, LengthTaken
<1> QED BY <1>1, <1>2, <1>3 DEF Next

LEMMA RInvStep == RInv /\ [Next]_vars => RInv'
<1> SUFFICES ASSUME RInv, [Next]_vars PROVE Fresh' /\ TooLongLeft' /\ Hopeless'
  BY BInvStep DEF RInv
<1>1. CASE Read
  BY <1>1, ReadRefused
<1>2. CASE LineRefused \/ HeaderRefused \/ LengthRefused
  BY <1>2, RefusalStays
<1>3. ASSUME Next, ~(Read \/ LineRefused \/ HeaderRefused \/ LengthRefused)
      PROVE  ~(Refused /\ EndsInLimit)
  BY <1>3, OnlyRefused
<1>4. CASE LineMore \/ HeaderMore \/ LengthMore \/ BodyMore
  <2>1. pc' = "idle" /\ outcome' = "more" /\ UNCHANGED <<mbulk, nbulk, argv>>
    BY <1>4 DEF LineMore, HeaderMore, LengthMore, BodyMore, More, Return, parsed
  <2>2. CASE LineMore \/ HeaderMore
    <3>1. rbuf' = rbuf /\ outcome # "complete" /\ pc \in {"line", "header"}
      BY <2>2 DEF LineMore, HeaderMore, buffer, RInv, BInv, Phase
    <3> QED BY <2>1, <3>1 DEF RInv, Fresh, TooLongLeft, Hopeless, Refused, Byte
  <2>3. CASE LengthMore \/ BodyMore
    <3>1. nbulk > 0 /\ mbulk
      BY <2>3 DEF LengthMore, BodyMore, AtLength, AtBody, RInv, BInv, Phase
    <3> QED BY <2>1, <3>1 DEF RInv, Fresh, TooLongLeft, Hopeless, Refused
  <2> QED BY <1>4, <2>2, <2>3
<1>5. CASE LineTaken \/ Complete
  <2>1. pc' = "idle" /\ outcome' = "complete" /\ UNCHANGED <<mbulk, nbulk>>
    BY <1>5 DEF LineTaken, Complete, Return, parsed
  <2> QED BY <2>1 DEF RInv, Fresh, TooLongLeft, Hopeless, Refused
<1>6. CASE HeaderTaken \/ LengthTaken
  <2>1. /\ pc' = "bulks" /\ mbulk /\ UNCHANGED <<rbuf, mbulk, outcome>>
        /\ argv' = argv
    BY <1>6 DEF HeaderTaken, LengthTaken, AtLength, RInv, BInv, Phase, Fresh
  <2>2. (EndsInLimit' <=> EndsInLimit) /\ Byte(0)' = Byte(0)
    BY <2>1 DEF EndsInLimit, LineEnds, Byte
  <2>3. ~(Refused /\ EndsInLimit)
    <3>1. ~Read /\ ~LineRefused /\ ~HeaderRefused /\ ~LengthRefused
      <4>1. pc' = "bulks" /\ rbuf' = rbuf /\ pc \in {"header", "bulks"}
        BY <1>6, <2>1 DEF HeaderTaken, LengthTaken, AtLength
      <4> QED BY <4>1 DEF Read, LineRefused, HeaderRefused, LengthRefused, Refuse, Return
    <3> QED BY <1>3, <1>6, <3>1 DEF Next
  <2>4. Fresh'
    <3>1. CASE HeaderTaken
      <4>1. Len(rbuf) > 0 /\ Byte(0) = Star
        BY <3>1 DEF HeaderTaken, RInv, Fresh, BInv, Phase
      <4> QED BY <2>1, <2>2, <4>1 DEF Fresh
    <3>2. CASE LengthTaken
      <4>1. bulk_len' > 0 /\ nbulk' = nbulk
        BY <3>2, LimitsAssumption DEF LengthTaken, LengthLimit
      <4> QED BY <2>1, <4>1 DEF Fresh
    <3> QED BY <1>6, <3>1, <3>2
  <2>5. TooLongLeft' /\ Hopeless'
    BY <2>1, <2>2, <2>3 DEF RInv, TooLongLeft, Hopeless, Refused
  <2> QED BY <2>4, <2>5
<1>7. CASE BodyTaken
  <2>1. pc' = "bulks" /\ mbulk' = mbulk /\ mbulk
    BY <1>7 DEF BodyTaken, AtBody, RInv, BInv, Phase
  <2>2. argv' # <<>>
    <3>1. argv \in Seq(Seq(Nat))
      BY <2>1 DEF RInv, BInv, Slots
    <3>2. argv' = Append(argv, SubSeq(rbuf, pos + 1, pos + bulk_len))
      BY <1>7 DEF BodyTaken
    <3> QED BY <3>1, <3>2
  <2> QED BY <2>1, <2>2 DEF Fresh, TooLongLeft, Hopeless, Refused
<1>8. CASE UNCHANGED vars
  BY <1>8 DEF vars, buffer, parsed, RInv, Fresh, TooLongLeft, Hopeless, Refused, EndsInLimit,
              LineEnds, LineEnd, Byte, Header, Number, LengthLimit
<1> QED BY <1>1, <1>2, <1>4, <1>5, <1>6, <1>7, <1>8 DEF Next

(* A request refused before its first bulk was taken is refused at every     *)
(* further call of the parser, whatever bytes follow: its line is too long,  *)
(* or the first line in rbuf, which a refusal leaves there, holds a number   *)
(* that is wrong.  Only a number too long to end within the limit is looked  *)
(* at again when its end arrives.                                            *)
THEOREM RefusedStaysRefused == Spec => RefusedForGood
<1>1. ASSUME RInv, [Next]_vars
      PROVE  [outcome = "refused" /\ argv = <<>> /\ EndsInLimit =>
                outcome' = "refused" /\ argv' = <<>>]_vars
  <2> SUFFICES ASSUME Refused, EndsInLimit, Next PROVE outcome' = "refused" /\ argv' = argv
    BY <1>1 DEF Refused
  <2>1. Read \/ LineRefused \/ HeaderRefused \/ LengthRefused
    BY <1>1, OnlyRefused
  <2> QED BY <2>1 DEF Refused, Read, LineRefused, HeaderRefused, LengthRefused, Refuse, Return,
                      parsed
<1> QED BY <1>1, RInvInit, RInvStep, PTL DEF Spec, RefusedForGood
-----------------------------------------------------------------------------
(* What rbuf holds is the end of what has arrived. *)
Window ==
  /\ Len(rbuf) <= sent /\ sent <= Len(client.bytes)
  /\ \A i \in 1 .. Len(rbuf) : rbuf[i] = client.bytes[(sent - Len(rbuf)) + i]

(* A line of words stays in rbuf until all of it has arrived.                *)
OnLine ==
  /\ SpeaksLine(client)
  /\ ~mbulk /\ nbulk = 0 /\ Len(rbuf) = sent /\ outcome # "refused"
  /\ pc = "idle" \/ (pc = "line" /\ sent > 0)
  /\ outcome = "complete" => argv = client.meant
  /\ pc = "idle" /\ sent = Len(client.bytes) => outcome = "complete"

(* The number of the argument the parser is at, and the offset in all that   *)
(* the client sends.                                                         *)
At == Len(argv) + 1

Offset(lengths, bodies) ==
  IF nbulk = 0 THEN Len(client.bytes) ELSE IF bulk_len = 0 THEN lengths[At] ELSE bodies[At]

(* The arguments taken so far are the first ones the client means.           *)
Taking ==
  /\ mbulk /\ Len(argv) + nbulk = Len(client.meant)
  /\ argv \in Seq(Seq(Nat))
  /\ \A i \in DOMAIN argv : argv[i] = client.meant[i]
  /\ bulk_len = 0 \/ (nbulk > 0 /\ bulk_len = Len(client.meant[At]))

(* A call leaves rbuf empty or the request complete: every arrival ends where *)
(* the parser can stop.                                                      *)
InBulks(lengths, bodies) ==
  /\ outcome # "refused" /\ pc # "line"
  /\ outcome = "complete" => argv = client.meant
  /\ pc = "idle" /\ outcome = "more" => rbuf = <<>>
  /\ pc = "idle" /\ outcome = "more" /\ sent = 0 => nbulk = 0 /\ bulk_len = 0
  /\ pc = "idle" /\ outcome = "more" /\ sent # 0 =>
       Taking /\ nbulk > 0 /\ sent = Offset(lengths, bodies)
  /\ pc # "idle" => sent \in client.ends
  /\ pc = "header" => Len(rbuf) = sent /\ nbulk = 0 /\ bulk_len = 0
  /\ pc = "bulks" => Taking /\ (sent - Len(rbuf)) + pos = Offset(lengths, bodies)

Meant ==
  client.meant # Nonsense =>
    /\ Window /\ outcome \in {"more", "complete", "refused"}
    /\ client.meant \in Seq(Seq(Nat))
    /\ \/ OnLine
       \/ \E lengths, bodies \in [DOMAIN client.meant -> client.ends] :
            LaidOut(client, lengths, bodies) /\ InBulks(lengths, bodies)

(* A string stands for one number at most. *)
LEMMA OneNumber ==
  ASSUME NEW s, NEW m \in str2ll(s), NEW n \in str2ll(s)
  PROVE  m = n
BY DEF str2ll

(* cstr_range empties a string of which everything has been read.            *)
LEMMA RangeEmpty ==
  ASSUME NEW s \in Seq(Nat), NEW b \in Nat, b >= Len(s)
  PROVE  CstrRange(s, b, -1) = <<>>
<1> DEFINE used == Len(s)
           end == IF -1 >= 0 THEN -1 ELSE IF -1 + used < 0 THEN 0 ELSE -1 + used
<1>1. used \in Nat /\ b >= end
  OBVIOUS
<1> QED BY <1>1 DEF CstrRange

(* cstr_range takes the line end off the last word of a line.                *)
LEMMA RangeSansEnd ==
  ASSUME NEW w \in Seq(Nat)
  PROVE  CstrRange(w \o <<CR, LF>>, 0, -2) = w
<1> DEFINE s == w \o <<CR, LF>>
           t == <<CR, LF>>
<1>1. Len(w) \in Nat /\ t \in Seq(Nat) /\ Len(t) = 2
  BY DEF CR, LF
<1>2. s \in Seq(Nat) /\ Len(s) = Len(w) + 2 /\ \A i \in 1 .. Len(w) : s[i] = w[i]
  BY <1>1, ConcatProperties
<1> HIDE DEF s
<1>3. Len(w) = 0 => w = <<>>
  OBVIOUS
<1>4. CstrRange(s, 0, -2) = IF 0 >= Len(w) THEN <<>> ELSE SubSeq(s, 0 + 1, Len(w))
  BY <1>1, <1>2 DEF CstrRange
<1>5. SubSeq(s, 1, Len(w)) = SubSeq(w, 1 + 0, Len(w) + 0)
  BY <1>1, <1>2, SamePart
<1>6. SubSeq(w, 1, Len(w)) = w
  BY SubSeqFull
<1>7. CstrRange(s, 0, -2) = w
  BY <1>1, <1>3, <1>4, <1>5, <1>6
<1> QED BY <1>7 DEF s

(* A line that has arrived is found by the parser, with the number it holds. *)
LEMMA LineFound ==
  ASSUME rbuf \in Seq(Nat), client.bytes \in Seq(Nat), sent \in Nat, Window,
         NEW p \in Nat, NEW q \in Nat, NEW mark, NEW n, q <= sent,
         IsLine(client.bytes, (sent - Len(rbuf)) + p, q, mark, n)
  PROVE  /\ Byte(p) = mark
         /\ LineEnds(p) # {}
         /\ LineEnd(p) = {q - 2 - (sent - Len(rbuf))}
         /\ \A m : m \in Number(p + 1, q - 2 - (sent - Len(rbuf))) <=> m = n
<1> DEFINE base == sent - Len(rbuf)
           b == client.bytes
           e == q - 2 - base
<1>1. /\ Len(rbuf) \in Nat /\ base \in Nat /\ Len(b) \in Nat /\ e \in Int
      /\ base + Len(rbuf) = sent /\ sent <= Len(b)
      /\ \A i \in 1 .. Len(rbuf) : rbuf[i] = b[base + i]
  BY DEF Window
<1>2. /\ base + p + 2 < q /\ b[base + p + 1] = mark
      /\ n \in str2ll(SubSeq(b, base + p + 2, q - 2))
      /\ b[q - 1] = CR /\ b[q] = LF
      /\ \A i \in base + p + 1 .. q - 2 : ~(b[i] = CR /\ b[i + 1] = LF)
  BY DEF IsLine
<1> HIDE DEF base, e, b
<1>3. e = q - 2 - base /\ p < e /\ e + 2 <= Len(rbuf) /\ e \in Nat
  BY <1>1, <1>2 DEF e
<1>4. \A i \in 0 .. Len(rbuf) - 1 : Byte(i) = b[base + i + 1]
  BY <1>1 DEF Byte
<1>5. Byte(p) = mark
  <2>1. Len(rbuf) \in Nat /\ p \in 0 .. Len(rbuf) - 1
    BY <1>1, <1>3
  <2> QED BY <1>2, <1>4, <2>1
<1>6. e \in LineEnds(p)
  <2>1. e \in 0 .. Len(rbuf) - 1 /\ e + 1 \in 0 .. Len(rbuf) - 1 /\ e \in p .. Len(rbuf) - 2
    BY <1>1, <1>3
  <2>2. base + e + 1 = q - 1 /\ base + (e + 1) + 1 = q
    BY <1>1, <1>3
  <2>3. Byte(e) = CR /\ Byte(e + 1) = LF
    BY <1>2, <1>4, <2>1, <2>2
  <2> QED BY <2>1, <2>3 DEF LineEnds
<1>7. ASSUME NEW i \in LineEnds(p) PROVE e <= i
  <2> SUFFICES ASSUME i < e PROVE FALSE
    BY <1>3 DEF LineEnds
  <2>1. i \in p .. Len(rbuf) - 2 /\ Byte(i) = CR /\ Byte(i + 1) = LF
    BY DEF LineEnds
  <2>2. i \in 0 .. Len(rbuf) - 1 /\ i + 1 \in 0 .. Len(rbuf) - 1
    BY <1>1, <2>1
  <2>3. b[base + i + 1] = CR /\ b[base + i + 1 + 1] = LF
    BY <1>1, <1>4, <2>1, <2>2
  <2>4. base + i + 1 \in base + p + 1 .. q - 2
    <3>1. i \in Int /\ base \in Int /\ p <= i
      BY <1>1, <2>1
    <3> QED BY <1>3, <3>1
  <2> QED BY <1>2, <2>3, <2>4
<1>8. LineEnd(p) = {e}
  <2>1. e \in LineEnd(p)
    BY <1>6, <1>7 DEF LineEnd
  <2>2. ASSUME NEW i \in LineEnd(p) PROVE i = e
    <3>1. i \in LineEnds(p) /\ i <= e /\ i \in Int
      BY <1>6 DEF LineEnd, LineEnds
    <3> QED BY <1>3, <1>7, <3>1
  <2> QED BY <2>1, <2>2
<1>9. SubSeq(rbuf, (p + 1) + 1, e) = SubSeq(b, base + p + 2, q - 2)
  <2>1. /\ (p + 1) + 1 \in Nat \ {0} /\ e \in Int /\ e <= Len(rbuf) /\ e + base <= Len(b)
        /\ (p + 1) + 1 + base = base + p + 2 /\ e + base = q - 2
    BY <1>1, <1>3
  <2>2. ASSUME NEW k \in (p + 1) + 1 .. e PROVE rbuf[k] = b[k + base]
    <3>1. k \in 1 .. Len(rbuf) /\ k + base = base + k
      BY <1>1, <1>3
    <3> QED BY <1>1, <3>1
  <2>3. SubSeq(rbuf, (p + 1) + 1, e) = SubSeq(b, (p + 1) + 1 + base, e + base)
    BY <1>1, <2>1, <2>2, SamePart DEF b
  <2> QED BY <2>1, <2>3
<1>10. \A m : m \in Number(p + 1, e) <=> m = n
  BY <1>2, <1>9, OneNumber DEF Number
<1> QED BY <1>5, <1>6, <1>8, <1>10 DEF e, base

(* An arrival is appended, so that rbuf still ends where the arrivals do.    *)
LEMMA WindowRead ==
  ASSUME BInv, Window, Read
  PROVE  /\ Window'
         /\ client' = client /\ sent' \in client.ends /\ sent < sent'
         /\ Len(rbuf') = Len(rbuf) + (sent' - sent) /\ Len(rbuf) \in Nat /\ sent' \in Nat
<1>1. PICK n \in client.ends :
        n > sent /\ rbuf' = rbuf \o SubSeq(client.bytes, sent + 1, n) /\ sent' = n
  BY DEF Read
<1> DEFINE b == client.bytes
           t == SubSeq(b, sent + 1, n)
<1>2. /\ rbuf \in Seq(Nat) /\ Len(rbuf) \in Nat /\ sent \in Nat /\ b \in Seq(Nat) /\ Len(b) \in Nat
      /\ n \in 1 .. Len(b) /\ n > sent /\ client' = client
  <2>1. client \in Clients /\ rbuf \in Seq(Nat) /\ sent \in Nat /\ client' = client
    BY DEF BInv, Numbers, Read
  <2>2. b \in Seq(Nat) /\ n \in 1 .. Len(b)
    BY <2>1, ClientsAssumption
  <2> QED BY <1>1, <2>1, <2>2
<1> HIDE DEF b
<1>3. \A i \in sent + 1 .. n : b[i] \in Nat
  BY <1>2
<1>4. /\ t \in Seq(Nat)
      /\ Len(t) = IF sent + 1 <= n THEN n - (sent + 1) + 1 ELSE 0
      /\ \A i \in 1 .. n - (sent + 1) + 1 : t[i] = b[sent + 1 + i - 1]
  BY <1>2, <1>3, SubSeqProperties
<1>5. rbuf' = rbuf \o t
  BY <1>1 DEF b
<1> HIDE DEF t
<1>6. Len(t) = n - sent /\ \A i \in 1 .. n - sent : t[i] = b[sent + i]
  BY <1>2, <1>4
<1>7. /\ Len(rbuf') = Len(rbuf) + Len(t)
      /\ \A i \in 1 .. Len(rbuf) + Len(t) :
           rbuf'[i] = IF i <= Len(rbuf) THEN rbuf[i] ELSE t[i - Len(rbuf)]
  BY <1>2, <1>4, <1>5, ConcatProperties
<1>8. Len(rbuf) <= sent /\ \A i \in 1 .. Len(rbuf) : rbuf[i] = b[(sent - Len(rbuf)) + i]
  BY DEF Window, b
<1>9. n - Len(rbuf') = sent - Len(rbuf) /\ Len(rbuf') <= n
  BY <1>2, <1>6, <1>7, <1>8
<1>10. ASSUME NEW i \in 1 .. Len(rbuf') PROVE rbuf'[i] = b[(n - Len(rbuf')) + i]
  <2>1. CASE i <= Len(rbuf)
    <3>1. i \in 1 .. Len(rbuf) /\ i \in 1 .. Len(rbuf) + Len(t)
      BY <1>2, <1>7, <2>1
    <3> QED BY <1>7, <1>8, <1>9, <2>1, <3>1
  <2>2. CASE ~(i <= Len(rbuf))
    <3>1. i - Len(rbuf) \in 1 .. n - sent /\ i \in 1 .. Len(rbuf) + Len(t)
      BY <1>2, <1>6, <1>7, <2>2
    <3>2. sent + (i - Len(rbuf)) = (sent - Len(rbuf)) + i
      BY <1>2, <3>1
    <3> QED BY <1>6, <1>7, <1>9, <2>2, <3>1, <3>2
  <2> QED BY <2>1, <2>2
<1>11. Window'
  <2>1. sent' = n /\ client.bytes' = b /\ n <= Len(b)
    BY <1>1, <1>2 DEF b
  <2> QED BY <1>2, <1>9, <1>10, <2>1 DEF Window
<1> QED BY <1>1, <1>2, <1>6, <1>7, <1>11

LEMMA WindowKept ==
  ASSUME Window, UNCHANGED <<client, sent, rbuf>>
  PROVE  Window'
BY DEF Window

LEMMA WindowEmpty ==
  ASSUME Window, sent \in Nat, UNCHANGED <<client, sent>>, rbuf' = <<>>
  PROVE  Window'
<1>1. Len(rbuf') = 0 /\ 1 .. Len(rbuf') = {}
  OBVIOUS
<1> QED BY <1>1 DEF Window

(* The words of the line are taken when, and only when, all of it is there.  *)
LEMMA WordsTaken ==
  ASSUME BInv, Window, client.meant \in Seq(Seq(Nat)), OnLine, LineTaken
  PROVE  argv' = client.meant
<1> DEFINE b == client.bytes
           meant == client.meant
           n == Len(meant)
<1>1. /\ rbuf \in Seq(Nat) /\ b \in Seq(Nat) /\ Len(b) \in Nat /\ Len(rbuf) \in Nat
      /\ Len(rbuf) = sent /\ sent <= Len(b) /\ Len(b) >= 2
      /\ \A i \in 1 .. Len(rbuf) : rbuf[i] = b[(sent - Len(rbuf)) + i]
      /\ \A i \in 1 .. Len(b) - 1 : b[i] = CR /\ b[i + 1] = LF <=> i = Len(b) - 1
      /\ n \in Nat \ {0} /\ Split(b) = [meant EXCEPT ![n] = @ \o <<CR, LF>>]
  <2>1. rbuf \in Seq(Nat) /\ b \in Seq(Nat) /\ Len(b) \in Nat /\ Len(rbuf) \in Nat
    BY ClientsAssumption DEF BInv, Numbers
  <2>2. /\ Len(rbuf) = sent /\ sent <= Len(b)
        /\ \A i \in 1 .. Len(rbuf) : rbuf[i] = b[(sent - Len(rbuf)) + i]
    BY DEF Window, OnLine
  <2>3. SpeaksLine(client)
    BY DEF OnLine
  <2>4. /\ Len(b) \in 2 .. MaxCommand /\ meant # <<>>
        /\ \A i \in 1 .. Len(b) - 1 : b[i] = CR /\ b[i + 1] = LF <=> i = Len(b) - 1
        /\ Split(b) = [meant EXCEPT ![n] = @ \o <<CR, LF>>]
    BY <2>3 DEF SpeaksLine
  <2>5. n \in Nat \ {0}
    BY <2>4
  <2>6. Len(b) >= 2
    BY <2>4, LimitsAssumption
  <2> QED BY <2>1, <2>2, <2>4, <2>5, <2>6
<1>2. \A i \in 1 .. Len(rbuf) : rbuf[i] = b[i]
  BY <1>1
<1> HIDE DEF b
<1>3. PICK e \in LineEnds(0) : TRUE
  BY DEF LineTaken
<1>4. /\ e \in 0 .. Len(rbuf) - 2 /\ rbuf[e + 1] = CR /\ rbuf[(e + 1) + 1] = LF
  BY DEF LineEnds, Byte
<1>5. e + 1 \in 1 .. Len(b) - 1 /\ e + 1 \in 1 .. Len(rbuf) /\ (e + 1) + 1 \in 1 .. Len(rbuf)
  <2>1. Len(rbuf) \in Nat /\ Len(b) \in Nat /\ Len(rbuf) <= Len(b) /\ e \in 0 .. Len(rbuf) - 2
    BY <1>1, <1>4
  <2> QED BY <2>1
<1>6. e + 1 = Len(b) - 1
  BY <1>1, <1>2, <1>4, <1>5
<1>7. Len(rbuf) = Len(b)
  BY <1>1, <1>4, <1>6
<1>8. rbuf = b
  BY <1>1, <1>2, <1>7, SeqEqual
<1> DEFINE words == Split(rbuf)
<1>9. words = [meant EXCEPT ![n] = @ \o <<CR, LF>>]
  BY <1>1, <1>8
<1>10. argv' = [words EXCEPT ![Len(words)] = CstrRange(@, 0, -2)]
  BY DEF LineTaken
<1>11. /\ meant \in [1 .. n -> Seq(Nat)] /\ n \in 1 .. n /\ meant \in Seq(Seq(Nat))
  BY <1>1
<1> HIDE DEF words, meant, n
<1>12. Len(words) = n /\ DOMAIN words = 1 .. n /\ words[n] = meant[n] \o <<CR, LF>>
       /\ \A i \in 1 .. n : i # n => words[i] = meant[i]
  <2>1. meant[n] \in Seq(Nat) /\ <<CR, LF>> \in Seq(Nat)
    BY <1>11 DEF CR, LF
  <2>2. meant[n] \o <<CR, LF>> \in Seq(Nat)
    BY <2>1
  <2>3. DOMAIN meant = 1 .. n
    BY <1>11
  <2>4. /\ DOMAIN words = 1 .. n /\ words[n] = meant[n] \o <<CR, LF>>
        /\ \A i \in 1 .. n : i # n => words[i] = meant[i]
    BY <1>9, <1>11, <2>3
  <2>5. words \in Seq(Seq(Nat)) /\ Len(words) = Len(meant)
    BY <1>9, <1>11, <2>2, ExceptSeq
  <2> QED BY <2>4, <2>5 DEF n
<1>13. CstrRange(words[n], 0, -2) = meant[n]
  BY <1>11, <1>12, RangeSansEnd
<1>14. argv' = [words EXCEPT ![n] = meant[n]]
  BY <1>10, <1>12, <1>13
<1>15. argv' = [i \in 1 .. n |-> meant[i]]
  BY <1>12, <1>14
<1>16. meant = [i \in 1 .. n |-> meant[i]]
  BY <1>11
<1> QED BY <1>15, <1>16 DEF meant

LEMMA LineStep ==
  ASSUME BInv, Window, client.meant \in Seq(Seq(Nat)), outcome \in {"more", "complete", "refused"},
         OnLine, [Next]_vars
  PROVE  OnLine' /\ Window' /\ outcome' \in {"more", "complete", "refused"}
<1>1. /\ rbuf \in Seq(Nat) /\ client.bytes \in Seq(Nat) /\ Len(client.bytes) \in Nat /\ sent \in Nat
      /\ Len(rbuf) = sent /\ sent <= Len(client.bytes)
      /\ Len(client.bytes) \in 2 .. MaxCommand /\ MaxCommand \in Nat
  BY ClientsAssumption, LimitsAssumption DEF BInv, Numbers, Window, OnLine, SpeaksLine
<1>2. CASE Read
  <2>1. /\ Window' /\ client' = client /\ sent < sent' /\ Len(rbuf') = sent' /\ sent' \in Nat
    BY <1>1, <1>2, WindowRead
  <2>2. 1 \in 1 .. Len(rbuf') /\ (sent' - Len(rbuf')) + 1 = 1
    <3>1. Len(rbuf') = sent' /\ sent' \in Nat /\ sent' > 0
      BY <1>1, <2>1
    <3>2. \A n \in Nat : n > 0 => 1 \in 1 .. n /\ (n - n) + 1 = 1
      OBVIOUS
    <3> QED BY <3>1, <3>2
  <2>3. rbuf'[1] = client.bytes[1]
    BY <2>1, <2>2 DEF Window
  <2>4. mbulk' = (mbulk \/ rbuf'[1] = Star)
    BY <1>2 DEF Read
  <2>5. ~mbulk /\ client.bytes[1] # Star
    BY DEF OnLine, SpeaksLine
  <2>6. ~mbulk'
    BY <2>3, <2>4, <2>5
  <2>7. pc' = "line" /\ nbulk' = nbulk /\ outcome' = outcome /\ pc = "idle" /\ outcome # "complete"
    BY <1>2, <2>6 DEF Read
  <2>8. SpeaksLine(client)'
    BY <2>1 DEF OnLine
  <2> QED BY <1>1, <2>1, <2>6, <2>7, <2>8 DEF OnLine
<1>3. CASE LineRefused
  BY <1>1, <1>3 DEF LineRefused, TooLong
<1>4. CASE LineMore
  <2>1. UNCHANGED <<client, sent, rbuf, mbulk, nbulk, argv>> /\ pc' = "idle" /\ outcome' = "more"
    BY <1>4 DEF LineMore, Return, buffer, parsed
  <2>2. sent # Len(client.bytes)
    <3> SUFFICES ASSUME sent = Len(client.bytes) PROVE LineEnds(0) # {}
      BY <1>4 DEF LineMore
    <3> DEFINE e == Len(client.bytes) - 2
    <3>1. e \in 0 .. Len(rbuf) - 2 /\ e + 1 \in 1 .. Len(client.bytes) - 1
      BY <1>1
    <3>2. client.bytes[e + 1] = CR /\ client.bytes[(e + 1) + 1] = LF
      <4>1. e + 1 = Len(client.bytes) - 1
        BY <1>1
      <4> HIDE DEF e
      <4> QED BY <3>1, <4>1 DEF OnLine, SpeaksLine
    <3>3. rbuf[e + 1] = CR /\ rbuf[(e + 1) + 1] = LF
      <4>1. \A i \in 1 .. Len(rbuf) : rbuf[i] = client.bytes[i]
        BY <1>1 DEF Window
      <4>2. e + 1 \in 1 .. Len(rbuf) /\ (e + 1) + 1 \in 1 .. Len(rbuf)
        BY <1>1
      <4> QED BY <3>2, <4>1, <4>2
    <3> HIDE DEF e
    <3>4. e \in LineEnds(0)
      BY <3>1, <3>3 DEF LineEnds, Byte
    <3> QED BY <3>4
  <2> QED BY <2>1, <2>2, WindowKept DEF OnLine
<1>5. CASE LineTaken
  <2>1. /\ UNCHANGED <<client, sent, rbuf, mbulk, nbulk>> /\ pc' = "idle" /\ outcome' = "complete"
    BY <1>5 DEF LineTaken, Return, buffer
  <2>2. argv' = client.meant
    BY <1>5, WordsTaken
  <2> QED BY <2>1, <2>2, WindowKept DEF OnLine
<1>6. CASE UNCHANGED vars
  BY <1>6, WindowKept DEF vars, buffer, parsed, OnLine
<1>7. pc \in {"idle", "line"}
  BY DEF OnLine
<1> QED
  BY <1>2, <1>3, <1>4, <1>5, <1>6, <1>7
  DEF Next, HeaderRefused, HeaderMore, HeaderTaken, LengthRefused, LengthMore, LengthTaken,
      AtLength, BodyMore, BodyTaken, AtBody, Complete

-----------------------------------------------------------------------------
(* Where argument i is in what the client sends.                             *)
LEMMA Places ==
  ASSUME BInv, client.meant \in Seq(Seq(Nat)),
         NEW lengths \in [DOMAIN client.meant -> client.ends],
         NEW bodies \in [DOMAIN client.meant -> client.ends],
         LaidOut(client, lengths, bodies), NEW i \in DOMAIN client.meant
  PROVE  LET size == Len(client.meant[i]) IN
         /\ lengths[i] \in Nat /\ bodies[i] \in Nat /\ size \in Nat /\ size > 0 /\ size <= MaxCommand
         /\ lengths[i] <= MaxCommand /\ lengths[i] + 2 < bodies[i]
         /\ bodies[i] + size + 2 = Behind(client, lengths, i)
         /\ bodies[i] + size + 2 <= Len(client.bytes)
         /\ IsLine(client.bytes, lengths[i], bodies[i], Dollar, size)
         /\ client.meant[i] = SubSeq(client.bytes, bodies[i] + 1, bodies[i] + size)
         /\ \A e \in client.ends : e <= lengths[i] \/ e = bodies[i] \/ e >= bodies[i] + size + 2
<1> DEFINE size == Len(client.meant[i])
<1>1. client.ends \subseteq 1 .. Len(client.bytes) /\ Len(client.bytes) \in Nat
  BY ClientsAssumption DEF BInv, Numbers
<1>2. DOMAIN client.meant = 1 .. Len(client.meant) /\ Len(client.meant) \in Nat
      /\ client.meant[i] \in Seq(Nat)
  OBVIOUS
<1>3. lengths[i] \in client.ends /\ bodies[i] \in client.ends
  OBVIOUS
<1>4. /\ IsLine(client.bytes, lengths[i], bodies[i], Dollar, size)
      /\ client.meant[i] # <<>> /\ size <= MaxCommand
      /\ lengths[i] <= MaxCommand
      /\ client.meant[i] = SubSeq(client.bytes, bodies[i] + 1, bodies[i] + size)
      /\ bodies[i] + size + 2 = Behind(client, lengths, i)
      /\ \A e \in client.ends : e <= lengths[i] \/ e = bodies[i] \/ e >= Behind(client, lengths, i)
  BY DEF LaidOut
<1>5. size \in Nat /\ size > 0
  BY <1>2, <1>4
<1>6. Behind(client, lengths, i) <= Len(client.bytes)
  <2>1. CASE i = Len(client.meant)
    BY <1>1, <2>1 DEF Behind
  <2>2. CASE i # Len(client.meant)
    <3>1. i + 1 \in DOMAIN client.meant
      BY <1>2, <2>2
    <3>2. lengths[i + 1] \in client.ends
      BY <3>1
    <3> QED BY <1>1, <2>2, <3>2 DEF Behind
  <2> QED BY <2>1, <2>2
<1>7. lengths[i] + 2 < bodies[i]
  BY <1>4 DEF IsLine
<1> HIDE DEF size
<1>8. lengths[i] \in Nat /\ bodies[i] \in Nat
  BY <1>1, <1>3
<1> QED BY <1>4, <1>5, <1>6, <1>7, <1>8 DEF size

(* The argument at hand is one the client means.                             *)
LEMMA AtArgument ==
  ASSUME BInv, client.meant \in Seq(Seq(Nat)), Taking, nbulk > 0
  PROVE  /\ At \in DOMAIN client.meant /\ At = Len(client.meant) - nbulk + 1
         /\ Len(argv) \in Nat /\ nbulk \in Nat
<1>1. Len(argv) \in Nat /\ nbulk \in Nat /\ Len(argv) + nbulk = Len(client.meant)
  BY DEF BInv, Numbers, Taking
<1>2. DOMAIN client.meant = 1 .. Len(client.meant)
  OBVIOUS
<1>3. At = Len(argv) + 1
  BY DEF At
<1>4. At \in 1 .. Len(client.meant) /\ At = Len(client.meant) - nbulk + 1
  <2>1. \A k, m \in Nat : m > 0 => k + 1 \in 1 .. k + m /\ k + 1 = (k + m) - m + 1
    OBVIOUS
  <2> QED BY <1>1, <1>3, <2>1
<1> QED BY <1>1, <1>2, <1>4

(* The header arrives in one piece. *)
LEMMA HeaderStep ==
  ASSUME BInv, Window, client.meant \in Seq(Seq(Nat)),
         NEW lengths \in [DOMAIN client.meant -> client.ends],
         NEW bodies \in [DOMAIN client.meant -> client.ends],
         LaidOut(client, lengths, bodies), InBulks(lengths, bodies),
         HeaderRefused \/ HeaderMore \/ HeaderTaken
  PROVE  InBulks(lengths, bodies)' /\ Window' /\ outcome' = outcome
<1>1. /\ pc = "header" /\ sent \in client.ends /\ Len(rbuf) = sent /\ nbulk = 0 /\ bulk_len = 0
      /\ mbulk /\ outcome # "refused" /\ outcome # "complete"
  BY DEF InBulks, HeaderRefused, HeaderMore, HeaderTaken, BInv, Phase
<1>2. /\ rbuf \in Seq(Nat) /\ client \in Clients /\ sent \in Nat /\ client.bytes \in Seq(Nat)
      /\ client.ends \subseteq 1 .. Len(client.bytes)
  BY ClientsAssumption DEF BInv, Numbers
<1> DEFINE n == Len(client.meant)
           q == lengths[1]
<1>3. n \in 1 .. MaxBulks /\ 1 \in DOMAIN client.meant
  <2>1. client.meant # <<>> /\ n <= MaxBulks /\ n \in Nat /\ DOMAIN client.meant = 1 .. n
    BY DEF LaidOut
  <2>2. n # 0
    BY <2>1
  <2> QED BY <2>1, <2>2, LimitsAssumption
<1>4. q \in client.ends /\ q \in Nat /\ q <= sent /\ IsLine(client.bytes, 0, q, Star, n)
  <2>1. q \in client.ends
    BY <1>3
  <2>2. IsLine(client.bytes, 0, q, Star, n) /\ \A e \in client.ends : e >= q
    BY DEF LaidOut
  <2>3. q \in Nat
    BY <1>2, <2>1
  <2> QED BY <1>1, <2>1, <2>2, <2>3
<1> HIDE DEF n, q
<1>5. (sent - Len(rbuf)) + 0 = 0 /\ q - 2 - (sent - Len(rbuf)) = q - 2 /\ 0 + 1 = 1 /\ 0 \in Nat
  <2>1. sent - Len(rbuf) = 0
    BY <1>1, <1>2
  <2> QED BY <1>4, <2>1
<1>6. /\ Byte(0) = Star /\ LineEnds(0) # {} /\ LineEnd(0) = {q - 2}
      /\ \A m : m \in Number(1, q - 2) <=> m = n
  <2>1. IsLine(client.bytes, (sent - Len(rbuf)) + 0, q, Star, n)
    BY <1>4, <1>5
  <2>2. /\ Byte(0) = Star /\ LineEnds(0) # {} /\ LineEnd(0) = {q - 2 - (sent - Len(rbuf))}
        /\ \A m : m \in Number(0 + 1, q - 2 - (sent - Len(rbuf))) <=> m = n
    BY <1>2, <1>4, <1>5, <2>1, LineFound
  <2> QED BY <1>5, <2>2
<1>7. \A m : Header(m) <=> m = n
  BY <1>6 DEF Header
<1>8. ~HeaderRefused /\ ~HeaderMore
  BY <1>3, <1>6, <1>7 DEF HeaderRefused, HeaderMore, HeaderWrong
<1>9. HeaderTaken
  BY <1>8
<1>10. /\ nbulk' = n /\ pos' = q /\ argv' = <<>> /\ pc' = "bulks"
       /\ UNCHANGED <<client, sent, rbuf, mbulk, bulk_len, outcome>>
  <2>1. PICK e \in LineEnd(0) : pos' = e + 2
    BY <1>9 DEF HeaderTaken
  <2>2. pos' = q
    BY <1>4, <1>6, <2>1
  <2> QED BY <1>7, <1>9, <2>2 DEF HeaderTaken
<1>11. Taking'
  <2>1. argv' \in Seq(Seq(Nat)) /\ Len(argv') = 0 /\ DOMAIN argv' = {}
    BY <1>10
  <2>2. Len(client.meant)' = n
    BY <1>10 DEF n
  <2> QED BY <1>1, <1>3, <1>10, <2>1, <2>2 DEF Taking
<1>12. ((sent - Len(rbuf)) + pos = Offset(lengths, bodies))'
  <2>1. nbulk' # 0 /\ bulk_len' = 0 /\ At' = 1
    BY <1>1, <1>3, <1>10 DEF At
  <2>2. Offset(lengths, bodies)' = q
    BY <2>1 DEF Offset, q
  <2>3. (sent - Len(rbuf))' + pos' = q
    <3>1. (sent - Len(rbuf))' = 0
      BY <1>1, <1>2, <1>10
    <3> QED BY <1>4, <1>10, <3>1
  <2> QED BY <2>2, <2>3
<1> QED BY <1>1, <1>10, <1>11, <1>12, WindowKept DEF InBulks

(* The first arrival begins with the star, every other where the parser had  *)
(* stopped.                                                                  *)
LEMMA BulksRead ==
  ASSUME BInv, Window, client.meant \in Seq(Seq(Nat)),
         NEW lengths \in [DOMAIN client.meant -> client.ends],
         NEW bodies \in [DOMAIN client.meant -> client.ends],
         LaidOut(client, lengths, bodies), InBulks(lengths, bodies),
         outcome = "more", Read
  PROVE  InBulks(lengths, bodies)' /\ Window' /\ outcome' = outcome
<1>1. /\ Window' /\ client' = client /\ sent' \in client.ends /\ sent < sent'
      /\ Len(rbuf') = Len(rbuf) + (sent' - sent) /\ Len(rbuf) \in Nat /\ sent' \in Nat
  BY WindowRead
<1>2. /\ pc = "idle" /\ outcome' = outcome /\ rbuf = <<>> /\ sent \in Nat /\ pos' = 0
      /\ mbulk' = (mbulk \/ rbuf'[1] = Star) /\ nbulk \in Nat
      /\ pc' = IF ~mbulk' THEN "line" ELSE IF nbulk = 0 THEN "header" ELSE "bulks"
      /\ UNCHANGED <<nbulk, bulk_len, argv>>
  BY DEF Read, InBulks, BInv, Numbers
<1>3. Len(rbuf') = sent' - sent
  <2>1. Len(rbuf) = 0
    BY <1>2
  <2> QED BY <1>1, <1>2, <2>1
<1>4. CASE sent = 0
  <2>1. nbulk = 0 /\ bulk_len = 0
    BY <1>2, <1>4 DEF InBulks
  <2>2. Len(rbuf') = sent' /\ 1 \in 1 .. sent' /\ (sent' - Len(rbuf')) + 1 = 1
    <3>1. \A n \in Nat : n > 0 => n - 0 = n /\ 1 \in 1 .. n /\ (n - n) + 1 = 1
      OBVIOUS
    <3> QED BY <1>1, <1>3, <1>4, <3>1
  <2>3. rbuf'[1] = client.bytes[1]
    BY <1>1, <2>2 DEF Window
  <2>4. client.bytes[1] = Star
    <3>1. client.bytes[0 + 1] = Star /\ 0 + 1 = 1
      BY DEF LaidOut, IsLine
    <3> QED BY <3>1
  <2>5. mbulk'
    BY <1>2, <2>3, <2>4, Zenon
  <2>6. pc' = "header"
    BY <1>2, <2>1, <2>5
  <2> QED BY <1>1, <1>2, <2>1, <2>2, <2>6 DEF InBulks
<1>5. CASE sent # 0
  <2>1. Taking /\ nbulk > 0 /\ sent = Offset(lengths, bodies)
    BY <1>2, <1>5 DEF InBulks
  <2>2. mbulk'
    BY <1>2, <2>1 DEF Taking
  <2>3. pc' = "bulks"
    BY <1>2, <2>1, <2>2
  <2>4. Taking' /\ Offset(lengths, bodies)' = Offset(lengths, bodies)
    BY <1>1, <1>2, <2>1, <2>2 DEF Taking, Offset, At
  <2>5. (sent' - Len(rbuf')) + pos' = sent
    BY <1>1, <1>2, <1>3
  <2> QED BY <1>1, <1>2, <2>1, <2>3, <2>4, <2>5 DEF InBulks
<1> QED BY <1>4, <1>5

(* The parser at the line with a length: it has all of the line or nothing.  *)
LEMMA LengthLine ==
  ASSUME BInv, Window, client.meant \in Seq(Seq(Nat)),
         NEW lengths \in [DOMAIN client.meant -> client.ends],
         NEW bodies \in [DOMAIN client.meant -> client.ends],
         LaidOut(client, lengths, bodies), InBulks(lengths, bodies),
         AtLength
  PROVE  LET size == Len(client.meant[At])
             end  == bodies[At] - 2 - (sent - Len(rbuf)) IN
         \/ pos = Len(rbuf) /\ sent = lengths[At] /\ LineEnds(pos) = {} /\ ~TooLong
         \/ /\ Byte(pos) = Dollar /\ LineEnds(pos) # {} /\ LineEnd(pos) = {end}
            /\ \A m : m \in Number(pos + 1, end) <=> m = size
<1>1. /\ pc = "bulks" /\ nbulk > 0 /\ bulk_len = 0 /\ Taking /\ sent \in client.ends
      /\ (sent - Len(rbuf)) + pos = Offset(lengths, bodies)
      /\ pos <= Len(rbuf) /\ Len(rbuf) <= sent /\ pos \in Nat /\ sent \in Nat /\ rbuf \in Seq(Nat)
      /\ Len(rbuf) \in Nat /\ client.bytes \in Seq(Nat) /\ nbulk # 0
  <2>1. client.bytes \in Seq(Nat) /\ rbuf \in Seq(Nat)
    BY ClientsAssumption DEF BInv, Numbers
  <2> QED BY <2>1 DEF AtLength, InBulks, BInv, Numbers, Position, Window
<1>2. At \in DOMAIN client.meant
  BY <1>1, AtArgument
<1> DEFINE size == Len(client.meant[At])
           p == lengths[At]
           q == bodies[At]
<1>3. /\ p \in Nat /\ q \in Nat /\ p < q /\ p <= MaxCommand /\ size \in Nat
      /\ IsLine(client.bytes, p, q, Dollar, size)
      /\ \A e \in client.ends : e <= p \/ e = q \/ e >= q + size + 2
  <2>1. /\ p \in Nat /\ q \in Nat /\ p + 2 < q /\ p <= MaxCommand /\ size \in Nat
        /\ IsLine(client.bytes, p, q, Dollar, size)
        /\ \A e \in client.ends : e <= p \/ e = q \/ e >= q + size + 2
    BY <1>2, Places
  <2> HIDE DEF p, q, size
  <2> QED BY <2>1
<1>4. (sent - Len(rbuf)) + pos = p
  BY <1>1 DEF Offset
<1> HIDE DEF size, p, q
<1>5. CASE q <= sent
  <2>1. IsLine(client.bytes, (sent - Len(rbuf)) + pos, q, Dollar, size)
    BY <1>3, <1>4
  <2>2. /\ Byte(pos) = Dollar /\ LineEnds(pos) # {}
        /\ LineEnd(pos) = {q - 2 - (sent - Len(rbuf))}
        /\ \A m : m \in Number(pos + 1, q - 2 - (sent - Len(rbuf))) <=> m = size
    BY <1>1, <1>3, <1>5, <2>1, LineFound
  <2> QED BY <2>2 DEF q, size
<1>6. CASE ~(q <= sent)
  <2>1. sent <= p
    <3>1. sent <= p \/ sent = q \/ sent >= q + size + 2
      BY <1>1, <1>3
    <3> QED BY <1>1, <1>3, <1>6, <3>1
  <2>2. pos = Len(rbuf) /\ sent = p
    BY <1>1, <1>3, <1>4, <2>1
  <2>3. LineEnds(pos) = {}
    BY <1>1, <2>2 DEF LineEnds
  <2>4. ~TooLong
    BY <1>1, <1>3, <2>2, LimitsAssumption DEF TooLong
  <2> QED BY <2>2, <2>3, <2>4 DEF p
<1> QED BY <1>5, <1>6

(* A call that ends within a request has used up what was in rbuf.           *)
LEMMA BulksMore ==
  ASSUME BInv, Window, client.meant \in Seq(Seq(Nat)),
         NEW lengths \in [DOMAIN client.meant -> client.ends],
         NEW bodies \in [DOMAIN client.meant -> client.ends],
         LaidOut(client, lengths, bodies), InBulks(lengths, bodies),
         More, pc = "bulks", nbulk > 0, pos = Len(rbuf), sent = Offset(lengths, bodies)
  PROVE  InBulks(lengths, bodies)' /\ Window' /\ outcome' = "more"
<1>1. /\ rbuf \in Seq(Nat) /\ pos + bulk_len \in Nat /\ pos + bulk_len >= Len(rbuf) /\ sent \in Nat
      /\ Taking /\ sent \in client.ends /\ client.ends \subseteq 1 .. Len(client.bytes)
  BY ClientsAssumption DEF BInv, Numbers, InBulks
<1>2. rbuf' = <<>>
  BY <1>1, RangeEmpty DEF More, Strip
<1>3. /\ UNCHANGED <<client, sent, pos, mbulk, nbulk, bulk_len, argv, room>>
      /\ pc' = "idle" /\ outcome' = "more"
  BY DEF More, Return, parsed
<1>4. Taking' /\ Offset(lengths, bodies)' = Offset(lengths, bodies)
  BY <1>1, <1>3 DEF Taking, Offset, At
<1>5. sent # 0
  BY <1>1
<1> QED BY <1>1, <1>2, <1>3, <1>4, <1>5, WindowEmpty DEF InBulks

LEMMA LengthStep ==
  ASSUME BInv, Window, client.meant \in Seq(Seq(Nat)),
         NEW lengths \in [DOMAIN client.meant -> client.ends],
         NEW bodies \in [DOMAIN client.meant -> client.ends],
         LaidOut(client, lengths, bodies), InBulks(lengths, bodies),
         LengthRefused \/ LengthMore \/ LengthTaken
  PROVE  InBulks(lengths, bodies)' /\ Window' /\ outcome' \in {outcome, "more"}
<1>1. /\ AtLength /\ pc = "bulks" /\ nbulk > 0 /\ bulk_len = 0 /\ Taking /\ sent \in client.ends
      /\ (sent - Len(rbuf)) + pos = Offset(lengths, bodies) /\ nbulk # 0
      /\ sent \in Nat /\ Len(rbuf) \in Nat /\ pos \in Nat
  BY DEF LengthRefused, LengthMore, LengthTaken, AtLength, InBulks, BInv, Numbers
<1>2. At \in DOMAIN client.meant
  BY <1>1, AtArgument
<1> DEFINE size == Len(client.meant[At])
           q == bodies[At]
           end == q - 2 - (sent - Len(rbuf))
<1>3. q \in Nat /\ size \in 1 .. MaxCommand
  <2>1. q \in Nat /\ size \in Nat /\ size > 0 /\ size <= MaxCommand
    BY <1>2, Places
  <2> QED BY <2>1, LimitsAssumption
<1>4. \/ pos = Len(rbuf) /\ sent = lengths[At] /\ LineEnds(pos) = {} /\ ~TooLong
      \/ /\ Byte(pos) = Dollar /\ LineEnds(pos) # {} /\ LineEnd(pos) = {end}
         /\ \A m : m \in Number(pos + 1, end) <=> m = size
  BY <1>1, LengthLine
<1> HIDE DEF size, end, q
<1>5. CASE LineEnds(pos) = {}
  <2>1. pos = Len(rbuf) /\ sent = lengths[At] /\ ~TooLong
    BY <1>4, <1>5
  <2>2. LengthMore
    BY <1>5, <2>1 DEF LengthRefused, LengthWrong, LengthTaken
  <2>3. sent = Offset(lengths, bodies)
    BY <1>1, <2>1 DEF Offset
  <2> QED BY <1>1, <2>1, <2>2, <2>3, BulksMore DEF LengthMore
<1>6. CASE LineEnds(pos) # {}
  <2>1. /\ Byte(pos) = Dollar /\ LineEnd(pos) = {end}
        /\ \A m : Length(m) <=> m = size
    BY <1>4, <1>6 DEF Length
  <2>2. LengthTaken
    BY <1>3, <1>6, <2>1 DEF LengthRefused, LengthWrong, LengthMore, LengthLimit
  <2>3. PICK e \in LineEnd(pos) : pos' = e + 2
    BY <2>2 DEF LengthTaken
  <2>4. /\ bulk_len' = size /\ pos' = end + 2
        /\ UNCHANGED <<client, sent, rbuf, mbulk, nbulk, argv, room, pc, outcome>>
    BY <2>1, <2>2, <2>3 DEF LengthTaken
  <2>5. Taking'
    BY <1>1, <2>4 DEF Taking, At, size
  <2>6. bulk_len' # 0 /\ nbulk' # 0 /\ At' = At
    BY <1>1, <1>3, <2>4 DEF At
  <2>7. Offset(lengths, bodies)' = q
    BY <2>6 DEF Offset, q
  <2>8. (sent' - Len(rbuf')) + pos' = q
    <3>1. sent' = sent /\ rbuf' = rbuf
      BY <2>4
    <3> QED BY <1>1, <1>3, <2>4, <3>1 DEF end
  <2> QED BY <1>1, <2>4, <2>5, <2>7, <2>8, WindowKept DEF InBulks
<1> QED BY <1>5, <1>6

(* The parser at an argument: it has all of it, line end included, or nothing. *)
LEMMA BodyStep ==
  ASSUME BInv, Window, client.meant \in Seq(Seq(Nat)),
         NEW lengths \in [DOMAIN client.meant -> client.ends],
         NEW bodies \in [DOMAIN client.meant -> client.ends],
         LaidOut(client, lengths, bodies), InBulks(lengths, bodies),
         BodyMore \/ BodyTaken
  PROVE  InBulks(lengths, bodies)' /\ Window' /\ outcome' \in {outcome, "more"}
<1>1. /\ AtBody /\ pc = "bulks" /\ nbulk > 0 /\ bulk_len # 0 /\ Taking /\ sent \in client.ends
      /\ (sent - Len(rbuf)) + pos = Offset(lengths, bodies) /\ nbulk # 0
      /\ sent \in Nat /\ rbuf \in Seq(Nat) /\ Len(rbuf) \in Nat /\ pos \in Nat /\ nbulk \in Nat
      /\ pos <= Len(rbuf) /\ Len(rbuf) <= sent /\ sent <= Len(client.bytes)
      /\ argv \in Seq(Seq(Nat)) /\ Len(argv) \in Nat /\ bulk_len = Len(client.meant[At])
  BY DEF BodyMore, BodyTaken, AtBody, InBulks, BInv, Numbers, Position, Window, Taking
<1>2. At \in DOMAIN client.meant /\ At = Len(client.meant) - nbulk + 1
  BY <1>1, AtArgument
<1> DEFINE p == lengths[At]
           q == bodies[At]
           base == sent - Len(rbuf)
<1>3. /\ p \in Nat /\ q \in Nat /\ bulk_len \in Nat /\ bulk_len > 0 /\ p + 2 < q
      /\ q + bulk_len + 2 = Behind(client, lengths, At) /\ q + bulk_len + 2 <= Len(client.bytes)
      /\ client.meant[At] = SubSeq(client.bytes, q + 1, q + bulk_len)
      /\ sent <= p \/ sent = q \/ sent >= q + bulk_len + 2
  <2> DEFINE size == Len(client.meant[At])
  <2>1. /\ p \in Nat /\ q \in Nat /\ size \in Nat /\ size > 0 /\ p + 2 < q
        /\ q + size + 2 = Behind(client, lengths, At) /\ q + size + 2 <= Len(client.bytes)
        /\ client.meant[At] = SubSeq(client.bytes, q + 1, q + size)
        /\ \A e \in client.ends : e <= p \/ e = q \/ e >= q + size + 2
    BY <1>2, Places
  <2> HIDE DEF p, q
  <2>2. bulk_len = size /\ sent \in client.ends
    BY <1>1
  <2> HIDE DEF size
  <2> QED BY <2>1, <2>2
<1>4. base + pos = q
  BY <1>1 DEF Offset
<1>5. base \in Nat /\ base + Len(rbuf) = sent
  BY <1>1
<1> HIDE DEF p, q, base
<1>6. /\ sent \in Nat /\ Len(rbuf) \in Nat /\ pos \in Nat /\ nbulk \in Nat /\ pos <= Len(rbuf)
      /\ nbulk > 0 /\ Len(argv) \in Nat /\ sent <= Len(client.bytes)
  BY <1>1
<1>7. Len(client.bytes) \in Nat /\ client.bytes \in Seq(Nat)
  BY ClientsAssumption DEF BInv, Numbers
<1>8. CASE BodyMore
  <2>1. Len(rbuf) - pos < bulk_len + 2 /\ More
    BY <1>1, <1>3, <1>8 DEF BodyMore, Arrived
  <2>2. sent = q /\ pos = Len(rbuf)
    <3>1. p \in Nat /\ q \in Nat /\ bulk_len \in Nat /\ p < q
      BY <1>3
    <3>2. q <= sent /\ sent < q + bulk_len + 2
      BY <1>4, <1>5, <1>6, <2>1, <3>1
    <3>3. sent = q
      BY <1>3, <1>6, <3>1, <3>2
    <3> QED BY <1>4, <1>5, <1>6, <3>3
  <2>3. sent = Offset(lengths, bodies)
    BY <1>1, <1>4, <2>2 DEF base
  <2> QED BY <1>1, <2>1, <2>2, <2>3, BulksMore
<1>9. CASE BodyTaken
  <2>1. /\ argv' = Append(argv, SubSeq(rbuf, pos + 1, pos + bulk_len))
        /\ pos' = pos + bulk_len + 2 /\ bulk_len' = 0 /\ nbulk' = nbulk - 1
        /\ UNCHANGED <<client, sent, rbuf, mbulk, room, pc, outcome>>
        /\ Len(rbuf) - pos >= bulk_len + 2
    BY <1>9 DEF BodyTaken, Arrived
  <2>2. /\ pos' = pos + bulk_len + 2 /\ nbulk' = nbulk - 1 /\ Len(rbuf) - pos >= bulk_len + 2
         /\ q \in Nat /\ bulk_len \in Nat /\ q + bulk_len + 2 <= Len(client.bytes)
    BY <1>3, <2>1
  <2>3. SubSeq(rbuf, pos + 1, pos + bulk_len) = client.meant[At]
    <3>1. /\ pos + 1 \in Nat \ {0} /\ pos + bulk_len \in Int /\ base \in Nat
          /\ pos + bulk_len <= Len(rbuf) /\ (pos + bulk_len) + base <= Len(client.bytes)
          /\ (pos + 1) + base = q + 1 /\ (pos + bulk_len) + base = q + bulk_len
      <4>1. (pos + 1) + base = q + 1 /\ (pos + bulk_len) + base = q + bulk_len
        BY <1>4, <1>5, <1>6, <2>2
      <4>2. pos + bulk_len <= Len(rbuf) /\ q + bulk_len <= Len(client.bytes)
        BY <1>6, <1>7, <2>2
      <4> QED BY <1>5, <1>6, <2>2, <4>1, <4>2
    <3>2. ASSUME NEW k \in pos + 1 .. pos + bulk_len PROVE rbuf[k] = client.bytes[k + base]
      <4>1. k \in 1 .. Len(rbuf) /\ k + base = base + k
        BY <1>5, <1>6, <3>1
      <4> QED BY <4>1 DEF Window, base
    <3>3. rbuf \in Seq(Nat)
      BY <1>1
    <3>4. SubSeq(rbuf, pos + 1, pos + bulk_len) =
            SubSeq(client.bytes, (pos + 1) + base, (pos + bulk_len) + base)
      <4> DEFINE i == pos + 1
                 j == pos + bulk_len
                 b == client.bytes
      <4>1. /\ i \in Nat \ {0} /\ j \in Int /\ j <= Len(rbuf) /\ j + base <= Len(b) /\ base \in Nat
            /\ b \in Seq(Nat) /\ \A k \in i .. j : rbuf[k] = b[k + base]
        BY <1>7, <3>1, <3>2
      <4> HIDE DEF i, j, b
      <4>2. SubSeq(rbuf, i, j) = SubSeq(b, i + base, j + base)
        BY <3>3, <4>1, SamePart
      <4> QED BY <4>2 DEF i, j, b
    <3> QED BY <1>3, <3>1, <3>4
  <2>4. /\ argv' \in Seq(Seq(Nat)) /\ Len(argv') = Len(argv) + 1
        /\ \A i \in 1 .. Len(argv) : argv'[i] = argv[i]
        /\ argv'[At] = client.meant[At] /\ At = Len(argv) + 1
    <3>1. client.meant[At] \in Seq(Nat) /\ At = Len(argv) + 1
      BY <1>2 DEF At
    <3>2. argv' = Append(argv, client.meant[At]) /\ argv \in Seq(Seq(Nat))
      BY <1>1, <2>1, <2>3
    <3>3. /\ argv' \in Seq(Seq(Nat)) /\ Len(argv') = Len(argv) + 1
          /\ \A i \in 1 .. Len(argv) : argv'[i] = argv[i]
          /\ argv'[Len(argv) + 1] = client.meant[At]
      BY <3>1, <3>2, AppendProperties
    <3> QED BY <3>1, <3>3
  <2>5. Taking'
    <3>1. ASSUME NEW i \in DOMAIN argv' PROVE argv'[i] = client.meant[i]
      <4>1. i \in 1 .. Len(argv) \/ i = At
        <5>1. argv' \in Seq(Seq(Nat)) /\ Len(argv') = Len(argv) + 1 /\ At = Len(argv) + 1
          BY <2>4
        <5>2. \A s \in Seq(Seq(Nat)) : DOMAIN s = 1 .. Len(s)
          OBVIOUS
        <5>3. i \in 1 .. Len(argv) + 1
          BY <5>1, <5>2, Zenon
        <5> QED BY <1>6, <5>1, <5>3
      <4>2. \A j \in 1 .. Len(argv) : argv[j] = client.meant[j]
        <5>1. argv \in Seq(Seq(Nat)) /\ \A j \in DOMAIN argv : argv[j] = client.meant[j]
          BY <1>1 DEF Taking
        <5>2. DOMAIN argv = 1 .. Len(argv)
          BY <5>1
        <5> QED BY <5>1, <5>2, Zenon
      <4> QED BY <2>4, <4>1, <4>2
    <3>2. Len(argv') + nbulk' = Len(client.meant)
      <4>1. Len(argv) + nbulk = Len(client.meant)
        BY <1>1 DEF Taking
      <4>2. \A k, m \in Nat : (k + 1) + (m - 1) = k + m
        OBVIOUS
      <4> QED BY <1>6, <2>2, <2>4, <4>1, <4>2
    <3> QED BY <1>1, <2>1, <2>4, <3>1, <3>2 DEF Taking
  <2>6. Offset(lengths, bodies)' = q + bulk_len + 2
    <3>1. CASE nbulk' = 0
      <4>1. At = Len(client.meant)
        BY <1>1, <1>2, <2>1, <3>1
      <4>2. Behind(client, lengths, At) = Len(client.bytes)
        BY <4>1 DEF Behind
      <4> QED BY <1>3, <2>1, <3>1, <4>2 DEF Offset
    <3>2. CASE nbulk' # 0
      <4>1. At # Len(client.meant)
        BY <1>1, <1>2, <2>1, <3>2
      <4>2. At' = At + 1
        BY <2>4 DEF At
      <4>3. Behind(client, lengths, At) = lengths[At + 1]
        BY <4>1 DEF Behind
      <4> QED BY <1>3, <2>1, <3>2, <4>2, <4>3 DEF Offset
    <3> QED BY <3>1, <3>2
  <2>7. (sent' - Len(rbuf')) + pos' = q + bulk_len + 2
    <3>1. (sent' - Len(rbuf')) = base
      BY <2>1 DEF base
    <3>2. base + (pos + bulk_len + 2) = q + bulk_len + 2
      BY <1>4, <1>5, <1>6, <2>2
    <3> QED BY <2>2, <3>1, <3>2
  <2>8. pc' # "idle" /\ pc' # "header" /\ pc' # "line" /\ outcome' = outcome /\ sent' \in client.ends'
    BY <1>1, <2>1
  <2>9. Window'
    BY <2>1, WindowKept
  <2>10. outcome # "refused" /\ outcome # "complete"
    BY <1>1 DEF InBulks, BInv, Phase
  <2> QED BY <2>5, <2>6, <2>7, <2>8, <2>9, <2>10 DEF InBulks
<1> QED BY <1>8, <1>9

LEMMA BulksComplete ==
  ASSUME BInv, Window, client.meant \in Seq(Seq(Nat)),
         NEW lengths \in [DOMAIN client.meant -> client.ends],
         NEW bodies \in [DOMAIN client.meant -> client.ends],
         LaidOut(client, lengths, bodies), InBulks(lengths, bodies),
         Complete
  PROVE  InBulks(lengths, bodies)' /\ Window' /\ outcome' = "complete"
<1>1. /\ pc = "bulks" /\ nbulk = 0 /\ Taking
      /\ UNCHANGED <<client, sent, rbuf, pos, mbulk, nbulk, bulk_len, argv, room>>
      /\ pc' = "idle" /\ outcome' = "complete"
  BY DEF Complete, Return, buffer, parsed, InBulks
<1>2. argv = client.meant
  <2>1. /\ argv \in Seq(Seq(Nat)) /\ Len(argv) \in Nat /\ Len(argv) = Len(client.meant)
        /\ \A i \in 1 .. Len(argv) : argv[i] = client.meant[i]
    BY <1>1 DEF Taking
  <2> QED BY <2>1, SeqEqual
<1> QED BY <1>1, <1>2, WindowKept DEF InBulks

LEMMA BulksStep ==
  ASSUME BInv, Window, client.meant \in Seq(Seq(Nat)),
         NEW lengths \in [DOMAIN client.meant -> client.ends],
         NEW bodies \in [DOMAIN client.meant -> client.ends],
         LaidOut(client, lengths, bodies), InBulks(lengths, bodies),
         outcome \in {"more", "complete", "refused"}, [Next]_vars
  PROVE  InBulks(lengths, bodies)' /\ Window' /\ outcome' \in {"more", "complete", "refused"}
<1>1. CASE Read
  <2>1. outcome = "more"
    BY <1>1 DEF Read, InBulks
  <2> QED BY <1>1, <2>1, BulksRead
<1>2. CASE HeaderRefused \/ HeaderMore \/ HeaderTaken
  BY <1>2, HeaderStep
<1>3. CASE LengthRefused \/ LengthMore \/ LengthTaken
  BY <1>3, LengthStep
<1>4. CASE BodyMore \/ BodyTaken
  BY <1>4, BodyStep
<1>5. CASE Complete
  BY <1>5, BulksComplete
<1>6. CASE UNCHANGED vars
  BY <1>6, WindowKept DEF vars, buffer, parsed, InBulks, Taking, Offset, At
<1>7. ~LineRefused /\ ~LineMore /\ ~LineTaken
  BY DEF InBulks, LineRefused, LineMore, LineTaken
<1> QED BY <1>1, <1>2, <1>3, <1>4, <1>5, <1>6, <1>7 DEF Next

LEMMA MeantInit ==
  ASSUME \A c \in Clients : c.meant # Nonsense => Speaks(c), Init
  PROVE  Meant
<1> SUFFICES ASSUME client.meant # Nonsense PROVE Meant
  BY DEF Meant
<1>1. /\ client \in Clients /\ sent = 0 /\ rbuf = <<>> /\ Len(rbuf) = 0 /\ mbulk = FALSE /\ nbulk = 0
      /\ bulk_len = 0 /\ pc = "idle" /\ outcome = "more"
  BY DEF Init
<1>2. Speaks(client)
  BY <1>1
<1>3. Len(client.bytes) \in Nat
  BY <1>1, ClientsAssumption
<1>4. Window
  BY <1>1, <1>3 DEF Window
<1>5. CASE SpeaksLine(client)
  <2>1. OnLine
    <3>1. sent # Len(client.bytes)
      BY <1>1, <1>5 DEF SpeaksLine
    <3> QED BY <1>1, <1>5, <3>1 DEF OnLine
  <2> QED BY <1>1, <1>2, <1>4, <2>1 DEF Meant, Speaks
<1>6. CASE SpeaksBulks(client)
  <2>1. PICK lengths, bodies \in [DOMAIN client.meant -> client.ends] :
          LaidOut(client, lengths, bodies)
    BY <1>6 DEF SpeaksBulks
  <2>2. InBulks(lengths, bodies)
    BY <1>1 DEF InBulks
  <2> QED BY <1>1, <1>2, <1>4, <2>1, <2>2 DEF Meant, Speaks
<1> QED BY <1>2, <1>5, <1>6 DEF Speaks

LEMMA MeantStep == BInv /\ Meant /\ [Next]_vars => Meant'
<1> SUFFICES ASSUME BInv, Meant, [Next]_vars, client.meant # Nonsense PROVE Meant'
  <2>1. [Next]_vars => client' = client
    BY DEF Next, vars, Read, LineRefused, LineMore, LineTaken, HeaderRefused, HeaderMore,
           HeaderTaken, LengthRefused, LengthMore, LengthTaken, BodyMore, BodyTaken, Complete,
           Refuse, More
  <2> QED BY <2>1 DEF Meant
<1>1. client' = client
  BY DEF Next, vars, Read, LineRefused, LineMore, LineTaken, HeaderRefused, HeaderMore,
         HeaderTaken, LengthRefused, LengthMore, LengthTaken, BodyMore, BodyTaken, Complete,
         Refuse, More
<1>2. /\ Window /\ outcome \in {"more", "complete", "refused"} /\ client.meant \in Seq(Seq(Nat))
  BY DEF Meant
<1>3. CASE OnLine
  BY <1>1, <1>2, <1>3, LineStep DEF Meant
<1>4. CASE \E lengths, bodies \in [DOMAIN client.meant -> client.ends] :
             LaidOut(client, lengths, bodies) /\ InBulks(lengths, bodies)
  <2>1. PICK lengths, bodies \in [DOMAIN client.meant -> client.ends] :
          LaidOut(client, lengths, bodies) /\ InBulks(lengths, bodies)
    BY <1>4
  <2>2. InBulks(lengths, bodies)' /\ Window' /\ outcome' \in {"more", "complete", "refused"}
    BY <1>2, <2>1, BulksStep
  <2>3. LaidOut(client, lengths, bodies)'
    BY <1>1, <2>1
  <2> QED BY <1>1, <1>2, <2>1, <2>2, <2>3 DEF Meant
<1> QED BY <1>3, <1>4 DEF Meant

(* What is left to arrive is not empty before the last argument is taken.    *)
LEMMA MeantImplies == BInv /\ Meant => AsMeant
<1> SUFFICES ASSUME BInv, Meant, client.meant # Nonsense
             PROVE  /\ outcome # "refused"
                    /\ outcome = "complete" => argv = client.meant
                    /\ pc = "idle" /\ sent = Len(client.bytes) => outcome = "complete"
  BY DEF AsMeant
<1>1. CASE OnLine
  BY <1>1 DEF OnLine
<1>2. CASE \E lengths, bodies \in [DOMAIN client.meant -> client.ends] :
             LaidOut(client, lengths, bodies) /\ InBulks(lengths, bodies)
  <2>1. PICK lengths, bodies \in [DOMAIN client.meant -> client.ends] :
          LaidOut(client, lengths, bodies) /\ InBulks(lengths, bodies)
    BY <1>2
  <2>2. ASSUME pc = "idle", outcome = "more", sent = Len(client.bytes) PROVE FALSE
    <3>1. client.meant \in Seq(Seq(Nat)) /\ client.bytes \in Seq(Nat)
      BY ClientsAssumption DEF Meant, BInv, Numbers
    <3>2. 0 + 2 < lengths[1] /\ lengths[1] <= Len(client.bytes)
      BY <2>1 DEF LaidOut, IsLine
    <3>3. 1 \in DOMAIN client.meant
      <4>1. client.meant # <<>> /\ DOMAIN client.meant = 1 .. Len(client.meant)
        BY <2>1, <3>1 DEF LaidOut
      <4>2. Len(client.meant) # 0 /\ Len(client.meant) \in Nat
        BY <3>1, <4>1
      <4> QED BY <4>1, <4>2
    <3>4. lengths[1] \in Nat
      BY <2>1, <3>1, <3>3, Places
    <3>5. sent # 0
      BY <2>2, <3>2, <3>4
    <3>6. Taking /\ nbulk > 0 /\ nbulk # 0 /\ sent = Offset(lengths, bodies)
      BY <2>1, <2>2, <3>5 DEF InBulks
    <3>7. At \in DOMAIN client.meant
      BY <3>1, <3>6, AtArgument
    <3>8. /\ lengths[At] \in Nat /\ bodies[At] \in Nat /\ Len(client.meant[At]) \in Nat
          /\ lengths[At] + 2 < bodies[At]
          /\ bodies[At] + Len(client.meant[At]) + 2 <= Len(client.bytes)
      BY <2>1, <3>1, <3>7, Places
    <3>9. sent = lengths[At] \/ sent = bodies[At]
      BY <3>6 DEF Offset
    <3>10. Len(client.bytes) \in Nat
      BY <3>1
    <3> QED BY <2>2, <3>8, <3>9, <3>10
  <2> QED BY <2>1, <2>2 DEF Meant, InBulks
<1> QED BY <1>1, <1>2 DEF Meant

(* Whatever arguments a client means, if it speaks the protocol and its      *)
(* bytes arrive in pieces that end with its lines and its arguments, or are  *)
(* one line in any pieces, the parser takes those arguments, refuses none of *)
(* its calls, and is done when all bytes are there.                          *)
THEOREM TakenAsMeant ==
  ASSUME \A c \in Clients : c.meant # Nonsense => Speaks(c)
  PROVE  Spec => []AsMeant
<1>1. Init => BInv /\ Meant
  BY BInvInit, MeantInit
<1>2. (BInv /\ Meant) /\ [Next]_vars => (BInv /\ Meant)'
  BY BInvStep, MeantStep
<1>3. BInv /\ Meant => AsMeant
  BY MeantImplies
<1> QED BY <1>1, <1>2, <1>3, PTL DEF Spec
=============================================================================
