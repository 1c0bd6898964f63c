---------------------------- MODULE RequestParser ----------------------------
(***************************************************************************)
(* One connection as read_event_proc sees it (network.c): bytes arrive in  *)
(* whatever pieces the network makes of them, every arrival is appended to *)
(* rbuf and parsed, and the parser keeps what it has learnt so far in the  *)
(* cio: nbulk, bulk_len, argv.  A request is either one line of words, or  *)
(* a list of counted strings ("multi-bulk").                               *)
(*                                                                         *)
(* Positions are those of C: rbuf[pos] is Byte(pos).                       *)
(***************************************************************************)
EXTENDS Integers, Sequences, SequencesExt

CONSTANTS
  Clients,    (* what a client may do: [bytes |-> what it sends, ends |-> the *)
              (* offsets where an arrival may end, meant |-> the arguments it *)
              (* means, or Nonsense]                                          *)
  Nonsense,   (* the meaning of bytes that are no request                       *)
  MaxBulks,   (* 1024: the largest number of bulks                              *)
  MaxCommand, (* MAX_COMMAND_LEN_LIMIT                                          *)
  Word        (* 2^64: the values of an unsigned long long                      *)

ASSUME ClientsAssumption ==
  \A c \in Clients : c.bytes \in Seq(Nat) /\ c.ends \subseteq 1 .. Len(c.bytes)
ASSUME LimitsAssumption == MaxBulks \in Nat \ {0} /\ MaxCommand \in Nat \ {0}
ASSUME WordAssumption ==
  /\ Word \in Nat /\ Word % 2 = 0
  /\ MaxBulks < Word \div 2 /\ MaxCommand < Word \div 2

CR == 13
LF == 10
Space == 32
Dollar == 36
Star == 42
Minus == 45

VARIABLES
  client,   (* what the client does                                           *)
  sent,     (* number of its bytes that have arrived                          *)
  rbuf,     (* io->rbuf                                                       *)
  pos,      (* how far the parser is in rbuf                                  *)
  mbulk,    (* io->reqtype = REQ_TYPE_MBULK                                   *)
  nbulk,    (* io->nbulk: bulks still to come                                 *)
  bulk_len, (* io->bulk_len: length of the bulk at hand, 0 when not yet known *)
  argv,     (* io->argv[0 .. argc - 1]                                        *)
  room,     (* number of arguments io->argv has been allocated for            *)
  pc,       (* "idle", or the part of the parser at work                      *)
  outcome   (* what the last call of read_event_proc returned                 *)

buffer == <<rbuf, pos>>
parsed == <<mbulk, nbulk, bulk_len, argv, room>>
vars   == <<client, sent, buffer, parsed, pc, outcome>>

TypeOK ==
  /\ client \in Clients
  /\ sent \in 0 .. Len(client.bytes)
  /\ rbuf \in Seq(Nat)
  /\ pos \in Nat
  /\ mbulk \in BOOLEAN
  /\ nbulk \in 0 .. MaxBulks
  /\ bulk_len \in 0 .. MaxCommand
  /\ argv \in Seq(Seq(Nat))
  /\ room \in Nat
  /\ pc \in {"idle", "line", "header", "bulks"}
  /\ outcome \in {"more", "complete", "refused"}

Init ==
  /\ client \in Clients
  /\ sent = 0
  /\ rbuf = <<>> /\ pos = 0
  /\ mbulk = FALSE /\ nbulk = 0 /\ bulk_len = 0
  /\ argv = <<>> /\ room = 0
  /\ pc = "idle" /\ outcome = "more"

-----------------------------------------------------------------------------
(* Strings of bytes *)

Byte(p) == rbuf[p + 1]

(* strstr(rbuf + p, "\r\n"): the offset of the first line end at or after p, *)
(* as a set, which is empty when there is none.                              *)
LineEnds(p) == {i \in p .. Len(rbuf) - 2 : Byte(i) = CR /\ Byte(i + 1) = LF}
LineEnd(p) == {i \in LineEnds(p) : \A j \in LineEnds(p) : i <= j}

(* The loop of str2ll.  10 * v is taken modulo the word before the test for  *)
(* an overflow, which only looks at the addition.                           *)
Wrong == -1

Shift(v, c) ==
  IF v = Wrong \/ c \notin 48 .. 57 THEN Wrong
  ELSE LET tens == (10 * v) % Word IN
         IF tens > Word - 1 - (c - 48) THEN Wrong ELSE tens + c - 48

Value(s) == FoldLeft(Shift, 0, s)

(* The number s stands for, as a set: what is no number has none. *)
str2ll(s) ==
  LET negative == s # <<>> /\ s[1] = Minus
      v == Value(IF negative THEN Tail(s) ELSE s)
  IN IF negative THEN {-n : n \in {v} \cap 0 .. Word \div 2}
                 ELSE {v} \cap 0 .. (Word \div 2) - 1

(* The bytes from p to q - 1 of rbuf. *)
Number(p, q) == str2ll(SubSeq(rbuf, p + 1, q))

(* cstr_range(s, b, e), which leaves out position e; a negative e counts from *)
(* the end, so that -1 leaves out the last byte.                              *)
CstrRangeToLast(s, b, e) ==                 (* mutant: position e is taken *)
  SubSeq(s, b + 1, IF e >= 0 THEN e + 1 ELSE Len(s) + e + 1)

CstrRange(s, b, e) ==
  LET used  == Len(s)
      end   == IF e >= 0 THEN e ELSE IF e + used < 0 THEN 0 ELSE e + used
      last  == IF end > used THEN used - 1 ELSE end
  IN IF b >= end \/ b > used THEN <<>> ELSE SubSeq(s, b + 1, last)

(* cstr_split(s, " "), as the set of offsets where a word begins. *)
Words(s) == {0} \cup {i \in 1 .. Len(s) : s[i] = Space}

Split(s) ==
  LET starts == SetToSortSeq(Words(s), <)
      end(i) == IF i = Len(starts) THEN Len(s) ELSE starts[i + 1] - 1
  IN [i \in DOMAIN starts |-> SubSeq(s, starts[i] + 1, end(i))]

-----------------------------------------------------------------------------
(* read_event_proc, _read_process, try_process_command *)

Return(o) == pc' = "idle" /\ outcome' = o

(* A complete request has its read event deleted, any other goes on reading. *)
Read ==
  /\ pc = "idle" /\ outcome # "complete"
  /\ \E n \in client.ends :
       /\ n > sent
       /\ rbuf' = rbuf \o SubSeq(client.bytes, sent + 1, n)
       /\ sent' = n
  /\ pos' = 0
  /\ mbulk' = (mbulk \/ rbuf'[1] = Star)
  /\ pc' = IF ~mbulk' THEN "line" ELSE IF nbulk = 0 THEN "header" ELSE "bulks"
  /\ UNCHANGED <<client, nbulk, bulk_len, argv, room, outcome>>

RefuseAndClear ==                           (* mutant: rbuf is cleared *)
  /\ Return("refused")
  /\ rbuf' = <<>>
  /\ UNCHANGED <<client, sent, pos, parsed>>

(* set_protocol_error and an error reply; rbuf and what has been parsed stay. *)
Refuse ==
  /\ Return("refused")
  /\ UNCHANGED <<client, sent, buffer, parsed>>

(* Too long without a line end. *)
TooLong == pc # "idle" /\ Len(rbuf) > MaxCommand

LineRefused ==
  /\ pc = "line"
  /\ TooLong
  /\ Refuse

LineMore ==
  /\ pc = "line"
  /\ ~TooLong /\ LineEnds(0) = {}
  /\ Return("more")
  /\ UNCHANGED <<client, sent, buffer, parsed>>

(* The words of all there is in rbuf; the last one loses the line end. *)
LineTaken ==
  /\ pc = "line"
  /\ ~TooLong /\ LineEnds(0) # {}
  /\ LET words == Split(rbuf) IN
       argv' = [words EXCEPT ![Len(words)] = CstrRange(@, 0, -2)]
  /\ room' = Len(argv')
  /\ Return("complete")
  /\ UNCHANGED <<client, sent, buffer, mbulk, nbulk, bulk_len>>

-----------------------------------------------------------------------------
(* try_process_multibluk_command: the number of bulks *)

Header(n) == \E e \in LineEnd(0) : n \in Number(1, e)

HeaderWrong ==
  IF LineEnds(0) = {} THEN TooLong ELSE \A n \in 1 .. MaxBulks : ~Header(n)

HeaderRefused ==
  /\ pc = "header"
  /\ Byte(0) = Star => HeaderWrong
  /\ Refuse

HeaderMore ==
  /\ pc = "header"
  /\ Byte(0) = Star
  /\ LineEnds(0) = {} /\ ~TooLong
  /\ Return("more")
  /\ UNCHANGED <<client, sent, buffer, parsed>>

HeaderTaken ==
  /\ pc = "header"
  /\ Byte(0) = Star
  /\ \E n \in 1 .. MaxBulks : Header(n) /\ nbulk' = n /\ room' = n
  /\ \E e \in LineEnd(0) : pos' = e + 2
  /\ argv' = <<>>
  /\ pc' = "bulks"
  /\ UNCHANGED <<client, sent, rbuf, mbulk, bulk_len, outcome>>

-----------------------------------------------------------------------------
(* The loop over the bulks *)

AtLength == pc = "bulks" /\ nbulk > 0 /\ bulk_len = 0
AtBody   == pc = "bulks" /\ nbulk > 0 /\ bulk_len > 0

(* The request goes on: what has been parsed is removed from rbuf. *)
Strip == rbuf' = CstrRange(rbuf, pos + bulk_len, -1)

More ==
  /\ Strip
  /\ Return("more")
  /\ UNCHANGED <<client, sent, pos, parsed>>

LengthMore == AtLength /\ LineEnds(pos) = {} /\ ~TooLong /\ More

Length(n) == \E e \in LineEnd(pos) : n \in Number(pos + 1, e)

LengthLimit == MaxCommand

LengthWrong ==
  IF LineEnds(pos) = {} THEN TooLong
  ELSE Byte(pos) = Dollar => \A n \in 1 .. LengthLimit : ~Length(n)

LengthRefused == AtLength /\ LengthWrong /\ Refuse

LengthTaken ==
  /\ AtLength
  /\ LineEnds(pos) # {} /\ Byte(pos) = Dollar
  /\ \E n \in 1 .. LengthLimit : Length(n) /\ bulk_len' = n
  /\ \E e \in LineEnd(pos) : pos' = e + 2
  /\ UNCHANGED <<client, sent, rbuf, mbulk, nbulk, argv, room, pc, outcome>>

ArrivedSansEnd == Len(rbuf) - pos >= bulk_len      (* mutant: without the line end *)

Arrived == Len(rbuf) - pos >= bulk_len + 2

BodyMore == AtBody /\ ~Arrived /\ More

(* The line end behind a bulk is skipped, not looked at. *)
BodyTaken ==
  /\ AtBody
  /\ Arrived
  /\ argv' = Append(argv, SubSeq(rbuf, pos + 1, pos + bulk_len))
  /\ pos' = pos + bulk_len + 2
  /\ bulk_len' = 0
  /\ nbulk' = nbulk - 1
  /\ UNCHANGED <<client, sent, rbuf, mbulk, room, pc, outcome>>

Complete ==
  /\ pc = "bulks" /\ nbulk = 0
  /\ Return("complete")
  /\ UNCHANGED <<client, sent, buffer, parsed>>

-----------------------------------------------------------------------------
Next ==
  \/ Read
  \/ LineRefused \/ LineMore \/ LineTaken
  \/ HeaderRefused \/ HeaderMore \/ HeaderTaken
  \/ LengthRefused \/ LengthMore \/ LengthTaken
  \/ BodyMore \/ BodyTaken \/ Complete

Spec == Init /\ [][Next]_vars

-----------------------------------------------------------------------------
(* The parser stays inside its buffers whatever arrives, also when it is   *)
(* called again after it refused: nread - pos, which is unsigned, does not *)
(* wrap around, and argv has a slot for every bulk still to come.          *)
InBounds ==
  /\ pc = "bulks" => pos <= Len(rbuf)
  /\ mbulk => Len(argv) + nbulk = room

(* A request has the same arguments however it is cut into pieces, and is   *)
(* complete once it has arrived.                                            *)
AsMeant ==
  client.meant # Nonsense =>
    /\ outcome # "refused"
    /\ outcome = "complete" => argv = client.meant
    /\ pc = "idle" /\ sent = Len(client.bytes) => outcome = "complete"

(* A request that is refused before the first of its bulks was taken stays  *)
(* so, whatever follows and however often the parser is called again.  One  *)
(* that is refused later may not: the bulks still in rbuf are taken again.  *)
(* Nor may one that was refused for a number too long to end within the     *)
(* limit: an end that arrives after all is taken, and zeros in front of the *)
(* number let it be right.                                                  *)
EndsInLimit == mbulk => \E e \in LineEnds(0) : e < MaxCommand

RefusedForGood ==
  [][outcome = "refused" /\ argv = <<>> /\ EndsInLimit =>
       outcome' = "refused" /\ argv' = <<>>]_vars

-----------------------------------------------------------------------------
(* Clients that speak the protocol *)

(* The bytes p + 1 .. q of s are a line: the mark, n in digits, the line end. *)
IsLine(s, p, q, mark, n) ==
  /\ p + 2 < q /\ q <= Len(s)
  /\ s[p + 1] = mark
  /\ n \in str2ll(SubSeq(s, p + 2, q - 2))
  /\ s[q - 1] = CR /\ s[q] = LF
  /\ \A i \in p + 1 .. q - 2 : ~(s[i] = CR /\ s[i + 1] = LF)

(* c counts the arguments it means, then for each of them its bytes, and     *)
(* sends its bytes behind that: lengths[i] is where the line with the length *)
(* of argument i begins, bodies[i] where the argument does.  An arrival may  *)
(* end there, or where the request does, and nowhere else.  A length that     *)
(* begins beyond MaxCommand may be refused before its line arrives.          *)
Behind(c, lengths, i) == IF i = Len(c.meant) THEN Len(c.bytes) ELSE lengths[i + 1]

LaidOut(c, lengths, bodies) ==
  /\ c.meant # <<>> /\ Len(c.meant) <= MaxBulks
  /\ IsLine(c.bytes, 0, lengths[1], Star, Len(c.meant))
  /\ \A e \in c.ends : e >= lengths[1]
  /\ \A i \in DOMAIN c.meant :
       /\ IsLine(c.bytes, lengths[i], bodies[i], Dollar, Len(c.meant[i]))
       /\ c.meant[i] # <<>> /\ Len(c.meant[i]) <= MaxCommand
       /\ lengths[i] <= MaxCommand
       /\ c.meant[i] = SubSeq(c.bytes, bodies[i] + 1, bodies[i] + Len(c.meant[i]))
       /\ bodies[i] + Len(c.meant[i]) + 2 = Behind(c, lengths, i)
       /\ \A e \in c.ends : \/ e <= lengths[i] \/ e = bodies[i]
                             \/ e >= Behind(c, lengths, i)

SpeaksBulks(c) ==
  \E lengths, bodies \in [DOMAIN c.meant -> c.ends] : LaidOut(c, lengths, bodies)

(* c sends its words on one line, in whatever pieces. *)
SpeaksLine(c) ==
  LET size == Len(c.bytes) IN
  /\ size \in 2 .. MaxCommand
  /\ c.bytes[1] # Star
  /\ \A i \in 1 .. size - 1 : c.bytes[i] = CR /\ c.bytes[i + 1] = LF <=> i = size - 1
  /\ c.meant # <<>>
  /\ Split(c.bytes) = [c.meant EXCEPT ![Len(c.meant)] = @ \o <<CR, LF>>]

Speaks(c) == c.meant \in Seq(Seq(Nat)) /\ (SpeaksBulks(c) \/ SpeaksLine(c))

-----------------------------------------------------------------------------
(* Clients to choose from *)

Digits(n) == IF n < 10 THEN <<48 + n>> ELSE <<48 + (n \div 10), 48 + (n % 10)>>

EndLine(s) == s \o <<CR, LF>>

(* The lines and bulks of a multi-bulk request. *)
Items(args) ==
  <<EndLine(<<Star>> \o Digits(Len(args)))>> \o
  FlattenSeq([i \in DOMAIN args |->
                <<EndLine(<<Dollar>> \o Digits(Len(args[i]))), EndLine(args[i])>>])

(* A line of words. *)
Line(args) ==
  EndLine(FlattenSeq([i \in DOMAIN args |->
                        IF i = 1 THEN args[i] ELSE <<Space>> \o args[i]]))

(* Arrivals that end where an item ends, and arrivals that end anywhere. *)
InItems(items) ==
  [bytes |-> FlattenSeq(items),
   ends |-> {Len(FlattenSeq(SubSeq(items, 1, i))) : i \in DOMAIN items}]

InBytes(bytes) == [bytes |-> bytes, ends |-> DOMAIN bytes]

Meaning(sends, args) == [bytes |-> sends.bytes, ends |-> sends.ends, meant |-> args]
=============================================================================
