--------------------------------- MODULE Stdio ---------------------------------
(***************************************************************************)
(* Characters through the stream of the serial port (lib/c/stdio,          *)
(* dev/usart): who may write, what is counted, what the calls return.  A   *)
(* call busy-waits for the port, so that it is one step.  Formats are      *)
(* those of Library; here printf prints its text.  What a read waits for   *)
(* is modelled in Serial.                                                  *)
(***************************************************************************)
EXTENDS Integers, Sequences, FiniteSets

CONSTANTS
  Texts,         \* the texts that are printed
  StreamModes,   \* the sets of flags for mode
  MaxChars       \* bound: nothing is written after so many characters

CR == 13
LF == 10

ASSUME StdioConstants ==
  /\ Texts \subseteq Seq((0 .. 255) \ {CR}) \ {<<>>} /\ StreamModes \subseteq SUBSET {"rd", "wr"}
  /\ MaxChars \in Nat

VARIABLES
  slots,   \* the descriptors at which __iob holds usart0_io
  out,     \* usart0_io: flags, length; the wire; rc, what the last call returned
  sent     \* history: the characters that calls had leave to write

stdioVars == <<slots, out, sent>>

stdin == 0
stdout == 1

\* BermudaUsartSetupStreams; iob_add takes the slot 3.
StdioInit ==
  /\ slots = {stdin, stdout, 3}
  /\ out = [flags |-> {"rd", "wr"}, length |-> 0, wire |-> <<>>, rc |-> 0]
  /\ sent = <<>>

Returning(s, rc) == [s EXCEPT !.rc = rc]

-----------------------------------------------------------------------------
\* BermudaUsartWriteByte: a line feed gets a carriage return in front.
UsartWriteByte(c) == IF c = LF THEN <<CR, LF>> ELSE <<c>>

\* fputc on the stream s; putc is the same.
Fputc(s, c) ==
  IF "wr" \in s.flags
  THEN [s EXCEPT !.wire = @ \o UsartWriteByte(c), !.length = @ + 1, !.rc = c]
  ELSE Returning(s, -1)

Putc(s, c) == Fputc(s, c)

\* The loops over the characters of a text.
PutEach(s, text) ==
  LET after[n \in 0 .. Len(text)] == IF n = 0 THEN s ELSE Putc(after[n - 1], text[n])
  IN  after[Len(text)]

\* fputs returns 0 also for a stream that takes no character.
Fputs(s, text) == Returning(PutEach(s, text), 0)

\* usart_write
UsartWrite(s, text) == Returning(PutEach(s, text), 0)

\* FAULT: it does not ask for __SWR.
FwriteAnyway(s, open, text) ==
  IF open THEN UsartWrite([s EXCEPT !.flags = @ \cup {"wr"}], text) ELSE Returning(s, -1)

\* fwrite; open is FALSE for the stream NULL.
Fwrite(s, open, text) ==
  IF ~open THEN Returning(s, -1)
  ELSE IF "wr" \in s.flags THEN UsartWrite(s, text) ELSE Returning(s, -2)

\* fprintf; vfprintf returns the length of the stream.
Fprintf(s, text) == LET p == PutEach(s, text) IN Returning(p, p.length)

\* vfprintf_P copies the format into memory, if there is any.
VfprintfP(s, text, memory) == IF memory THEN Fprintf(s, text) ELSE Returning(s, -1)

FprintfP(s, text, memory) == VfprintfP(s, text, memory)

\* logmsg_P: each of its two formats needs memory.
LogmsgP(s, origin, text, first, second) ==
  VfprintfP(FprintfP(s, origin, first), text, second)

\* fgetc with the byte that the port gets; getc is the same.
Fgetc(s, byte) == Returning(s, IF "rd" \in s.flags THEN byte ELSE -1)

Getc(s, byte) == Fgetc(s, byte)

\* usart_read does not ask for __SRD.
UsartRead(s, bytes) == Returning(s, 0)

-----------------------------------------------------------------------------
\* A call: the stream afterwards, and the text that it may write.
Does(new, text) ==
  /\ text = <<>> \/ Len(sent) < MaxChars
  /\ out' = new
  /\ sent' = IF "wr" \in out.flags THEN sent \o text ELSE sent
  /\ UNCHANGED slots

\* put does not look at its descriptor, which must be one.
Put(fd, c) == fd \in slots /\ Does(Fputc(out, c), <<c>>)

Fdputc(fd, c) ==
  IF fd < 0 THEN Does(Returning(out, -1), <<>>) ELSE fd \in slots /\ Does(Fputc(out, c), <<c>>)

Puts(text) == Does(Fputs(out, text), text)

Write(fd, text) ==
  Does(Fwrite(out, fd \in slots, text), IF fd \in slots THEN text ELSE <<>>)

WriteP(fd, text, memory) ==
  IF memory THEN Write(fd, text) ELSE Does(Returning(out, -1), <<>>)

Printf(text) == stdout \in slots /\ Does(Fprintf(out, text), text)

PrintfP(text, memory) ==
  stdout \in slots /\ Does(VfprintfP(out, text, memory), IF memory THEN text ELSE <<>>)

Log(text, first, second) ==
  Does(LogmsgP(out, text, text, first, second),
       (IF first THEN text ELSE <<>>) \o (IF second THEN text ELSE <<>>))

Getb(fd, byte) == fd \in slots /\ Does(Getc(out, byte), <<>>)

Fdgetc(fd, byte) ==
  IF fd < 0 THEN Does(Returning(out, -1), <<>>)
  ELSE fd \in slots /\ Does(Fgetc(out, byte), <<>>)

Read(fd, bytes) == fd \in slots /\ Does(UsartRead(out, bytes), <<>>)

\* flush: the stream of the port has no function for it.
Flush(fd) == Does(Returning(out, -1), <<>>)

\* usartdev_socket: the slot that holds the name; without one the code would
\* read the name of an empty slot.
UsartOpen == {fd \in slots : fd >= 3}
UsartSocket == UsartOpen # {} /\ Does(Returning(out, CHOOSE fd \in UsartOpen : TRUE), <<>>)

\* usartdev_close: the port has no function for it.
UsartClose(fd) == Does(Returning(out, -1), <<>>)

\* mode and close.
ModeClose(fd) ==
  /\ fd \in slots
  /\ \/ \E m \in StreamModes : out' = [out EXCEPT !.flags = m, !.rc = 0] /\ UNCHANGED slots
     \/ fd # stdout /\ slots' = slots \ {fd} /\ out' = Returning(out, 0)
  /\ UNCHANGED sent

StdioNext ==
  \/ \E fd \in {-1, stdin, stdout, 3} :
       \/ \E text \in Texts :
            \/ Put(fd, text[1]) \/ Fdputc(fd, text[1]) \/ Write(fd, text)
            \/ \E memory \in BOOLEAN : WriteP(fd, text, memory)
            \/ Getb(fd, text[1]) \/ Fdgetc(fd, text[1]) \/ Read(fd, text)
       \/ Flush(fd) \/ UsartClose(fd) \/ ModeClose(fd)
  \/ \E text \in Texts :
       \/ Puts(text) \/ Printf(text)
       \/ \E memory \in BOOLEAN : PrintfP(text, memory) \/ Log(text, TRUE, memory)
  \/ UsartSocket

-----------------------------------------------------------------------------
\* The carriage returns among the first n characters on the wire w.
Returns(w, n) == Cardinality({i \in 1 .. n : w[i] = CR})

(***************************************************************************)
(* fputc, fwrite, vfprintf, BermudaUsartWriteByte: whichever calls wrote,  *)
(* through whichever descriptor, and whatever mode let in between, the     *)
(* wire carries the characters of those that had leave to write, in order, *)
(* each line feed behind a carriage return, and the stream has counted     *)
(* them without the carriage returns.                                      *)
(***************************************************************************)
WrittenInOrder ==
  /\ Len(out.wire) = Len(sent) + Returns(out.wire, Len(out.wire))
  /\ \A i \in DOMAIN out.wire :
       out.wire[i] # CR => out.wire[i] = sent[i - Returns(out.wire, i)]
  /\ \A i \in DOMAIN out.wire :
       out.wire[i] = CR <=> (i < Len(out.wire) /\ out.wire[i + 1] = LF)
  /\ out.length = Len(sent)
=============================================================================
