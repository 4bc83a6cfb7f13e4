------------------------------ MODULE UartExample ------------------------------
(***************************************************************************)
(* The receiver of src/examples/ringbuf_uart_example.c over the ring       *)
(* buffer: the receive interrupt puts what the DMA has collected into the  *)
(* buffer with one ds_ringbuf_write_batch, the main loop calls             *)
(* process_uart_data, which takes byte after byte until the buffer is      *)
(* empty and cuts them into lines.                                         *)
(*                                                                         *)
(* The two uses of the buffer, the whole API and the example, are explored *)
(* side by side: user tells which one and never changes.  A burst may be   *)
(* of any length, end in the middle of a line, and be cut by write_batch.  *)
(* The statistics and the printing are left out.                           *)
(***************************************************************************)
EXTENDS DsRingBuf, SequencesExt

CONSTANTS
  Terminators,  \* the bytes '\n' and '\r'
  LineBufSize,  \* LINE_BUF_SIZE
  SentLimit     \* bound: no burst comes while sent is as long as that

ASSUME TerminatorAssumption == Terminators \subseteq Data
ASSUME LineAssumption == LineBufSize \in Nat \ {0} /\ SentLimit \in Nat \ {0}

VARIABLES
  user,    \* fixed: who uses the buffer, "api" or "uart"
  parser,  \* process_uart_data: its progress and line_buf[0 .. line_pos - 1]
  sent     \* history: what was received, from the line the parser is at on

uartVars == <<vars, user, parser, sent>>

-----------------------------------------------------------------------------
IsTerminator(ch) == ch \in Terminators
MaxLine == LineBufSize - 1

UartInit ==
  /\ Init
  /\ user \in {"api", "uart"}
  /\ user = "uart" => mode = "writer"
  /\ parser = [pc |-> "away", line |-> <<>>]
  /\ sent = <<>>

Goto(pc) == parser' = [parser EXCEPT !.pc = pc]

-----------------------------------------------------------------------------
(* sim_uart_dma_rx_callback                                                *)

\* What does not fit is counted by the example and dropped; nothing that is in a
\* flooded buffer counts as received.
Receive(bytes) ==
  /\ Len(sent) < SentLimit
  /\ WriteBatchBegin(bytes)
  /\ sent' = IF flooded' THEN <<>> ELSE sent \o w'.pending
  /\ UNCHANGED <<user, parser>>

ReceiveRest ==
  /\ WriteStore \/ WriteAdvance
  /\ UNCHANGED <<user, parser, sent>>

-----------------------------------------------------------------------------
(* process_uart_data                                                       *)

\* line_pos and line_buf are local to the call.
Enter ==
  /\ ReaderRuns /\ parser.pc = "away"
  /\ Goto("loop")
  /\ UNCHANGED <<vars, user, sent>>

\* Mutant: the loop peeks at the byte and leaves it in the buffer.
PeekByte ==
  /\ parser.pc = "loop"
  /\ PeekBegin
  /\ Goto("read")
  /\ UNCHANGED <<user, sent>>

ReadByte ==
  /\ parser.pc = "loop"
  /\ ReadBegin(1)
  /\ Goto("read")
  /\ UNCHANGED <<user, sent>>

ReadRest ==
  /\ parser.pc = "read"
  /\ ReadLoad \/ ReadAdvance
  /\ Goto(IF r'.pc = "rest" THEN "parse" ELSE "read")
  /\ UNCHANGED <<user, sent>>

\* ds_ringbuf_read has returned DS_ERR_EMPTY: what line_buf holds is forgotten.
Return ==
  /\ parser.pc = "loop"
  /\ ReadRefused
  /\ parser' = [pc |-> "away", line |-> <<>>]
  /\ sent' = <<>>
  /\ UNCHANGED user

\* What does not fit is dropped.
Keep(line, ch) == IF Len(line) < MaxLine THEN Append(line, ch) ELSE line

Parse ==
  /\ ReaderRuns /\ parser.pc = "parse"
  /\ ~IsTerminator(out)
  /\ parser' = [pc |-> "loop", line |-> Keep(parser.line, out)]
  /\ UNCHANGED <<vars, user, sent>>

\* Mutant: line_pos is not set back.
EndLineKeepsPos ==
  /\ ReaderRuns /\ parser.pc = "parse"
  /\ IsTerminator(out)
  /\ Goto("loop")
  /\ sent' = SubSeq(sent, SelectInSeq(sent, IsTerminator) + 1, Len(sent))
  /\ UNCHANGED <<vars, user>>

\* An empty line, such as between '\r' and '\n', is not printed.
EndLine ==
  /\ ReaderRuns /\ parser.pc = "parse"
  /\ IsTerminator(out)
  /\ parser' = [pc |-> "loop", line |-> <<>>]
  /\ sent' = SubSeq(sent, SelectInSeq(sent, IsTerminator) + 1, Len(sent))
  /\ UNCHANGED <<vars, user>>

MainLoop ==
  Enter \/ ReadByte \/ ReadRest \/ Return \/ Parse \/ EndLine

UartNext ==
  \/ /\ user = "api"
     /\ Next
     /\ UNCHANGED <<user, parser, sent>>
  \/ /\ user = "uart"
     /\ (\E bytes \in Batches : Receive(bytes)) \/ ReceiveRest \/ MainLoop

UartSpec == UartInit /\ [][UartNext]_uartVars

\* The interrupt returns, and however often it comes it leaves the main loop
\* time to go on.
FairUartSpec ==
  /\ UartSpec
  /\ WF_uartVars(user = "uart" /\ ReceiveRest)
  /\ SF_uartVars(user = "uart" /\ MainLoop)

-----------------------------------------------------------------------------
(* Properties                                                              *)

\* The line to be printed when the first terminator is met: what was received
\* before it, cut to the room in line_buf.
NextLine ==
  LET n == SelectInSeq(sent, IsTerminator) - 1
  IN SubSeq(sent, 1, IF n < MaxLine THEN n ELSE MaxLine)

\* A line is printed as it was received, none of its bytes lost, doubled or out of
\* order, wherever the interrupt comes in the main loop and however the bursts cut
\* it: all from the last terminator on, or from the last return of
\* process_uart_data.  Only a flooded buffer excuses the parser.
LinesAsReceived ==
  [][user = "uart" /\ EndLine => flooded \/ parser.line = NextLine]_uartVars

\* "The data taken out is parsed line by line" (ringbuf_uart_example.c): what
\* process_uart_data has taken of a line it does not forget.
LinesWhole == [][user = "uart" /\ Return => parser.line = <<>>]_uartVars

\* The main loop gets to every byte that the interrupt has put into the buffer, if
\* the buffer is not flooded before.
BytesReachParser ==
  \A h \in Slot :
    (user = "uart" /\ ~flooded /\ head = h)
      ~> (user = "uart" /\ (flooded \/ tail = h))
=============================================================================
