--------------------------------- MODULE Ipc ---------------------------------
(***************************************************************************)
(* One direction of the connection between the daemon and a UI process     *)
(* (ipc.cpp): each message is written as its length and its bytes, and     *)
(* read from a stream that arrives in chunks of any size.  Channels that   *)
(* are files (standard input and output) begin with whatever the process   *)
(* happens to print, which is skipped up to a welcome message.             *)
(*                                                                         *)
(* A byte is a pair <<message, position>>; message 0 is the welcome, and   *)
(* position 0 of it any other noise.  The names start with Ipc, or are     *)
(* those of the code, so that the module can be extended with others.      *)
(***************************************************************************)
EXTENDS Naturals, Sequences

CONSTANTS
  MessageSize,   \* lengths of the messages, in the order they are written
  LengthSize,    \* sizeof(int)
  WelcomeSize,   \* length of the welcome message
  NoiseSize,     \* bytes before it
  Files,         \* may the channels be files? a set of Booleans
  SplitsLength,  \* may a chunk end within a length?
  Garbage        \* lengths read from bytes that are not a length

ASSUME IpcAssumption ==
  /\ MessageSize \in Seq(Nat) /\ NoiseSize \in Nat
  /\ LengthSize \in Nat \ {0} /\ WelcomeSize \in Nat \ {0}

VARIABLES
  throughFiles,   \* are they?
  written,        \* number of messages written
  pipe,           \* bytes on their way
  readable,       \* bytes m_readChannel has
  notified,       \* is onReadyRead() to run, or still in its loop?
  gotWelcome,     \* m_gotWelcomeMessage
  expectedLength, \* m_expectedLength
  readBuffer,     \* m_readBuffer
  received        \* the arguments of dataReady() so far

ipcVars == <<throughFiles, written, pipe, readable, notified, gotWelcome,
             expectedLength, readBuffer, received>>

LengthOf(m) == [i \in 1 .. LengthSize |-> <<m, i>>]
Payload(m) == [i \in 1 .. MessageSize[m] |-> <<m, LengthSize + i>>]
Welcome == [i \in 1 .. WelcomeSize |-> <<0, i>>]
Noise == [i \in 1 .. NoiseSize |-> <<0, 0>>]

\* setChannels() at both ends; the reader calls onReadyRead() at once.
IpcInit ==
  /\ throughFiles \in Files
  /\ written = 0 /\ received = <<>>
  /\ pipe = IF throughFiles THEN Noise \o Welcome ELSE <<>>
  /\ readable = <<>> /\ notified = TRUE
  /\ gotWelcome = ~throughFiles
  /\ expectedLength = 0 /\ readBuffer = <<>>

Write ==
  /\ written < Len(MessageSize)
  /\ written' = written + 1
  /\ pipe' = pipe \o LengthOf(written') \o Payload(written')
  /\ UNCHANGED <<throughFiles, readable, notified, gotWelcome, expectedLength,
                 readBuffer, received>>

WithinLength(byte) == byte[1] > 0 /\ byte[2] < LengthSize

\* The first n bytes reach the reader; a signal or the notifier says so.
Arrive(n) ==
  /\ n <= Len(pipe)
  /\ SplitsLength \/ ~WithinLength(pipe[n])
  /\ readable' = readable \o SubSeq(pipe, 1, n)
  /\ pipe' = SubSeq(pipe, n + 1, Len(pipe))
  /\ notified' = TRUE
  /\ UNCHANGED <<throughFiles, written, gotWelcome, expectedLength, readBuffer, received>>

-----------------------------------------------------------------------------
\* waitWelcomeMessage() drops everything before the welcome message; without
\* one, all but the bytes it may begin with.
WelcomeAt(i) ==
  i + WelcomeSize <= Len(readable) /\ SubSeq(readable, i + 1, i + WelcomeSize) = Welcome

AfterNoise ==
  LET keep == IF WelcomeSize < Len(readable) THEN WelcomeSize ELSE Len(readable)
  IN  SubSeq(readable, Len(readable) - keep + 1, Len(readable))

WaitWelcomeMessage ==
  /\ notified /\ ~gotWelcome
  /\ \/ \E i \in 0 .. Len(readable) :
          /\ WelcomeAt(i)
          /\ readable' = SubSeq(readable, i + WelcomeSize + 1, Len(readable))
          /\ gotWelcome' = TRUE /\ UNCHANGED notified
     \/ /\ \A i \in 0 .. Len(readable) : ~WelcomeAt(i)
        /\ readable' = AfterNoise /\ notified' = FALSE /\ UNCHANGED gotWelcome
  /\ UNCHANGED <<throughFiles, written, pipe, expectedLength, readBuffer, received>>

\* The int that the bytes are taken for.
Lengths(bytes) ==
  IF \E m \in 1 .. written : bytes = LengthOf(m)
  THEN {MessageSize[m] : m \in {k \in 1 .. written : bytes = LengthOf(k)}}
  ELSE Garbage

\* A mutant of Needed: what has been read already is read again.
NeededAgain(length, soFar) == length

Needed(length, soFar) == length - Len(soFar)

\* The body of the message: the bytes that are there, then the signal if they
\* are all there.
ReadBody(rest, length, soFar) ==
  LET needed == Needed(length, soFar)
      n == IF needed < Len(rest) THEN needed ELSE Len(rest)
      now == soFar \o SubSeq(rest, 1, n)
  IN  /\ readBuffer' = now
      /\ readable' = SubSeq(rest, n + 1, Len(rest))
      /\ \/ /\ n < needed
            /\ expectedLength' = length /\ notified' = FALSE /\ UNCHANGED received
         \/ /\ n = needed
            /\ expectedLength' = 0 /\ received' = Append(received, now) /\ UNCHANGED notified

\* A turn of the loop.  What is there of a length is read, complete or not.
OnReadyRead ==
  /\ notified /\ gotWelcome
  /\ \/ /\ expectedLength = 0 /\ Len(readable) < LengthSize
        /\ readable' = <<>> /\ notified' = FALSE
        /\ UNCHANGED <<expectedLength, readBuffer, received>>
     \/ /\ expectedLength = 0 /\ Len(readable) >= LengthSize
        /\ \E length \in Lengths(SubSeq(readable, 1, LengthSize)) :
             ReadBody(SubSeq(readable, LengthSize + 1, Len(readable)), length, <<>>)
     \/ expectedLength # 0 /\ ReadBody(readable, expectedLength, readBuffer)
  /\ UNCHANGED <<throughFiles, written, pipe, gotWelcome>>

IpcNext ==
  \/ Write \/ WaitWelcomeMessage \/ OnReadyRead
  \/ \E n \in 1 .. Len(pipe) : Arrive(n)

\* The stream is delivered, and the event loop runs.
IpcFairness ==
  /\ WF_ipcVars(\E n \in 1 .. Len(pipe) : Arrive(n))
  /\ WF_ipcVars(WaitWelcomeMessage) /\ WF_ipcVars(OnReadyRead)

IpcSpec == IpcInit /\ [][IpcNext]_ipcVars /\ IpcFairness

-----------------------------------------------------------------------------
Channel == INSTANCE MessageChannel WITH
  Message <- [m \in 1 .. Len(MessageSize) |-> Payload(m)],
  sent <- written, got <- received

\* Whatever the sizes of messages and chunks, each message is handed over
\* whole, once and in order, and all of them are; a chunk that ends within a
\* length is excepted (SplitsLength), which onReadyRead loses.
ImplementsChannel == Channel!Spec

IpcTypeOK ==
  /\ written \in 0 .. Len(MessageSize) /\ notified \in BOOLEAN /\ gotWelcome \in BOOLEAN
  /\ expectedLength = 0 \/ Len(readBuffer) < expectedLength

=============================================================================
