---------------------------- MODULE StreamBuffer ----------------------------
(***************************************************************************)
(* FreeRTOS stream and message buffers (stream_buffer.c): one writer, one  *)
(* reader, a ring neither of them locks, and a notification for the one    *)
(* that waits.  A step is a critical section, or what comes between two    *)
(* accesses to what the other side writes.                                 *)
(***************************************************************************)
EXTENDS Integers, Sequences

CONSTANTS
    Uses,       \* the buffers, of which one is drawn
    Values      \* bound of the exploration: bytes are numbered 0 .. Values - 1

\* Whether it holds messages, its size, its trigger level, the bytes its length
\* field takes in a message buffer, the sizes that are sent and asked for.
Use == [messages : BOOLEAN, xLength : Nat, trigger : Nat, prefix : Nat,
        sends : SUBSET Nat, reads : SUBSET Nat]

\* A ring holds one byte less than it is long; no trigger level is 0; a message is
\* preceded by its length.
StreamAssumption ==
    /\ Values \in Nat \ {0}
    /\ Uses \subseteq Use
    /\ \A u \in Uses : u.xLength >= 2 /\ u.trigger >= 1 /\ (u.messages => u.prefix >= 1)

VARIABLES
    use,
    buffer, xHead, xTail,
    waitingToSend, waitingToReceive,    \* xTaskWaitingToSend # NULL, ...
    notified,       \* of "writer" and "reader": a notification is pending
    pc, size,   \* of each: where its call is, how much it asked for
    seen,           \* of each: xSpace, xBytesAvailable
    new,            \* of each: the index it will store
    next,           \* the number of the next byte to be sent
    pipe            \* history: what was sent and not yet received

ring    == <<buffer, xHead, xTail>>
waiters == <<waitingToSend, waitingToReceive, notified>>
vars == <<use, ring, waiters, pc, size, seen, new, next, pipe>>

Sides == {"writer", "reader"}
L == use.xLength

Init ==
    /\ use \in Uses
    /\ buffer = [i \in 0 .. L - 1 |-> 0] /\ xHead = 0 /\ xTail = 0
    /\ waitingToSend = FALSE /\ waitingToReceive = FALSE
    /\ notified = [s \in Sides |-> FALSE]
    /\ pc = [s \in Sides |-> "out"]
    /\ size = [s \in Sides |-> 0]
    /\ seen = [s \in Sides |-> 0] /\ new = [s \in Sides |-> 0]
    /\ next = 0 /\ pipe = << >>

Wrap(i) == IF i >= L THEN i - L ELSE i

prvBytesInBuffer == Wrap(L + xHead - xTail)

xStreamBufferSpacesAvailable == Wrap(L + xTail - xHead - 1)

Required == IF use.messages THEN size["writer"] + use.prefix
            ELSE IF size["writer"] > L - 1 THEN L - 1 ELSE size["writer"]

\* What must be exceeded for there to be something to receive.
Overhead == IF use.messages THEN use.prefix ELSE 0

Goes(s, from, to) == pc[s] = from /\ pc' = [pc EXCEPT ![s] = to]

Sees(s, n) == seen' = [seen EXCEPT ![s] = n]

Fits(n) == use.messages => n + use.prefix <= L - 1

\* A send of a message that never fits does not wait.
Call(s, n, waits) ==
    /\ pc[s] = "out"
    /\ size' = [size EXCEPT ![s] = n]
    /\ pc' = [pc EXCEPT ![s] = IF waits /\ (s = "writer" => Fits(n)) THEN "check"
                              ELSE "measure"]
    /\ Sees(s, 0)
    /\ UNCHANGED <<ring, waiters, new, next, pipe>>

(* ---- xStreamBufferSend ---- *)

\* A critical section: look, and register to be notified.
CheckSpace ==
    LET space == xStreamBufferSpacesAvailable
        enough == space >= Required
    IN  /\ Goes("writer", "check", IF enough THEN "write" ELSE "wait")
        /\ Sees("writer", space)
        /\ IF enough THEN UNCHANGED waiters
           ELSE /\ waitingToSend' = TRUE
                /\ notified' = [notified EXCEPT !["writer"] = FALSE]
                /\ UNCHANGED waitingToReceive
        /\ UNCHANGED <<ring, size, new, next, pipe>>

\* The wait ends with a notification, or its time is over.
EndWait(s) ==
    /\ Goes(s, "wait", "woken")
    /\ notified' = [notified EXCEPT ![s] = FALSE]
    /\ UNCHANGED <<ring, waitingToSend, waitingToReceive, size, seen, new, next, pipe>>

WriterWoken(expired) ==
    /\ Goes("writer", "woken", IF ~expired THEN "check"
                             ELSE IF seen["writer"] = 0 THEN "measure" ELSE "write")
    /\ waitingToSend' = FALSE
    /\ UNCHANGED <<ring, waitingToReceive, notified, size, seen, new, next, pipe>>

MeasureSpace ==
    /\ Goes("writer", "measure", "write")
    /\ Sees("writer", xStreamBufferSpacesAvailable)
    /\ UNCHANGED <<ring, waiters, size, new, next, pipe>>

\* What is written: a message with its length, or as many bytes as there is space.
Data == LET n == IF use.messages
                   THEN IF seen["writer"] >= Required THEN size["writer"] ELSE 0
                   ELSE IF size["writer"] < seen["writer"] THEN size["writer"]
                        ELSE seen["writer"]
            bytes == [i \in 1 .. n |-> (next + i - 1) % Values]
        IN  IF use.messages /\ n > 0 THEN [i \in 1 .. use.prefix |-> n] \o bytes ELSE bytes

\* prvWriteMessageToBuffer: the bytes first, the head when all are there.
Write ==
    LET n == Len(Data)
    IN  /\ Goes("writer", "write", IF n = 0 THEN "out" ELSE "publish")
        /\ buffer' = [i \in 0 .. L - 1 |->
                        LET k == IF i >= xHead THEN i - xHead + 1 ELSE i + L - xHead + 1
                        IN  IF k <= n THEN Data[k] ELSE buffer[i]]
        /\ new' = [new EXCEPT !["writer"] = Wrap(xHead + n)]
        /\ UNCHANGED <<xHead, xTail, waiters, size, seen, next, pipe>>

PublishHead ==
    LET n == Wrap(L + new["writer"] - xHead)
    IN  /\ Goes("writer", "publish", "complete")
        /\ xHead' = new["writer"]
        /\ pipe' = pipe \o Data
        /\ next' = (next + n - Overhead) % Values
        /\ UNCHANGED <<buffer, xTail, waiters, size, seen, new>>

\* sbSEND_COMPLETED.
CompleteSend(notifies) ==
    /\ Goes("writer", "complete", "out")
    /\ IF notifies /\ waitingToReceive
         THEN /\ notified' = [notified EXCEPT !["reader"] = TRUE]
              /\ waitingToReceive' = FALSE
         ELSE UNCHANGED <<notified, waitingToReceive>>
    /\ UNCHANGED <<ring, waitingToSend, size, seen, new, next, pipe>>

SendCompleted_AboveTrigger == CompleteSend(prvBytesInBuffer > use.trigger)

SendCompleted == CompleteSend(prvBytesInBuffer >= use.trigger)

(* ---- xStreamBufferReceive ---- *)

CheckBytes ==
    LET enough == prvBytesInBuffer > Overhead
    IN  /\ Goes("reader", "check", IF enough THEN "read" ELSE "wait")
        /\ Sees("reader", prvBytesInBuffer)
        /\ IF enough THEN UNCHANGED waiters
           ELSE /\ waitingToReceive' = TRUE
                /\ notified' = [notified EXCEPT !["reader"] = FALSE]
                /\ UNCHANGED waitingToSend
        /\ UNCHANGED <<ring, size, new, next, pipe>>

ReaderWoken ==
    /\ Goes("reader", "woken", "measure")
    /\ waitingToReceive' = FALSE
    /\ UNCHANGED <<ring, waitingToSend, notified, size, seen, new, next, pipe>>

MeasureBytes ==
    /\ Goes("reader", "measure", IF prvBytesInBuffer > Overhead THEN "read" ELSE "out")
    /\ Sees("reader", prvBytesInBuffer)
    /\ UNCHANGED <<ring, waiters, size, new, next, pipe>>

\* prvReadMessageFromBuffer: the bytes to take; a message that does not fit stays.
Taking ==
    LET room == size["reader"]
        body == seen["reader"] - Overhead
    IN  IF use.messages
          THEN IF buffer[xTail] > room THEN 0
               ELSE use.prefix + (IF buffer[xTail] < body THEN buffer[xTail] ELSE body)
          ELSE IF room < body THEN room ELSE body

\* The copying; the tail is moved when it is done.
Read ==
    /\ Goes("reader", "read", IF Taking = 0 THEN "out" ELSE "publish")
    /\ new' = [new EXCEPT !["reader"] = Wrap(xTail + Taking)]
    /\ UNCHANGED <<ring, waiters, size, seen, next, pipe>>

PublishTail ==
    LET n == Wrap(L + new["reader"] - xTail)
    IN  /\ Goes("reader", "publish", "complete")
        /\ xTail' = new["reader"]
        /\ pipe' = SubSeq(pipe, n + 1, Len(pipe))
        /\ UNCHANGED <<buffer, xHead, waiters, size, seen, new, next>>

\* sbRECEIVE_COMPLETED.
ReceiveCompleted ==
    /\ Goes("reader", "complete", "out")
    /\ IF waitingToSend
         THEN /\ notified' = [notified EXCEPT !["writer"] = TRUE]
              /\ waitingToSend' = FALSE
         ELSE UNCHANGED <<notified, waitingToSend>>
    /\ UNCHANGED <<ring, waitingToReceive, size, seen, new, next, pipe>>

Writer ==
    \/ CheckSpace \/ MeasureSpace \/ Write \/ PublishHead \/ SendCompleted
    \/ \E expired \in BOOLEAN : WriterWoken(expired)

Reader ==
    \/ CheckBytes \/ ReaderWoken \/ MeasureBytes \/ Read \/ PublishTail
    \/ ReceiveCompleted

Next ==
    /\ UNCHANGED use
    /\ \/ \E n \in use.sends, w \in BOOLEAN : Call("writer", n, w)
       \/ \E n \in use.reads, w \in BOOLEAN : Call("reader", n, w)
       \/ \E s \in Sides : EndWait(s)
       \/ Writer \/ Reader

Spec == Init /\ [][Next]_vars

(* ---- properties ---- *)

\* Type invariant.
TypeOK ==
    /\ use \in Uses
    /\ xHead \in 0 .. L - 1 /\ xTail \in 0 .. L - 1
    /\ waitingToSend \in BOOLEAN /\ waitingToReceive \in BOOLEAN
    /\ notified \in [Sides -> BOOLEAN]
    /\ pc["writer"] \in {"out", "check", "measure", "wait", "woken", "write",
                         "publish", "complete"}
    /\ pc["reader"] \in {"out", "check", "measure", "wait", "woken", "read",
                         "publish", "complete"}
    /\ seen \in [Sides -> 0 .. L] /\ new \in [Sides -> 0 .. L - 1]
    /\ next \in 0 .. Values - 1

\* What the reader finds between tail and head is what was sent and not yet received,
\* whatever the writer is writing meanwhile: the two need no lock.
RingIsPipe ==
    /\ prvBytesInBuffer = Len(pipe)
    /\ \A i \in DOMAIN pipe : buffer[(xTail + i - 1) % L] = pipe[i]

\* A message is received whole or not at all.
MessagesWhole ==
    use.messages /\ pc["reader"] = "publish" =>
      Wrap(L + new["reader"] - xTail) = use.prefix + pipe[1]

\* Nobody waits for what is there: who is registered and not yet notified will be by
\* the other side, which has not finished its call.
NoWakeUpLost ==
    /\ pc["reader"] = "wait" /\ ~notified["reader"] =>
         waitingToReceive /\ (prvBytesInBuffer >= use.trigger => pc["writer"] = "complete")
    /\ pc["writer"] = "wait" /\ ~notified["writer"] =>
         waitingToSend /\ (xStreamBufferSpacesAvailable >= Required => pc["reader"] = "complete")

\* A buffer that is not locked is a pipe: of bytes, of messages, and nobody is left
\* waiting at either end.
IsPipe == RingIsPipe /\ MessagesWhole /\ NoWakeUpLost

=============================================================================
