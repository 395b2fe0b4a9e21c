------------------------------ MODULE SerialRx ------------------------------
(***************************************************************************)
(* Interrupt-driven reception of RT-Thread's serial framework (serial.c)   *)
(* on the STM32 UART (drv_usart.c), as uart2 and uart3 are used by the     *)
(* applications: the UART holds one received byte in its data register,    *)
(* the receive interrupt moves bytes into a ring buffer and then calls     *)
(* rx_indicate once, a thread reads byte by byte with interrupts disabled. *)
(* Startup says who opens the port, who hears of the bytes and reads them. *)
(***************************************************************************)
EXTENDS Integers, Sequences

CONSTANTS
  Data,       \* byte values
  None,       \* the result of a read that finds nothing
  BufSz,      \* serial->config.bufsz
  MaxBytes    \* bound: bytes that arrive in a behaviour

ASSUME SerialAssumption ==
  /\ None \notin Data /\ Data # {}
  /\ BufSz \in Nat /\ BufSz >= 2
  /\ MaxBytes \in Nat

VARIABLES
  dr,         \* the data register with RXNE: at most one byte
  arrived,    \* bytes that arrived so far
  buffer, putIndex, getIndex, isFull,   \* struct rt_serial_rx_fifo
  isr,        \* the interrupt handler: "idle" or "loop"
  got         \* what the last read of one byte returned

rxVars == <<dr, arrived, buffer, putIndex, getIndex, isFull, isr, got>>

Wrap(i) == IF i >= BufSz THEN 0 ELSE i

RxInit ==
  /\ dr = << >> /\ arrived = 0
  /\ \E b \in Data : buffer = [i \in 0..BufSz-1 |-> b]
  /\ putIndex = 0 /\ getIndex = 0 /\ isFull = FALSE
  /\ isr = "idle"
  /\ got = None

(* A byte comes in from the line; it is lost when the last one is unread.  *)
Arrive(b) ==
  /\ arrived < MaxBytes
  /\ arrived' = arrived + 1
  /\ dr' = IF dr = << >> THEN <<b>> ELSE dr
  /\ UNCHANGED <<buffer, putIndex, getIndex, isFull, isr, got>>

(* Slip: a full buffer is marked, but its oldest byte is not given up.     *)
StoreKeepsOldest ==
  /\ dr # << >>
  /\ isr' = "loop"
  /\ dr' = << >>
  /\ buffer' = [buffer EXCEPT ![putIndex] = Head(dr)]
  /\ putIndex' = Wrap(putIndex + 1)
  /\ isFull' = (isFull \/ putIndex' = getIndex)
  /\ UNCHANGED <<arrived, getIndex, got>>

(* rt_hw_serial_isr, RX_IND: while getc returns a byte, store it.  No      *)
(* thread runs until the handler is done, but another byte may arrive.     *)
IsrStore ==
  /\ dr # << >>
  /\ isr' = "loop"
  /\ dr' = << >>
  /\ buffer' = [buffer EXCEPT ![putIndex] = Head(dr)]
  /\ putIndex' = Wrap(putIndex + 1)
  /\ IF putIndex' = getIndex
     THEN getIndex' = Wrap(getIndex + 1) /\ isFull' = TRUE
     ELSE UNCHANGED <<getIndex, isFull>>
  /\ UNCHANGED <<arrived, got>>

(* rx_length, the number of bytes in the buffer.                           *)
Length == IF putIndex >= getIndex THEN putIndex - getIndex
                                  ELSE BufSz - (getIndex - putIndex)

(* The end of the handler; rx_indicate is called when Length # 0.          *)
IsrIndicate ==
  /\ isr = "loop" /\ dr = << >>
  /\ isr' = "idle"
  /\ UNCHANGED <<dr, arrived, buffer, putIndex, getIndex, isFull, got>>

(* _serial_int_rx with length 1, called by a thread.                       *)
Empty == getIndex = putIndex /\ ~isFull

(* Slip: the reading index runs off the buffer.                            *)
ReadUnwrapped ==
  /\ isr = "idle" /\ ~Empty
  /\ got' = buffer[getIndex]
  /\ getIndex' = getIndex + 1
  /\ isFull' = FALSE
  /\ UNCHANGED <<dr, arrived, buffer, putIndex, isr>>

ReadByte ==
  /\ isr = "idle" /\ ~Empty
  /\ got' = buffer[getIndex]
  /\ getIndex' = Wrap(getIndex + 1)
  /\ isFull' = FALSE
  /\ UNCHANGED <<dr, arrived, buffer, putIndex, isr>>

ReadNothing ==
  /\ isr = "idle" /\ Empty
  /\ got' = None
  /\ UNCHANGED <<dr, arrived, buffer, putIndex, getIndex, isFull, isr>>

-----------------------------------------------------------------------------
RxTypeOK ==
  /\ dr \in {<<b>> : b \in Data} \cup {<< >>}
  /\ arrived \in Nat
  /\ buffer \in [0..BufSz-1 -> Data]
  /\ putIndex \in 0..BufSz-1 /\ getIndex \in 0..BufSz-1 /\ isFull \in BOOLEAN
  /\ isr \in {"idle", "loop"}
  /\ got \in Data \cup {None}

(* The content of the ring buffer as a queue.                              *)
Slot(i) == IF getIndex + i >= BufSz THEN getIndex + i - BufSz ELSE getIndex + i

Content == [i \in 1..Length |-> buffer[Slot(i - 1)]]

(* The ring buffer is a queue of BufSz - 1 bytes that drops the oldest.    *)
Queue == INSTANCE RxQueue WITH queue <- Content, Cap <- BufSz - 1
QueueSpec == Queue!Spec
=============================================================================
