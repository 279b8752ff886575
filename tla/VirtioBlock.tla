----------------------------- MODULE VirtioBlock -----------------------------
(***************************************************************************)
(* The virtio block device of the demo VMM (devices/block.rs): its         *)
(* register file, the request queue in guest memory and the interrupt, and *)
(* the guest's driver as far as it decides what the device sees.           *)
(*                                                                         *)
(* The VMM has one vCPU.  A register access is an MMIO exit: the guest     *)
(* stands still until the device has handled it, so the steps of           *)
(* process_queue never mix with steps of the driver; interrupts, requests, *)
(* notifications and resets come in any order otherwise.                   *)
(*                                                                         *)
(* Of a request its type, its status byte and its used length are kept,    *)
(* the length counted in data descriptors.  The driver is well behaved:    *)
(* its chains have a readable header, the data descriptors of their type   *)
(* and a status byte.  "get_id" stands for any type the device does not    *)
(* know.                                                                   *)
(***************************************************************************)
EXTENDS Integers, FiniteSets

CONSTANTS
  QUEUE_MAX_SIZE, \* what REG_QUEUE_NUM_MAX says
  Num,            \* the queue size the driver writes, at most that
  IdxMod,         \* 2^16 in the code: indices are u16 and wrap
  Heads,          \* descriptors the driver starts its chains with
  Types,          \* request types the driver sends
  Segments,       \* data descriptors of a read or a write
  MaxResets       \* bound on device resets

ASSUME BlockAssumption ==
  /\ QUEUE_MAX_SIZE \in Nat /\ Num \in 1 .. QUEUE_MAX_SIZE
  /\ IdxMod \in Nat /\ IdxMod % Num = 0
  /\ Heads \subseteq 0 .. Num - 1 /\ Cardinality(Heads) < IdxMod
  /\ Types \subseteq {"in", "out", "flush", "get_id"}
  /\ Segments \in Nat \ {0}
  /\ MaxResets \in Nat

VARIABLES
  status,           \* the device status register is not 0
  queue,            \* VirtQueue; placed: the ring addresses are written
  interrupt_status, \* bit 0 of the register
  exit,             \* the process_queue call that is running, if any
  avail, used,      \* the two rings in guest memory: idx and ring
  request,          \* type of the driver's request per head, or none
  answer,           \* status byte and used length the device has given it
  driver,           \* setup: how far initialisation is; last_used; kick: a
                    \* notification is due; handler: where the handler is
  irq,              \* the interrupt is pending at the guest
  resets

device == <<status, queue, interrupt_status>>
memory == <<avail, used, request, answer>>
vars   == <<device, exit, memory, driver, irq, resets>>

None == "none"

NoAnswer == [byte |-> None, used_len |-> 0]

VirtQueue == [num |-> 0, ready |-> FALSE, placed |-> FALSE, last_avail_idx |-> 0]
Ring      == [idx |-> 0, ring |-> [i \in 0 .. Num - 1 |-> 0]]

Guest == [running |-> FALSE]    \* no process_queue call, the guest runs

Init ==
  /\ status = FALSE /\ queue = VirtQueue /\ interrupt_status = 0
  /\ exit = Guest
  /\ avail = Ring /\ used = Ring
  /\ request = [h \in Heads |-> None] /\ answer = [h \in Heads |-> NoAnswer]
  /\ driver = [setup |-> "found", last_used |-> 0, kick |-> FALSE, handler |-> "idle"]
  /\ irq = FALSE /\ resets = 0

(* Mutant of NextIdx: the index does not wrap.                             *)
NoWrap(i) == i + 1

NextIdx(i) == (i + 1) % IdxMod

Smaller(a, b) == IF a < b THEN a ELSE b

-----------------------------------------------------------------------------
(* The registers.  The driver's process context writes them while its      *)
(* interrupt handler is not running.                                       *)

InProcess == exit = Guest /\ driver.handler = "idle"

(* REG_STATUS, not 0.                                                      *)
WriteStatus ==
  /\ InProcess
  /\ driver.setup = "found"
  /\ status' = TRUE
  /\ driver' = [driver EXCEPT !.setup = "acknowledged"]
  /\ UNCHANGED <<queue, interrupt_status, exit, memory, irq, resets>>

(* REG_QUEUE_NUM, clamped.                                                 *)
WriteQueueNum ==
  /\ InProcess
  /\ driver.setup = "acknowledged"
  /\ queue' = [queue EXCEPT !.num = Smaller(Num, QUEUE_MAX_SIZE)]
  /\ driver' = [driver EXCEPT !.setup = "sized"]
  /\ UNCHANGED <<status, interrupt_status, exit, memory, irq, resets>>

(* The six address registers, for rings the driver has zeroed.             *)
WriteQueueAddresses ==
  /\ InProcess
  /\ driver.setup = "sized"
  /\ queue' = [queue EXCEPT !.placed = TRUE]
  /\ avail' = Ring /\ used' = Ring
  /\ driver' = [driver EXCEPT !.setup = "placed", !.last_used = 0]
  /\ UNCHANGED <<status, interrupt_status, exit, request, answer, irq, resets>>

(* REG_QUEUE_READY, not 0.                                                 *)
WriteQueueReady ==
  /\ InProcess
  /\ driver.setup = "placed"
  /\ queue' = [queue EXCEPT !.ready = TRUE]
  /\ driver' = [driver EXCEPT !.setup = "live"]
  /\ UNCHANGED <<status, interrupt_status, exit, memory, irq, resets>>

(* Mutant of Reset: the device keeps its place in the available ring.      *)
ResetKeepsIndex ==
  /\ InProcess
  /\ driver.setup = "live" /\ resets < MaxResets
  /\ resets' = resets + 1
  /\ status' = FALSE /\ interrupt_status' = 0
  /\ queue' = [VirtQueue EXCEPT !.last_avail_idx = queue.last_avail_idx]
  /\ request' = [h \in Heads |-> None] /\ answer' = [h \in Heads |-> NoAnswer]
  /\ driver' = [driver EXCEPT !.setup = "found", !.kick = FALSE]
  /\ UNCHANGED <<exit, avail, used, irq>>

(* REG_STATUS, 0: the device forgets everything, and the driver gives up   *)
(* its requests.  An interrupt that is already pending stays so.           *)
Reset ==
  /\ InProcess
  /\ driver.setup = "live" /\ resets < MaxResets
  /\ resets' = resets + 1
  /\ status' = FALSE /\ queue' = VirtQueue /\ interrupt_status' = 0
  /\ request' = [h \in Heads |-> None] /\ answer' = [h \in Heads |-> NoAnswer]
  /\ driver' = [driver EXCEPT !.setup = "found", !.kick = FALSE]
  /\ UNCHANGED <<exit, avail, used, irq>>

(* External: the driver puts a chain into the available ring.              *)
Submit(h, type) ==
  /\ InProcess
  /\ driver.setup = "live"
  /\ request[h] = None
  /\ request' = [request EXCEPT ![h] = type]
  /\ avail' = [idx |-> NextIdx(avail.idx), ring |-> [avail.ring EXCEPT ![avail.idx % Num] = h]]
  /\ driver' = [driver EXCEPT !.kick = TRUE]
  /\ UNCHANGED <<device, exit, used, answer, irq, resets>>

-----------------------------------------------------------------------------
(* REG_QUEUE_NOTIFY and process_queue: the available index is read once,   *)
(* every request up to it is served, and the guest is interrupted if any   *)
(* was completed.  Not ready, the device ignores the notification.         *)
Notify ==
  /\ InProcess
  /\ driver.kick
  /\ driver' = [driver EXCEPT !.kick = FALSE]
  /\ exit' = IF queue.ready /\ queue.num # 0
               THEN [running |-> TRUE, avail_idx |-> avail.idx, completed |-> FALSE] ELSE Guest
  /\ UNCHANGED <<device, memory, irq, resets>>

(* handle_read and handle_write: the data descriptors are transferred one  *)
(* after the other up to the first that fails.                             *)
Transfers == {[byte |-> IF n = Segments THEN "ok" ELSE "ioerr", bytes |-> n] : n \in 0 .. Segments}

handle_flush == [byte : {"ok", "ioerr"}, bytes : {0}]

(* process_request: the status byte, and the used length, which counts the *)
(* status byte and what was read.                                          *)
process_request(type) ==
  CASE type = "in"    -> {[byte |-> o.byte, used_len |-> 1 + o.bytes] : o \in Transfers}
    [] type = "out"   -> {[byte |-> o.byte, used_len |-> 1] : o \in Transfers}
    [] type = "flush" -> {[byte |-> o.byte, used_len |-> 1] : o \in handle_flush}
    [] OTHER          -> {[byte |-> "unsupp", used_len |-> 1]}

(* Mutant of ServeRequest: an I/O error returns before the status byte.    *)
ServeSkipsError ==
  /\ exit.running
  /\ queue.last_avail_idx # exit.avail_idx
  /\ LET head == avail.ring[queue.last_avail_idx % queue.num]
     IN  /\ \E o \in process_request(request[head]) :
              answer' = IF o.byte = "ioerr" THEN answer ELSE [answer EXCEPT ![head] = o]
         /\ exit' = [exit EXCEPT !.completed = TRUE]
         /\ used' = [idx  |-> NextIdx(used.idx),
                     ring |-> [used.ring EXCEPT ![used.idx % queue.num] = head]]
  /\ queue' = [queue EXCEPT !.last_avail_idx = NextIdx(@)]
  /\ UNCHANGED <<status, interrupt_status, avail, request, driver, irq, resets>>

(* One turn of the loop in process_queue: the chain at the head is served, *)
(* with an I/O error at any point, and its head is put into the used ring. *)
(* A head beyond the queue is not read, but returned all the same.         *)
ServeRequest ==
  /\ exit.running
  /\ queue.last_avail_idx # exit.avail_idx
  /\ LET head == avail.ring[queue.last_avail_idx % queue.num]
     IN  /\ IF head < queue.num
              THEN /\ \E o \in process_request(request[head]) :
                        answer' = [answer EXCEPT ![head] = o]
                   /\ exit' = [exit EXCEPT !.completed = TRUE]
              ELSE UNCHANGED <<answer, exit>>
         /\ used' = [idx  |-> NextIdx(used.idx),
                     ring |-> [used.ring EXCEPT ![used.idx % queue.num] = head]]
  /\ queue' = [queue EXCEPT !.last_avail_idx = NextIdx(@)]
  /\ UNCHANGED <<status, interrupt_status, avail, request, driver, irq, resets>>

(* Mutants of FinishQueue: the call may end before it has served all it    *)
(* saw, and the line is pulsed without setting the register.               *)
FinishEarly ==
  /\ exit.running
  /\ exit.completed
  /\ exit' = Guest
  /\ interrupt_status' = 1
  /\ irq' = TRUE
  /\ UNCHANGED <<status, queue, memory, driver, resets>>

FinishSilently ==
  /\ exit.running
  /\ queue.last_avail_idx = exit.avail_idx
  /\ exit' = Guest
  /\ irq' = (irq \/ exit.completed)
  /\ UNCHANGED <<device, memory, driver, resets>>

(* The end of process_queue, and the pulse on the interrupt line.          *)
FinishQueue ==
  /\ exit.running
  /\ queue.last_avail_idx = exit.avail_idx
  /\ exit' = Guest
  /\ interrupt_status' = IF exit.completed THEN 1 ELSE interrupt_status
  /\ irq' = (irq \/ exit.completed)
  /\ UNCHANGED <<status, queue, memory, driver, resets>>

-----------------------------------------------------------------------------
(* The interrupt handler.                                                  *)

(* External: the guest takes the interrupt.                                *)
Interrupt ==
  /\ InProcess
  /\ irq
  /\ irq' = FALSE
  /\ driver' = [driver EXCEPT !.handler = "asking"]
  /\ UNCHANGED <<device, exit, memory, resets>>

(* It reads REG_INTERRUPT_STATUS; 0 means the interrupt was not for it.    *)
ReadInterruptStatus ==
  /\ exit = Guest /\ driver.handler = "asking"
  /\ driver' = [driver EXCEPT !.handler = IF interrupt_status = 0 THEN "idle" ELSE "acking"]
  /\ UNCHANGED <<device, exit, memory, irq, resets>>

(* REG_INTERRUPT_ACK with what was read.                                   *)
InterruptAck ==
  /\ exit = Guest /\ driver.handler = "acking"
  /\ interrupt_status' = 0
  /\ driver' = [driver EXCEPT !.handler = "reaping"]
  /\ UNCHANGED <<status, queue, exit, memory, irq, resets>>

(* External: it takes the used entries up to the index of the ring.        *)
Reap ==
  /\ exit = Guest /\ driver.handler = "reaping"
  /\ IF driver.last_used = used.idx
       THEN /\ driver' = [driver EXCEPT !.handler = "idle"]
            /\ UNCHANGED <<request, answer>>
       ELSE /\ driver' = [driver EXCEPT !.last_used = NextIdx(@)]
            /\ LET head == used.ring[driver.last_used % Num]
               IN  /\ request' = [request EXCEPT ![head] = None]
                   /\ answer' = [answer EXCEPT ![head] = NoAnswer]
  /\ UNCHANGED <<device, exit, avail, used, irq, resets>>

Setup   == WriteStatus \/ WriteQueueNum \/ WriteQueueAddresses \/ WriteQueueReady
Serve   == Notify \/ ServeRequest \/ FinishQueue
Handler == Interrupt \/ ReadInterruptStatus \/ InterruptAck \/ Reap

Next ==
  \/ Setup \/ Reset \/ Serve \/ Handler
  \/ \E h \in Heads, type \in Types : Submit(h, type)

Spec == Init /\ [][Next]_vars

(* MMIO exits end, the driver sends the notification it owes, and the      *)
(* guest takes pending interrupts.                                         *)
FairSpec == Spec /\ WF_vars(Notify) /\ WF_vars(ServeRequest \/ FinishQueue) /\ WF_vars(Interrupt)
                 /\ WF_vars(ReadInterruptStatus \/ InterruptAck \/ Reap)

-----------------------------------------------------------------------------
(* Properties.                                                             *)

RingType == [idx : 0 .. IdxMod - 1, ring : [0 .. Num - 1 -> Heads \cup {0}]]

TypeOK ==
  /\ status \in BOOLEAN
  /\ queue \in [num : {0, Num}, ready : BOOLEAN, placed : BOOLEAN,
                last_avail_idx : 0 .. IdxMod - 1]
  /\ interrupt_status \in {0, 1}
  /\ exit \in {Guest} \cup
       [running : {TRUE}, avail_idx : 0 .. IdxMod - 1, completed : BOOLEAN]
  /\ avail \in RingType /\ used \in RingType
  /\ request \in [Heads -> Types \cup {None}]
  /\ answer \in [Heads -> [byte : {"ok", "ioerr", "unsupp", None}, used_len : 0 .. 1 + Segments]]
  /\ driver \in [setup : {"found", "acknowledged", "sized", "placed", "live"},
                 last_used : 0 .. IdxMod - 1, kick : BOOLEAN,
                 handler : {"idle", "asking", "acking", "reaping"}]
  /\ irq \in BOOLEAN

(* The entries of a ring from index a up to index b, and how many.         *)
Count(a, b) == (b - a) % IdxMod
Entries(r, a, b) == {r.ring[((a + i) % IdxMod) % Num] : i \in 0 .. Count(a, b) - 1}

Waiting  == Entries(avail, queue.last_avail_idx, avail.idx)
Returned == Entries(used, driver.last_used, used.idx)

(* Every request the driver has in flight is exactly once in one of the    *)
(* rings: it waits for the device or it waits for the driver.  None is     *)
(* lost, served twice or overwritten, whatever wraps, fails or is reset    *)
(* (process_queue).                                                        *)
EachOnce ==
  driver.setup = "live" =>
    /\ Waiting \cup Returned = {h \in Heads : request[h] # None}
    /\ Cardinality(Waiting)  = Count(queue.last_avail_idx, avail.idx)
    /\ Cardinality(Returned) = Count(driver.last_used, used.idx)
    /\ Waiting \cap Returned = {}

(* A request that comes back has an answer to this request, not one left   *)
(* over from an earlier request at the same head, and a read that comes    *)
(* back as successful has all its data (process_request).                  *)
AnswersFresh ==
  driver.setup = "live" =>
    /\ \A h \in Returned :
         /\ answer[h] # NoAnswer
         /\ (answer[h].byte = "unsupp") = (request[h] = "get_id")
         /\ (request[h] = "in" /\ answer[h].byte = "ok") => answer[h].used_len = 1 + Segments
    /\ \A h \in Waiting : answer[h] = NoAnswer

(* Returned requests are on their way to the driver: the queue is still    *)
(* being processed, the handler is taking entries, or an interrupt is due  *)
(* whose handler will find the register set.  A stale interrupt from       *)
(* before a reset, or two that merge into one, lose nothing.               *)
NoLostInterrupt ==
  (driver.setup = "live" /\ Returned # {}) =>
    \/ exit.running
    \/ driver.handler = "reaping"
    \/ interrupt_status = 1 /\ (irq \/ driver.handler \in {"asking", "acking"})

(* Every request is answered, unless the device is reset.                  *)
EventuallyAnswered == \A h \in Heads : request[h] # None ~> request[h] = None
=============================================================================
