----------------------------- MODULE UsbStorage -----------------------------
(***************************************************************************)
(* The USB block service of src/src/drivers/usb: a client's packets are    *)
(* taken by the session's Tx_thread (storage_component.cc), turned into    *)
(* one SCSI command per block by usb_storage.c, handed to usb-storage's    *)
(* queuecommand (scsiglue.c) and carried out by its control thread         *)
(* (usb.c), while the scan thread adds the device (scsi.c, usb_storage.c)  *)
(* and khubd may disconnect it at any time.                                *)
(*                                                                         *)
(* A command is named by the thread that waits for it: "scan" or "tx".     *)
(* queuecommand is called by the DDE without the host lock, so its test of *)
(* us->srb and its store to us->srb are two steps.  The host lock is left  *)
(* out: everything else it guards is also guarded by us->dev_mutex.        *)
(***************************************************************************)
EXTENDS Naturals, Sequences

CONSTANTS
    Devs,           \* USB mass-storage devices that may be plugged in
    NULL,           \* the null pointer
    MAX_USB_INDEX,  \* size of the table usb_devices
    Blocks,         \* number of blocks of the device
    fix_capacity,   \* does the device answer READ CAPACITY with the count?
    Garbage,        \* what an uninitialised result buffer may hold
    Requests,       \* block requests of the client: [op, number, count]
    QueueLen        \* slots of the packet stream's two queues (bound)

Requesters == {"scan", "tx"}
Index == 0 .. MAX_USB_INDEX - 1

ASSUME UsbStorageAssumption ==
    /\ NULL \notin Devs /\ NULL \notin Index
    /\ NULL \notin Requesters \cup {"ctrl", "disc"}
    /\ MAX_USB_INDEX \in Nat \ {0} /\ Blocks \in Nat \ {0} /\ QueueLen \in Nat
    /\ fix_capacity \in BOOLEAN /\ Garbage \subseteq Nat
    /\ Requests \subseteq [op : {"READ", "WRITE", "OTHER"}, number : Nat, count : Nat]

VARIABLES
    host,           \* the device that got the only Scsi_Host, or NULL
    usb_devices,    \* usb_storage.c's table: sdev and block_count
    callback,       \* is plugin_handler registered?
    plugin_lock,    \* is the session barrier closed?
    current_index,  \* the index plugin_handler stored, or NULL
    session,        \* _usb_index of the open session, or NULL
    submit, acks,   \* packets submitted; number of acknowledgements waiting
    packet, blk,    \* Tx_thread: its packet and the next block of it
    succeeded,      \* Tx_thread: the packet's success flag
    ran,            \* the blocks of the packet the device has worked on
    pc,             \* where "scan" and "tx" are
    cmnd,           \* the opcode of the scan thread's command
    answered,       \* has the device filled the scan thread's result buffer?
    compl,          \* the two completions: has complete() been called?
    srb, sema, disconnecting, dev_mutex,  \* struct us_data
    released,       \* has release_everything() freed the URB and the buffers?
    ctrl, disc      \* where the control thread and khubd's disconnect are

tables == <<host, usb_devices, callback, plugin_lock, current_index, session>>
stream == <<submit, acks, packet, blk, succeeded>>
probe  == <<cmnd, answered>>
udata  == <<srb, sema, disconnecting, dev_mutex, released>>
vars   == <<tables, stream, ran, pc, probe, compl, udata, ctrl, disc>>

Init ==
    /\ host = NULL
    /\ usb_devices = [i \in Index |-> [sdev |-> NULL, block_count |-> 0]]
    /\ callback = FALSE /\ plugin_lock = FALSE
    /\ current_index = NULL /\ session = NULL
    /\ submit = <<>> /\ acks = 0
    /\ packet = NULL /\ blk = 0 /\ succeeded = FALSE /\ ran = {}
    /\ pc = [t \in Requesters |-> "none"]
    /\ cmnd = "INQUIRY" /\ answered = FALSE
    /\ compl = [t \in Requesters |-> FALSE]
    /\ srb = NULL /\ sema = 0 /\ disconnecting = FALSE /\ dev_mutex = NULL
    /\ released = FALSE /\ ctrl = "none" /\ disc = "none"

-----------------------------------------------------------------------------
(* Probing and scanning: khubd, then the thread usb-stor-scan.             *)

\* scsi_host_alloc has one host to give, so later devices are refused.
storage_probe(d) ==
    /\ host = NULL
    /\ host' = d /\ ctrl' = "down" /\ disc' = "idle"
    /\ pc' = [pc EXCEPT !["scan"] = "settle"]
    /\ UNCHANGED <<usb_devices, callback, plugin_lock, current_index, session,
                   stream, ran, probe, compl, udata>>

\* The settling time is over or a disconnect ended it; scsi_scan_host begins.
usb_stor_scan_thread ==
    /\ pc["scan"] = "settle"
    /\ disconnecting \/ dev_mutex = NULL
    /\ pc' = [pc EXCEPT !["scan"] = IF disconnecting THEN "gone" ELSE "queue"]
    /\ UNCHANGED <<tables, stream, ran, probe, compl, udata, ctrl, disc>>

\* Faulty: the plugin callback is called as soon as sdev is in the table.
inquired_announces ==
    /\ pc["scan"] = "wait" /\ compl["scan"] /\ cmnd = "INQUIRY"
    /\ compl' = [compl EXCEPT !["scan"] = FALSE]
    /\ usb_devices' = [usb_devices EXCEPT ![0].sdev = host]
    /\ current_index' = 0 /\ plugin_lock' = FALSE
    /\ cmnd' = "READ_CAPACITY" /\ answered' = FALSE
    /\ pc' = [pc EXCEPT !["scan"] = "queue"]
    /\ UNCHANGED <<host, callback, session, stream, ran, udata, ctrl, disc>>

\* The INQUIRY is complete: add the device (dde_linux26_block_dev_add up to
\* capacity's command) when the buffer names a direct-access device and the
\* table has a free entry.  Without an answer the buffer is uninitialised.
inquired ==
    /\ pc["scan"] = "wait" /\ compl["scan"] /\ cmnd = "INQUIRY"
    /\ compl' = [compl EXCEPT !["scan"] = FALSE]
    /\ answered' = FALSE
    /\ \/ \E i \in Index :
             /\ usb_devices[i].sdev = NULL
             /\ \A j \in 0 .. i - 1 : usb_devices[j].sdev # NULL
             /\ usb_devices' = [usb_devices EXCEPT ![i].sdev = host]
          /\ cmnd' = "READ_CAPACITY"
          /\ pc' = [pc EXCEPT !["scan"] = "queue"]
       \/ /\ pc' = [pc EXCEPT !["scan"] = "gone"]
          /\ UNCHANGED <<usb_devices, cmnd>>
    /\ UNCHANGED <<host, callback, plugin_lock, current_index, session, stream,
                   ran, udata, ctrl, disc>>

\* The number of blocks capacity() computes from its result buffer.
capacity == IF answered
            THEN {IF fix_capacity THEN Blocks ELSE (Blocks - 1) + 1}
            ELSE {IF fix_capacity THEN g ELSE g + 1 : g \in Garbage}

\* READ CAPACITY is complete: store the size, then call the plugin callback,
\* whose plugin_handler notes the index and opens the barrier.
sized ==
    /\ pc["scan"] = "wait" /\ compl["scan"] /\ cmnd = "READ_CAPACITY"
    /\ \E i \in Index, n \in capacity :
          /\ usb_devices[i].sdev = host
          /\ usb_devices' = [usb_devices EXCEPT ![i].block_count = n]
          /\ current_index' = IF callback THEN i ELSE current_index
    /\ plugin_lock' = (plugin_lock /\ ~callback)
    /\ compl' = [compl EXCEPT !["scan"] = FALSE]
    /\ pc' = [pc EXCEPT !["scan"] = "gone"]
    /\ UNCHANGED <<host, callback, session, stream, ran, probe, udata, ctrl, disc>>

-----------------------------------------------------------------------------
(* queuecommand, called by capacity(), scsi_scan_host() and block_io().    *)

\* The next block of the Tx_thread's loop, or the packet's acknowledgement.
next_block(b) ==
    /\ blk' = b
    /\ pc' = [pc EXCEPT !["tx"] = IF b = packet.count THEN "ack" ELSE "queue"]
    /\ UNCHANGED <<submit, acks, packet, succeeded>>

\* Faulty: a busy host ends the block for a READ as it does for a WRITE.
queuecommand_busy_skips(t) ==
    /\ pc[t] = "queue" /\ srb # NULL /\ t = "tx"
    /\ next_block(blk + 1)
    /\ UNCHANGED <<tables, ran, probe, compl, udata, ctrl, disc>>

\* Faulty: block_io ignores the result of queuecommand, as capacity() does.
queuecommand_busy_waits(t) ==
    /\ pc[t] = "queue" /\ srb # NULL
    /\ pc' = [pc EXCEPT ![t] = "wait"]
    /\ UNCHANGED <<tables, stream, ran, probe, compl, udata, ctrl, disc>>

\* SCSI_MLQUEUE_HOST_BUSY.  The scan thread ignores it and waits for its
\* completion; block_io returns -EBLK_BUSY, on which a READ is tried again
\* and a WRITE goes on with the next block.
queuecommand_busy(t) ==
    /\ pc[t] = "queue" /\ srb # NULL
    /\ \/ /\ t = "scan"
          /\ pc' = [pc EXCEPT ![t] = "wait"]
          /\ UNCHANGED stream
       \/ /\ t = "tx" /\ packet.op = "READ"
          /\ UNCHANGED <<pc, stream>>
       \/ /\ t = "tx" /\ packet.op = "WRITE"
          /\ next_block(blk + 1)
    /\ UNCHANGED <<tables, ran, probe, compl, udata, ctrl, disc>>

\* Fail the command while disconnecting: DID_NO_CONNECT, which no one reads.
queuecommand_no_connect(t) ==
    /\ pc[t] = "queue" /\ srb = NULL /\ disconnecting
    /\ compl' = [compl EXCEPT ![t] = TRUE]
    /\ pc' = [pc EXCEPT ![t] = "wait"]
    /\ UNCHANGED <<tables, stream, ran, probe, udata, ctrl, disc>>

queuecommand_test(t) ==
    /\ pc[t] = "queue" /\ srb = NULL /\ ~disconnecting
    /\ pc' = [pc EXCEPT ![t] = "store"]
    /\ UNCHANGED <<tables, stream, ran, probe, compl, udata, ctrl, disc>>

queuecommand_store(t) ==
    /\ pc[t] = "store"
    /\ srb' = t /\ sema' = sema + 1
    /\ pc' = [pc EXCEPT ![t] = "wait"]
    /\ UNCHANGED <<tables, stream, ran, probe, compl, disconnecting, dev_mutex,
                   released, ctrl, disc>>

-----------------------------------------------------------------------------
(* The control thread usb-storage.                                         *)

\* Faulty: the thread does not wait for us->sema.
control_down_anyway ==
    /\ ctrl = "down"
    /\ sema' = sema - 1 /\ ctrl' = "lock"
    /\ UNCHANGED <<tables, stream, ran, pc, probe, compl, srb, disconnecting,
                   dev_mutex, released, disc>>

control_down ==
    /\ ctrl = "down" /\ sema > 0
    /\ sema' = sema - 1 /\ ctrl' = "lock"
    /\ UNCHANGED <<tables, stream, ran, pc, probe, compl, srb, disconnecting,
                   dev_mutex, released, disc>>

\* Faulty: no test of US_FLIDX_DISCONNECTING.
control_lock_untested ==
    /\ ctrl = "lock" /\ dev_mutex = NULL
    /\ ctrl' = "run" /\ dev_mutex' = "ctrl"
    /\ UNCHANGED <<tables, stream, ran, pc, probe, compl, srb, sema,
                   disconnecting, released, disc>>

\* Faulty: the thread exits with dev_mutex held.
control_lock_kept ==
    /\ ctrl = "lock" /\ dev_mutex = NULL
    /\ ctrl' = IF disconnecting THEN "gone" ELSE "run"
    /\ dev_mutex' = "ctrl"
    /\ UNCHANGED <<tables, stream, ran, pc, probe, compl, srb, sema,
                   disconnecting, released, disc>>

control_lock ==
    /\ ctrl = "lock" /\ dev_mutex = NULL
    /\ IF disconnecting THEN ctrl' = "gone" /\ UNCHANGED dev_mutex
                        ELSE ctrl' = "run" /\ dev_mutex' = "ctrl"
    /\ UNCHANGED <<tables, stream, ran, pc, probe, compl, srb, sema,
                   disconnecting, released, disc>>

\* proto_handler: the device carries the command out.  It may fail or be
\* stopped, which leaves the scan thread's result buffer as it was.
control_run ==
    /\ ctrl = "run" /\ srb # NULL
    /\ ran' = IF srb = "tx" THEN ran \cup {blk} ELSE ran
    /\ answered' \in IF srb = "scan" THEN BOOLEAN ELSE {answered}
    /\ ctrl' = "done"
    /\ UNCHANGED <<tables, stream, pc, cmnd, compl, udata, disc>>

\* us->srb->scsi_done(us->srb): the waiter may go on from here.
control_done ==
    /\ ctrl = "done" /\ srb # NULL
    /\ compl' = [compl EXCEPT ![srb] = TRUE]
    /\ ctrl' = "clear"
    /\ UNCHANGED <<tables, stream, ran, pc, probe, udata, disc>>

control_clear ==
    /\ ctrl = "clear"
    /\ srb' = NULL /\ dev_mutex' = NULL /\ ctrl' = "down"
    /\ UNCHANGED <<tables, stream, ran, pc, probe, compl, sema, disconnecting,
                   released, disc>>

-----------------------------------------------------------------------------
(* storage_disconnect, in khubd.                                           *)

quiesce_and_remove_host ==
    /\ disc = "idle"
    /\ disconnecting' = TRUE /\ disc' = "lock"
    /\ UNCHANGED <<tables, stream, ran, pc, probe, compl, srb, sema, dev_mutex,
                   released, ctrl>>

\* Faulty: dev_mutex is not taken.
quiesce_unlocked ==
    /\ disc = "lock" /\ srb # NULL
    /\ disc' = "clear" /\ compl' = [compl EXCEPT ![srb] = TRUE]
    /\ UNCHANGED <<tables, stream, ran, pc, probe, srb, sema, disconnecting,
                   dev_mutex, released, ctrl>>

\* Under dev_mutex: a command that is pending is completed with an error.
quiesce_lock ==
    /\ disc = "lock" /\ dev_mutex = NULL
    /\ IF srb = NULL
       THEN disc' = "release" /\ UNCHANGED <<dev_mutex, compl>>
       ELSE /\ disc' = "clear" /\ dev_mutex' = "disc"
            /\ compl' = [compl EXCEPT ![srb] = TRUE]
    /\ UNCHANGED <<tables, stream, ran, pc, probe, srb, sema, disconnecting,
                   released, ctrl>>

quiesce_clear ==
    /\ disc = "clear"
    /\ srb' = NULL /\ dev_mutex' = NULL /\ disc' = "release"
    /\ UNCHANGED <<tables, stream, ran, pc, probe, compl, sema, disconnecting,
                   released, ctrl>>

release_everything ==
    /\ disc = "release"
    /\ sema' = sema + 1 /\ released' = TRUE /\ disc' = "gone"
    /\ UNCHANGED <<tables, stream, ran, pc, probe, compl, srb, disconnecting,
                   dev_mutex, ctrl>>

-----------------------------------------------------------------------------
(* The block service: its start, its client and the session's Tx_thread.   *)

start_storage_service ==
    /\ ~callback
    /\ callback' = TRUE /\ plugin_lock' = TRUE
    /\ UNCHANGED <<host, usb_devices, current_index, session, stream, ran, pc,
                   probe, compl, udata, ctrl, disc>>

\* Single_client: one session.  It passes the barrier, reads current_index
\* and starts its Tx_thread.
create_session ==
    /\ callback /\ session = NULL /\ ~plugin_lock
    /\ session' = current_index
    /\ pc' = [pc EXCEPT !["tx"] = "get"]
    /\ UNCHANGED <<host, usb_devices, callback, plugin_lock, current_index,
                   stream, ran, probe, compl, udata, ctrl, disc>>

submit_packet(p) ==
    /\ session # NULL /\ Len(submit) < QueueLen
    /\ submit' = Append(submit, p)
    /\ UNCHANGED <<tables, acks, packet, blk, succeeded, ran, pc, probe, compl,
                   udata, ctrl, disc>>

get_acked_packet ==
    /\ acks > 0
    /\ acks' = acks - 1
    /\ UNCHANGED <<tables, submit, packet, blk, succeeded, ran, pc, probe,
                   compl, udata, ctrl, disc>>

dde_linux26_block_count(i) == usb_devices[i].block_count

\* Faulty: only the first block of the packet is checked.
get_packet_first ==
    /\ pc["tx"] = "get" /\ submit # <<>>
    /\ Head(submit).number < dde_linux26_block_count(session)
    /\ Head(submit).op # "OTHER" /\ Head(submit).count > 0
    /\ submit' = Tail(submit) /\ packet' = Head(submit)
    /\ blk' = 0 /\ ran' = {} /\ succeeded' = TRUE
    /\ pc' = [pc EXCEPT !["tx"] = "queue"]
    /\ UNCHANGED <<tables, acks, probe, compl, udata, ctrl, disc>>

\* A packet out of range or with an unsupported operation is dropped without
\* an acknowledgement; one that finds no memory is acknowledged as failed.
get_packet ==
    /\ pc["tx"] = "get" /\ submit # <<>>
    /\ LET p == Head(submit) IN
       /\ submit' = Tail(submit)
       /\ packet' = p /\ blk' = 0 /\ ran' = {}
       /\ IF \/ p.number + p.count > dde_linux26_block_count(session)
             \/ p.op = "OTHER"
          THEN UNCHANGED <<pc, succeeded>>
          ELSE \E malloc \in BOOLEAN :
                  /\ succeeded' = malloc
                  /\ pc' = [pc EXCEPT !["tx"] =
                              IF malloc /\ p.count > 0 THEN "queue" ELSE "ack"]
    /\ UNCHANGED <<tables, acks, probe, compl, udata, ctrl, disc>>

\* block_io returns 0 once its completion is done, whatever the result.
block_io_done ==
    /\ pc["tx"] = "wait" /\ compl["tx"]
    /\ compl' = [compl EXCEPT !["tx"] = FALSE]
    /\ next_block(blk + 1)
    /\ UNCHANGED <<tables, ran, probe, udata, ctrl, disc>>

acknowledge_packet ==
    /\ pc["tx"] = "ack" /\ acks < QueueLen
    /\ acks' = acks + 1
    /\ pc' = [pc EXCEPT !["tx"] = "get"]
    /\ UNCHANGED <<tables, submit, packet, blk, succeeded, ran, probe, compl,
                   udata, ctrl, disc>>

-----------------------------------------------------------------------------
queuecommand(t) ==
    \/ queuecommand_busy(t) \/ queuecommand_no_connect(t)
    \/ queuecommand_test(t) \/ queuecommand_store(t)
Scan_thread == usb_stor_scan_thread \/ queuecommand("scan") \/ inquired \/ sized
Tx_thread == get_packet \/ queuecommand("tx") \/ block_io_done \/ acknowledge_packet
usb_stor_control_thread ==
    control_down \/ control_lock \/ control_run \/ control_done \/ control_clear
storage_disconnect == quiesce_lock \/ quiesce_clear \/ release_everything
Client == create_session \/ (\E p \in Requests : submit_packet(p)) \/ get_acked_packet

Next ==
    \/ \E d \in Devs : storage_probe(d)
    \/ Scan_thread \/ Tx_thread \/ usb_stor_control_thread
    \/ quiesce_and_remove_host \/ storage_disconnect
    \/ start_storage_service \/ Client

Spec == Init /\ [][Next]_vars

\* Every thread keeps running, the device ends each transfer, and the client
\* collects its acknowledgements.  Nothing has to be plugged in, pulled out,
\* opened or submitted.
Fairness ==
    /\ WF_vars(Scan_thread) /\ WF_vars(Tx_thread)
    /\ WF_vars(usb_stor_control_thread) /\ WF_vars(storage_disconnect)
    /\ WF_vars(get_acked_packet)

FairSpec == Spec /\ Fairness

-----------------------------------------------------------------------------
(* Properties.                                                             *)

\* Type invariant of the tables, the threads and struct us_data.
TypeOK ==
    /\ host \in Devs \cup {NULL}
    /\ usb_devices \in [Index -> [sdev : Devs \cup {NULL}, block_count : Nat]]
    /\ callback \in BOOLEAN /\ plugin_lock \in BOOLEAN
    /\ current_index \in Index \cup {NULL} /\ session \in Index \cup {NULL}
    /\ submit \in Seq(Requests) /\ acks \in Nat
    /\ packet \in Requests \cup {NULL} /\ blk \in Nat /\ ran \subseteq Nat
    /\ succeeded \in BOOLEAN
    /\ pc \in [Requesters -> {"none", "settle", "queue", "store", "wait", "gone",
                              "get", "ack"}]
    /\ cmnd \in {"INQUIRY", "READ_CAPACITY"} /\ answered \in BOOLEAN
    /\ compl \in [Requesters -> BOOLEAN]
    /\ srb \in Requesters \cup {NULL} /\ sema \in Nat
    /\ disconnecting \in BOOLEAN /\ dev_mutex \in {NULL, "ctrl", "disc"}
    /\ released \in BOOLEAN
    /\ ctrl \in {"none", "down", "lock", "run", "done", "clear", "gone"}
    /\ disc \in {"none", "idle", "lock", "clear", "release", "gone"}

\* While the control thread works on us->srb (usb.c:337-388) the pointer is
\* not null and the command is live: the thread that allocated it is still in
\* wait_for_completion and has not freed it, although queuecommand is called
\* without the lock and a disconnect may complete commands as well.
CommandLive ==
    ctrl \in {"run", "done"} =>
        srb \in Requesters /\ pc[srb] = "wait" /\ ~compl[srb]

\* release_everything frees the URB and the buffers only when the control
\* thread will not touch them again (usb.c:316-321 against usb.c:820-836).
ReleasedUnused == released => ctrl \in {"down", "lock", "gone"}

\* A session exists only for a device whose table entry is complete: sdev is
\* published before the capacity is known (usb_storage.c:104,114), but the
\* barrier opens after both, so the range check of Tx_thread and the client's
\* info() use the device's size, or a device that failed to give it.
SessionSized ==
    session # NULL =>
        /\ pc["scan"] = "gone" /\ usb_devices[session].sdev = host
        /\ answered => dde_linux26_block_count(session) = Blocks

\* Tx_thread's range check holds for every block it goes on to, so the check
\* of block_io (usb_storage.c:145), which lets block_count itself pass, is
\* never the one that decides.
InRange ==
    pc["tx"] \in {"queue", "store", "wait"} =>
        packet.number + blk < dde_linux26_block_count(session)

Moved(op) ==
    pc["tx"] = "ack" /\ succeeded /\ packet.op = op /\ ~disconnecting =>
        ran = 0 .. packet.count - 1

\* A READ acknowledged as succeeded had each of its blocks transferred by the
\* device, however often the host was busy, unless it is being disconnected.
ReadMoved == Moved("READ")

\* The same for a WRITE: a block the device never got is not reported as
\* written (block.h: dde_linux26_block_write returns 0 on success only).
WriteMoved == Moved("WRITE")

\* A READ the Tx_thread has begun is acknowledged, busy host or not, unless
\* the device is disconnected meanwhile.
ReadAcknowledged ==
    (pc["tx"] \in {"queue", "store", "wait"} /\ packet.op = "READ")
        ~> (pc["tx"] = "ack" \/ disconnecting)

\* storage_disconnect comes to its end whatever the control thread does.
DisconnectReturns == disc = "lock" ~> disc = "gone"
=============================================================================
