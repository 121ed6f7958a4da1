-------------------------- MODULE UsbStorageProofs --------------------------
(***************************************************************************)
(* The safety of the USB block service, for any device size, any requests  *)
(* and any table size.                                                     *)
(*                                                                         *)
(* The argument: only one of the two requesters is active at a time, since *)
(* a session begins after the scan thread has ended; us->sema counts one   *)
(* for the command in us->srb that the control thread has not yet met; and *)
(* dev_mutex is held by whoever completes a command.                       *)
(***************************************************************************)
EXTENDS UsbStorage, TLAPS

Working == {"run", "done", "clear"}

\* Who holds dev_mutex, and how far a disconnect is.
MutexInv ==
    /\ ctrl = "none" <=> host = NULL
    /\ disc = "none" <=> host = NULL
    /\ host = NULL => ~disconnecting
    /\ disc \in {"lock", "clear", "release", "gone"} <=> disconnecting
    /\ dev_mutex = "ctrl" <=> ctrl \in Working
    /\ dev_mutex = "disc" <=> disc = "clear"
    /\ disc \in {"release", "gone"} => ctrl \notin Working
    /\ released => disc = "gone"

\* The scan thread ends before a session begins.
Sized(i) ==
    /\ pc["scan"] = "gone" /\ usb_devices[i].sdev = host
    /\ answered => usb_devices[i].block_count = Blocks

SessionInv ==
    /\ pc["scan"] \in {"none", "settle", "queue", "store", "wait", "gone"}
    /\ pc["scan"] = "none" <=> host = NULL
    /\ pc["tx"] \in {"none", "get", "queue", "store", "wait", "ack"}
    /\ pc["tx"] # "none" => session # NULL
    /\ ~callback => current_index = NULL /\ session = NULL
    /\ callback /\ ~plugin_lock => current_index # NULL
    /\ current_index # NULL => Sized(current_index)
    /\ session # NULL => Sized(session)

\* us->srb and us->sema.
CommandInv ==
    /\ \A t \in Requesters :
          /\ pc[t] = "store" => srb = NULL
          /\ compl[t] => pc[t] = "wait"
          /\ srb = t /\ ctrl # "clear" /\ disc # "clear" => pc[t] = "wait" /\ ~compl[t]
    /\ ctrl \in Working \/ disc = "clear" => srb # NULL
    /\ ~disconnecting =>
          /\ ctrl # "gone"
          /\ ctrl = "lock" => srb # NULL /\ sema = 0
          /\ ctrl \in Working => sema = 0
          /\ ctrl \in {"none", "down"} => sema = IF srb = NULL THEN 0 ELSE 1

\* The packet of the Tx_thread, the blocks of it that are done, and the
\* blocks of a READ that the device has transferred.
PacketInv ==
    /\ pc["tx"] \in {"queue", "store", "wait", "ack"} =>
          /\ packet \in Requests
          /\ packet.number + packet.count <= usb_devices[session].block_count
    /\ pc["tx"] \in {"queue", "store", "wait"} => blk < packet.count
    /\ pc["tx"] \in {"queue", "store", "wait"} => succeeded
    /\ ~disconnecting /\ pc["tx"] = "wait" /\ ~compl["tx"] => srb = "tx" /\ ctrl # "clear"
    /\ ~disconnecting =>
          /\ pc["tx"] \in {"queue", "store"} /\ packet.op = "READ" => ran = 0 .. blk - 1
          /\ pc["tx"] = "wait" /\ packet.op = "READ" =>
                ran = IF compl["tx"] \/ ctrl = "done" THEN 0 .. blk ELSE 0 .. blk - 1
          /\ pc["tx"] = "ack" /\ packet.op = "READ" /\ succeeded =>
                ran = 0 .. packet.count - 1

IInv == TypeOK /\ MutexInv /\ SessionInv /\ CommandInv /\ PacketInv

-----------------------------------------------------------------------------
(* Types.                                                                  *)

\* The threads step between the control points TypeOK lists.
LEMMA TypeStep == TypeOK /\ PacketInv /\ [Next]_vars => TypeOK'
<1> SUFFICES ASSUME TypeOK, PacketInv, [Next]_vars PROVE TypeOK'
    BY Zenon
<1> USE UsbStorageAssumption
<1>1. CASE \E d \in Devs : storage_probe(d)
    BY <1>1 DEF storage_probe, TypeOK, stream, probe, udata, Requesters
<1>2. CASE usb_stor_scan_thread
    BY <1>2 DEF usb_stor_scan_thread, TypeOK, tables, stream, probe, udata, Requesters
<1>3. CASE inquired
  <2>1. /\ pc' \in [Requesters -> {"none", "settle", "queue", "store", "wait", "gone",
                                   "get", "ack"}]
        /\ cmnd' \in {"INQUIRY", "READ_CAPACITY"} /\ answered' \in BOOLEAN
        /\ compl' \in [Requesters -> BOOLEAN]
      BY ZenonT(60), <1>3 DEF inquired, TypeOK, Requesters
  <2>2. usb_devices' \in [Index -> [sdev : Devs \cup {NULL}, block_count : Nat]]
    <3>1. \/ usb_devices' = usb_devices
          \/ \E i \in Index : usb_devices' = [usb_devices EXCEPT ![i].sdev = host]
        BY Zenon, <1>3 DEF inquired
    <3>2. ASSUME NEW i \in Index PROVE [usb_devices EXCEPT ![i].sdev = host]
                \in [Index -> [sdev : Devs \cup {NULL}, block_count : Nat]]
        BY ZenonT(60) DEF TypeOK
    <3>3. ASSUME NEW i \in Index, usb_devices' = [usb_devices EXCEPT ![i].sdev = host]
          PROVE  usb_devices' \in [Index -> [sdev : Devs \cup {NULL}, block_count : Nat]]
        BY Zenon, <3>2, <3>3
    <3>4. QED
        BY Zenon, <3>1, <3>3 DEF TypeOK
  <2>3. QED
      BY <1>3, <2>1, <2>2 DEF inquired, TypeOK, stream, udata
<1>4. CASE sized
  <2>1. PICK i \in Index, n \in capacity :
           /\ usb_devices' = [usb_devices EXCEPT ![i].block_count = n]
           /\ current_index' = IF callback THEN i ELSE current_index
      BY Zenon, <1>4 DEF sized
  <2>2. n \in Nat
      BY DEF capacity
  <2>3. plugin_lock' \in BOOLEAN
      BY <1>4, Zenon DEF sized
  <2>4. usb_devices' \in [Index -> [sdev : Devs \cup {NULL}, block_count : Nat]]
      BY ZenonT(60), <2>1, <2>2 DEF TypeOK
  <2>5. /\ pc' \in [Requesters -> {"none", "settle", "queue", "store", "wait", "gone",
                                   "get", "ack"}]
        /\ compl' \in [Requesters -> BOOLEAN]
        /\ current_index' \in Index \cup {NULL}
      BY Zenon, <1>4, <2>1 DEF sized, TypeOK, Requesters
  <2>6. QED
      BY SMTT(30), <1>4, <2>3, <2>4, <2>5 DEF sized, TypeOK, stream, probe, udata
<1>5. ASSUME NEW t \in Requesters, queuecommand(t) PROVE TypeOK'
  <2>1. CASE queuecommand_busy(t)
      BY <2>1 DEF queuecommand_busy, next_block, TypeOK, tables, stream, probe, udata, Requesters
  <2>2. CASE queuecommand_no_connect(t)
      BY <2>2 DEF queuecommand_no_connect, TypeOK, tables, stream, probe, udata
  <2>3. CASE queuecommand_test(t)
      BY <2>3 DEF queuecommand_test, TypeOK, tables, stream, probe, udata
  <2>4. CASE queuecommand_store(t)
      BY <2>4 DEF queuecommand_store, TypeOK, tables, stream, probe
  <2>5. QED
      BY Zenon, <1>5, <2>1, <2>2, <2>3, <2>4 DEF queuecommand
<1>6. CASE get_packet
  <2>1. submit \in Seq(Requests) /\ submit # <<>>
      BY Zenon, <1>6 DEF get_packet, TypeOK
  <2>2. Head(submit) \in Requests /\ Tail(submit) \in Seq(Requests)
      BY <2>1
  <2>3. pc' \in [Requesters -> {"none", "settle", "queue", "store", "wait", "gone",
                                "get", "ack"}]
      BY SMTT(30), <1>6 DEF get_packet, TypeOK, Requesters
  <2>4. succeeded' \in BOOLEAN
      BY Zenon, <1>6 DEF get_packet, TypeOK
  <2>5. QED
      BY SMTT(30), <1>6, <2>2, <2>3, <2>4 DEF get_packet, TypeOK, tables, probe, udata
<1>7. CASE block_io_done
    BY <1>7 DEF block_io_done, next_block, TypeOK, tables, probe, udata, Requesters
<1>8. CASE acknowledge_packet
    BY <1>8 DEF acknowledge_packet, TypeOK, tables, probe, udata, Requesters
<1>9. CASE usb_stor_control_thread
  <2>1. CASE control_down
      BY <2>1 DEF control_down, TypeOK, tables, stream, probe
  <2>2. CASE control_lock
      BY <2>2 DEF control_lock, TypeOK, tables, stream, probe
  <2>3. CASE control_run
      BY <2>3 DEF control_run, TypeOK, tables, stream, udata
  <2>4. CASE control_done
      BY <2>4 DEF control_done, TypeOK, tables, stream, probe, udata
  <2>5. CASE control_clear
      BY <2>5 DEF control_clear, TypeOK, tables, stream, probe
  <2>6. QED
      BY Zenon, <1>9, <2>1, <2>2, <2>3, <2>4, <2>5 DEF usb_stor_control_thread
<1>10. CASE quiesce_and_remove_host
    BY SMTT(30), <1>10 DEF quiesce_and_remove_host, TypeOK, tables, stream, probe
<1>11. CASE storage_disconnect
  <2>1. CASE quiesce_lock
    <3>1. compl' \in [Requesters -> BOOLEAN]
        BY ZenonT(60), <2>1 DEF quiesce_lock, TypeOK, Requesters
    <3>2. QED
        BY <2>1, <3>1 DEF quiesce_lock, TypeOK, tables, stream, probe
  <2>2. CASE quiesce_clear
      BY <2>2 DEF quiesce_clear, TypeOK, tables, stream, probe
  <2>3. CASE release_everything
      BY <2>3 DEF release_everything, TypeOK, tables, stream, probe
  <2>4. QED
      BY Zenon, <1>11, <2>1, <2>2, <2>3 DEF storage_disconnect
<1>12. CASE start_storage_service
    BY <1>12 DEF start_storage_service, TypeOK, stream, probe, udata
<1>13. CASE Client
  <2>1. CASE create_session
      BY <2>1 DEF create_session, TypeOK, stream, probe, udata, Requesters
  <2>2. CASE \E p \in Requests : submit_packet(p)
      BY SMTT(30), <2>2 DEF submit_packet, TypeOK, tables, probe, udata
  <2>3. CASE get_acked_packet
      BY <2>3 DEF get_acked_packet, TypeOK, tables, probe, udata
  <2>4. QED
      BY Zenon, <1>13, <2>1, <2>2, <2>3 DEF Client
<1>14. CASE UNCHANGED vars
    BY <1>14 DEF vars, TypeOK, tables, stream, probe, udata
<1>15. QED
    BY Zenon, <1>1, <1>2, <1>3, <1>4, <1>5, <1>6, <1>7, <1>8, <1>9, <1>10, <1>11, <1>12, <1>13, <1>14
    DEF Next, Scan_thread, Tx_thread, Requesters

-----------------------------------------------------------------------------
(* dev_mutex and the disconnect.                                           *)

\* The control thread and khubd exclude each other, and once a disconnect has
\* passed the mutex the control thread takes up no command.
LEMMA MutexStep == TypeOK /\ MutexInv /\ [Next]_vars => MutexInv'
<1> SUFFICES ASSUME TypeOK, MutexInv, [Next]_vars PROVE MutexInv'
    BY Zenon
<1> USE UsbStorageAssumption
<1>1. CASE \E d \in Devs : storage_probe(d)
    BY SMTT(30), <1>1 DEF storage_probe, TypeOK, MutexInv, Working, udata
<1>2. CASE usb_stor_control_thread
    BY SMTT(30), <1>2 DEF usb_stor_control_thread, control_down, control_lock, control_run, control_done,
                control_clear, TypeOK, MutexInv, Working, tables, udata
<1>3. CASE quiesce_and_remove_host
    BY Zenon, <1>3 DEF quiesce_and_remove_host, TypeOK, MutexInv, Working, tables
<1>4. CASE storage_disconnect
    BY <1>4 DEF storage_disconnect, quiesce_lock, quiesce_clear, release_everything, TypeOK,
                MutexInv, Working, tables
<1>5. CASE UNCHANGED <<host, ctrl, disc, disconnecting, dev_mutex, released>>
    BY Zenon, <1>5 DEF MutexInv
<1>6. ASSUME Scan_thread \/ Tx_thread \/ start_storage_service \/ Client \/ UNCHANGED vars
      PROVE  UNCHANGED <<host, ctrl, disc, disconnecting, dev_mutex, released>>
    BY Zenon, <1>6 DEF Scan_thread, Tx_thread, queuecommand, Client, usb_stor_scan_thread, inquired,
                sized, queuecommand_busy, queuecommand_no_connect, queuecommand_test,
                queuecommand_store, get_packet, block_io_done, acknowledge_packet,
                start_storage_service, create_session, submit_packet, get_acked_packet,
                vars, tables, udata
<1>7. QED
    BY Zenon, <1>1, <1>2, <1>3, <1>4, <1>5, <1>6 DEF Next

-----------------------------------------------------------------------------
(* The scan thread and the session.                                        *)

\* A session begins after the scan has ended, and the entry that it uses does
\* not change any more.
LEMMA SessionStep ==
    TypeOK /\ MutexInv /\ SessionInv /\ CommandInv /\ [Next]_vars => SessionInv'
<1> SUFFICES ASSUME TypeOK, MutexInv, SessionInv, CommandInv, [Next]_vars PROVE SessionInv'
    BY Zenon
<1>0. /\ pc \in [Requesters -> {"none", "settle", "queue", "store", "wait", "gone", "get", "ack"}]
      /\ current_index \in Index \cup {NULL} /\ session \in Index \cup {NULL}
      /\ usb_devices \in [Index -> [sdev : Devs \cup {NULL}, block_count : Nat]]
    BY Zenon DEF TypeOK
<1> USE <1>0, UsbStorageAssumption DEF Requesters, SessionInv, Sized
<1>1. CASE \E d \in Devs : storage_probe(d)
    BY <1>1 DEF storage_probe, probe
<1>2. CASE usb_stor_scan_thread
    BY Zenon, <1>2 DEF usb_stor_scan_thread, tables, probe
<1>3. CASE inquired
  <2>1. current_index = NULL /\ session = NULL /\ host # NULL
      BY Zenon, <1>3 DEF inquired
  <2>2. \E to \in {"queue", "gone"} : pc' = [pc EXCEPT !["scan"] = to]
      BY Zenon, <1>3 DEF inquired
  <2>3. UNCHANGED <<host, callback, plugin_lock, current_index, session>>
      BY Zenon, <1>3 DEF inquired
  <2>4. QED
      BY Zenon, <2>1, <2>2, <2>3
<1>4. CASE sized
  <2>1. current_index = NULL /\ session = NULL /\ host # NULL
      BY Zenon, <1>4 DEF sized
  <2>2. PICK i \in Index, n \in capacity :
           /\ usb_devices[i].sdev = host
           /\ usb_devices' = [usb_devices EXCEPT ![i].block_count = n]
           /\ current_index' = IF callback THEN i ELSE current_index
      BY Zenon, <1>4 DEF sized
  <2>3. usb_devices'[i].sdev = host /\ usb_devices'[i].block_count = n
      BY Zenon, <2>2
  <2>4. answered => n = Blocks
      BY DEF capacity
  <2>5. /\ pc' = [pc EXCEPT !["scan"] = "gone"] /\ UNCHANGED <<host, callback, session, answered>>
        /\ ~plugin_lock' => ~plugin_lock \/ callback
      BY Zenon, <1>4 DEF sized, probe
  <2>6. QED
      BY Zenon, <2>1, <2>2, <2>3, <2>4, <2>5
<1>5. ASSUME NEW t \in Requesters, queuecommand(t) PROVE SessionInv'
  <2>1. \E to \in {"queue", "store", "wait", "ack"} :
           /\ pc[t] \in {"queue", "store"} /\ pc' = [pc EXCEPT ![t] = to]
           /\ to = "ack" => t = "tx"
      BY <1>5 DEF queuecommand, queuecommand_busy, next_block, queuecommand_no_connect,
                  queuecommand_test, queuecommand_store
  <2>2. UNCHANGED <<tables, probe>>
      BY Zenon, <1>5 DEF queuecommand, queuecommand_busy, queuecommand_no_connect, queuecommand_test,
                         queuecommand_store
  <2>3. QED
      BY ZenonT(60), <2>1, <2>2 DEF tables, probe
<1>6. CASE get_packet \/ block_io_done \/ acknowledge_packet
  <2>1. \E to \in {"get", "queue", "ack"} :
           pc["tx"] \in {"get", "wait", "ack"} /\ pc' = [pc EXCEPT !["tx"] = to]
      BY ZenonT(60), <1>6 DEF get_packet, block_io_done, next_block, acknowledge_packet
  <2>2. UNCHANGED <<tables, probe>>
      BY Zenon, <1>6 DEF get_packet, block_io_done, acknowledge_packet
  <2>3. QED
      BY Zenon, <2>1, <2>2 DEF tables, probe
<1>7. CASE control_run
  <2>1. srb = "scan" => pc["scan"] = "wait"
      BY Zenon, <1>7 DEF control_run, MutexInv, CommandInv, Working
  <2>2. UNCHANGED <<tables, pc>> /\ (answered' # answered => srb = "scan")
      BY Zenon, <1>7 DEF control_run
  <2>3. QED
      BY <2>1, <2>2 DEF tables
<1>8. CASE start_storage_service
    BY Zenon, <1>8 DEF start_storage_service, probe
<1>9. CASE create_session
    BY Zenon, <1>9 DEF create_session, probe
<1>10. CASE UNCHANGED <<tables, pc, probe>>
    BY Zenon, <1>10 DEF tables, probe
<1>11. ASSUME \/ control_down \/ control_lock \/ control_done \/ control_clear
              \/ quiesce_and_remove_host \/ storage_disconnect
              \/ (\E p \in Requests : submit_packet(p)) \/ get_acked_packet \/ UNCHANGED vars
       PROVE  UNCHANGED <<tables, pc, probe>>
    BY Zenon, <1>11
    DEF control_down, control_lock, control_done, control_clear, quiesce_and_remove_host,
        storage_disconnect, quiesce_lock, quiesce_clear, release_everything, submit_packet,
        get_acked_packet, vars
<1>12. QED
    BY Zenon, <1>1, <1>2, <1>3, <1>4, <1>5, <1>6, <1>7, <1>8, <1>9, <1>10, <1>11
    DEF Next, Scan_thread, Tx_thread, usb_stor_control_thread, Client, Requesters

-----------------------------------------------------------------------------
(* us->srb, us->sema and the completions.                                  *)

\* The command in us->srb is the one its requester waits for, until it has
\* been completed.  us->sema counts the command that the control thread has
\* not yet met.
LEMMA CommandStep ==
    TypeOK /\ MutexInv /\ SessionInv /\ CommandInv /\ [Next]_vars => CommandInv'
<1> SUFFICES ASSUME TypeOK, MutexInv, SessionInv, CommandInv, [Next]_vars PROVE CommandInv'
    BY Zenon
<1>0. /\ pc \in [Requesters -> {"none", "settle", "queue", "store", "wait", "gone", "get", "ack"}]
      /\ compl \in [Requesters -> BOOLEAN] /\ srb \in Requesters \cup {NULL} /\ sema \in Nat
      /\ ctrl \in {"none", "down", "lock", "run", "done", "clear", "gone"}
    BY Zenon DEF TypeOK
<1> USE <1>0, UsbStorageAssumption DEF Requesters, CommandInv, Working
<1>1. CASE \E d \in Devs : storage_probe(d)
    BY Zenon, <1>1 DEF storage_probe, MutexInv, SessionInv, udata
<1>2. CASE usb_stor_scan_thread
    BY Zenon, <1>2 DEF usb_stor_scan_thread, udata
<1>3. CASE inquired \/ sized
  <2>1. /\ compl["scan"] /\ compl' = [compl EXCEPT !["scan"] = FALSE]
        /\ \E to \in {"queue", "gone"} : pc' = [pc EXCEPT !["scan"] = to]
        /\ UNCHANGED <<udata, ctrl, disc>>
      BY Zenon, <1>3 DEF inquired, sized
  <2>2. QED
      BY Zenon, <2>1 DEF udata
<1>4. ASSUME NEW t \in Requesters, queuecommand(t) PROVE CommandInv'
  <2>1. CASE queuecommand_busy(t)
    <3>1. /\ pc[t] = "queue" /\ srb # NULL /\ UNCHANGED <<compl, udata, ctrl, disc>>
          /\ \E to \in {"queue", "wait", "ack"} : pc' = [pc EXCEPT ![t] = to]
        BY Zenon, <2>1 DEF queuecommand_busy, next_block
    <3>2. QED
        BY ZenonT(60), <3>1 DEF udata
  <2>2. CASE queuecommand_no_connect(t)
      BY Zenon, <2>2 DEF queuecommand_no_connect, udata
  <2>3. CASE queuecommand_test(t)
      BY Zenon, <2>3 DEF queuecommand_test, udata
  <2>4. CASE queuecommand_store(t)
    <3>1. \A u \in Requesters : u # t => pc[u] # "store"
        BY Zenon, <2>4 DEF queuecommand_store, SessionInv, Sized
    <3>2. QED
        BY <2>4, <3>1 DEF queuecommand_store
  <2>5. QED
      BY Zenon, <1>4, <2>1, <2>2, <2>3, <2>4 DEF queuecommand
<1>5. CASE get_packet \/ acknowledge_packet
  <2>1. /\ pc["tx"] \in {"get", "ack"} /\ UNCHANGED <<compl, udata, ctrl, disc>>
        /\ \E to \in {"get", "queue", "ack"} : pc' = [pc EXCEPT !["tx"] = to]
      BY ZenonT(60), <1>5 DEF get_packet, acknowledge_packet
  <2>2. QED
      BY Zenon, <2>1 DEF udata
<1>6. CASE block_io_done
  <2>1. /\ compl["tx"] /\ compl' = [compl EXCEPT !["tx"] = FALSE]
        /\ \E to \in {"queue", "ack"} : pc' = [pc EXCEPT !["tx"] = to]
        /\ UNCHANGED <<udata, ctrl, disc>>
      BY Zenon, <1>6 DEF block_io_done, next_block
  <2>2. QED
      BY ZenonT(60), <2>1 DEF udata
<1>7. CASE control_down
    BY <1>7 DEF control_down
<1>8. CASE control_lock
    BY Zenon, <1>8 DEF control_lock, MutexInv
<1>9. CASE control_run
    BY Zenon, <1>9 DEF control_run, udata
<1>10. CASE control_done
    BY Zenon, <1>10 DEF control_done, MutexInv, udata
<1>11. CASE control_clear
    BY Zenon, <1>11 DEF control_clear, MutexInv
<1>12. CASE quiesce_and_remove_host
    BY Zenon, <1>12 DEF quiesce_and_remove_host
<1>13. CASE quiesce_lock
    BY Zenon, <1>13 DEF quiesce_lock, MutexInv
<1>14. CASE quiesce_clear
    BY Zenon, <1>14 DEF quiesce_clear, MutexInv
<1>15. CASE release_everything
    BY Zenon, <1>15 DEF release_everything, MutexInv
<1>16. CASE create_session
    BY ZenonT(60), <1>16 DEF create_session, SessionInv, udata
<1>17. CASE UNCHANGED <<pc, compl, udata, ctrl, disc>>
    BY Zenon, <1>17 DEF udata
<1>18. ASSUME \/ start_storage_service \/ (\E p \in Requests : submit_packet(p))
              \/ get_acked_packet \/ UNCHANGED vars
       PROVE  UNCHANGED <<pc, compl, udata, ctrl, disc>>
    BY Zenon, <1>18 DEF start_storage_service, submit_packet, get_acked_packet, vars
<1>19. QED
    BY Zenon, <1>1, <1>2, <1>3, <1>4, <1>5, <1>6, <1>7, <1>8, <1>9, <1>10, <1>11, <1>12, <1>13,
       <1>14, <1>15, <1>16, <1>17, <1>18
    DEF Next, Scan_thread, Tx_thread, usb_stor_control_thread, storage_disconnect, Client,
        Requesters

-----------------------------------------------------------------------------
(* The packet of the Tx_thread.                                            *)

\* The Tx_thread stays within the range it has checked, and it counts a block
\* of a READ as done only after the device has worked on it.
LEMMA PacketStep == IInv /\ [Next]_vars => PacketInv'
<1> SUFFICES ASSUME IInv, [Next]_vars PROVE PacketInv'
    BY Zenon
<1>0. /\ pc \in [Requesters -> {"none", "settle", "queue", "store", "wait", "gone", "get", "ack"}]
      /\ compl \in [Requesters -> BOOLEAN] /\ srb \in Requesters \cup {NULL}
      /\ packet \in Requests \cup {NULL} /\ blk \in Nat /\ submit \in Seq(Requests)
    BY Zenon DEF IInv, TypeOK
<1>a. /\ PacketInv
      /\ pc["tx"] # "none" => session # NULL /\ pc["scan"] = "gone"
    BY Zenon DEF IInv, SessionInv, Sized
<1>b. \A r \in Requests : /\ r.number \in Nat /\ r.count \in Nat
                          /\ r.op \in {"READ", "WRITE", "OTHER"}
    BY Zenon, UsbStorageAssumption
<1> USE <1>0, <1>a, <1>b DEF Requesters
<1>1. CASE pc'["tx"] \in {"none", "get"}
    BY Zenon, <1>1 DEF PacketInv
<1>2. ASSUME (\E d \in Devs : storage_probe(d)) \/ Scan_thread PROVE pc'["tx"] = "none"
  <2>1. pc["scan"] # "gone"
      BY Zenon, <1>2 DEF IInv, SessionInv, storage_probe, Scan_thread, usb_stor_scan_thread, queuecommand,
                  queuecommand_busy, queuecommand_no_connect, queuecommand_test,
                  queuecommand_store, inquired, sized
  <2>2. \E to : pc' = [pc EXCEPT !["scan"] = to]
      BY Zenon, <1>2 DEF storage_probe, Scan_thread, usb_stor_scan_thread, queuecommand,
                  queuecommand_busy, queuecommand_no_connect, queuecommand_test,
                  queuecommand_store, inquired, sized
  <2>3. QED
      BY Zenon, <2>1, <2>2
<1>3. CASE queuecommand_busy("tx")
  <2>1. pc["tx"] = "queue" /\ UNCHANGED <<tables, ran, compl, udata, ctrl>>
      BY Zenon, <1>3 DEF queuecommand_busy
  <2>2. CASE UNCHANGED <<pc, stream>>
      BY Zenon, <2>1, <2>2 DEF PacketInv, tables, udata, stream
  <2>3. CASE packet.op = "WRITE" /\ next_block(blk + 1)
      BY <2>1, <2>3 DEF PacketInv, next_block, tables, udata
  <2>4. QED
      BY Zenon, <1>3, <2>2, <2>3 DEF queuecommand_busy
<1>4. CASE queuecommand_no_connect("tx")
    BY Zenon, <1>4 DEF queuecommand_no_connect, PacketInv, tables, stream, udata
<1>5. CASE queuecommand_test("tx")
    BY Zenon, <1>5 DEF queuecommand_test, PacketInv, tables, stream, udata
<1>6. CASE queuecommand_store("tx")
  <2>1. ~compl["tx"] /\ ctrl \notin Working
      BY Zenon, <1>6 DEF queuecommand_store, IInv, CommandInv
  <2>2. QED
      BY Zenon, <1>6, <2>1 DEF queuecommand_store, PacketInv, Working, tables, stream
<1>7. CASE get_packet /\ pc'["tx"] # "get"
  <2>1. Head(submit) \in Requests
      BY <1>7 DEF get_packet
  <2>2. /\ pc["tx"] = "get" /\ packet' = Head(submit) /\ blk' = 0 /\ ran' = {} /\ UNCHANGED tables
        /\ ~ (packet'.number + packet'.count > usb_devices[session].block_count)
      BY Zenon, <1>7 DEF get_packet, dde_linux26_block_count
  <2>3. PICK malloc \in BOOLEAN :
           /\ succeeded' = malloc
           /\ pc' = [pc EXCEPT !["tx"] = IF malloc /\ Head(submit).count > 0 THEN "queue" ELSE "ack"]
      BY Zenon, <1>7, <2>2 DEF get_packet
  <2>4. /\ pc'["tx"] \in {"queue", "ack"}
        /\ pc'["tx"] = "queue" => succeeded' /\ packet'.count > 0
        /\ pc'["tx"] = "ack" /\ succeeded' => packet'.count = 0
      BY <2>1, <2>2, <2>3
  <2>5. usb_devices[session].block_count \in Nat
      BY Zenon, <2>2 DEF IInv, TypeOK
  <2>6. QED
      BY SMTT(30), <2>1, <2>2, <2>4, <2>5 DEF PacketInv, tables
<1>8. CASE block_io_done
    BY <1>8 DEF block_io_done, next_block, PacketInv, tables, udata
<1>9. CASE control_down \/ control_lock
  <2>1. /\ UNCHANGED <<tables, stream, ran, pc, compl, srb, disconnecting>>
        /\ ctrl \in {"down", "lock"} /\ ctrl' \in {"lock", "run", "gone"}
      BY Zenon, <1>9 DEF control_down, control_lock
  <2>2. QED
      BY Zenon, <2>1 DEF PacketInv, tables, stream
<1>10. CASE control_run
  <2>1. srb = "tx" => pc["tx"] = "wait" /\ ~compl["tx"]
      BY Zenon, <1>10 DEF control_run, IInv, CommandInv, MutexInv, Working
  <2>2. srb = "scan" => pc["tx"] = "none"
      BY Zenon, <1>10 DEF control_run, IInv, CommandInv, MutexInv, Working
  <2>3. /\ srb \in Requesters /\ ctrl = "run" /\ ctrl' = "done"
        /\ ran' = IF srb = "tx" THEN ran \cup {blk} ELSE ran
        /\ UNCHANGED <<tables, stream, pc, compl, srb, disconnecting>>
      BY Zenon, <1>10 DEF control_run, udata
  <2>4. CASE srb = "scan"
      BY Zenon, <1>1, <2>2, <2>3, <2>4
  <2>5. CASE srb = "tx"
    <3>1. ran = 0 .. blk - 1 => ran' = 0 .. blk
        BY <2>3, <2>5
    <3>2. QED
        BY Zenon, <2>1, <2>3, <2>5, <3>1 DEF PacketInv, tables, stream
  <2>6. QED
      BY Zenon, <2>3, <2>4, <2>5
<1>11. CASE control_done
    BY Zenon, <1>11 DEF control_done, PacketInv, tables, stream, udata
<1>12. CASE control_clear
    BY Zenon, <1>12 DEF control_clear, PacketInv, tables, stream
<1>13. CASE quiesce_and_remove_host \/ storage_disconnect
  <2>1. disconnecting' /\ UNCHANGED <<tables, stream, pc>>
      BY Zenon, <1>13 DEF quiesce_and_remove_host, storage_disconnect, quiesce_lock, quiesce_clear,
                   release_everything, IInv, MutexInv
  <2>2. QED
      BY Zenon, <2>1 DEF PacketInv, tables, stream
<1>14. CASE UNCHANGED <<usb_devices, session, packet, blk, succeeded, ran, pc, compl, srb,
                        disconnecting, ctrl>>
    BY Zenon, <1>14 DEF PacketInv
<1>15. ASSUME \/ start_storage_service \/ (\E p \in Requests : submit_packet(p))
              \/ get_acked_packet \/ UNCHANGED vars
       PROVE  UNCHANGED <<usb_devices, session, packet, blk, succeeded, ran, pc, compl, srb,
                          disconnecting, ctrl>>
    BY Zenon, <1>15 DEF start_storage_service, submit_packet, get_acked_packet, vars, tables,
                        stream, udata
<1>16. ASSUME acknowledge_packet \/ create_session PROVE pc'["tx"] = "get"
    BY Zenon, <1>16 DEF acknowledge_packet, create_session
<1>17. QED
    BY Zenon, <1>1, <1>2, <1>3, <1>4, <1>5, <1>6, <1>7, <1>8, <1>9, <1>10, <1>11, <1>12, <1>13,
       <1>14, <1>15, <1>16
    DEF Next, Tx_thread, queuecommand, usb_stor_control_thread, Client

-----------------------------------------------------------------------------
(* The theorems.                                                           *)

\* Before anything is plugged in.
LEMMA InitInv == Init => IInv
<1> SUFFICES ASSUME Init PROVE IInv
    BY Zenon
<1> USE UsbStorageAssumption DEF Init, Requesters
<1>1. TypeOK
  <2>1. usb_devices \in [Index -> [sdev : Devs \cup {NULL}, block_count : Nat]]
      BY Zenon
  <2>2. submit \in Seq(Requests) /\ ran \subseteq Nat
      OBVIOUS
  <2>3. pc \in [Requesters -> {"none", "settle", "queue", "store", "wait", "gone", "get", "ack"}]
      BY Zenon
  <2>4. compl \in [Requesters -> BOOLEAN]
      BY Zenon
  <2>5. QED
      BY Zenon, <2>1, <2>2, <2>3, <2>4 DEF TypeOK
<1>2. MutexInv /\ SessionInv /\ CommandInv /\ PacketInv
    BY Zenon DEF MutexInv, SessionInv, CommandInv, PacketInv, Working
<1>3. QED
    BY Zenon, <1>1, <1>2 DEF IInv

\* The five parts together are an invariant of the block service.
THEOREM Inductive == Spec => []IInv
<1>1. IInv /\ [Next]_vars => IInv'
    BY Zenon, TypeStep, MutexStep, SessionStep, CommandStep, PacketStep DEF IInv
<1>2. QED
    BY InitInv, <1>1, PTL DEF Spec

\* The variables of the block service keep their types.
THEOREM TypeCorrect == Spec => []TypeOK
<1>1. IInv => TypeOK
    BY Zenon DEF IInv
<1>2. QED
    BY Inductive, <1>1, PTL

\* The control thread works on a command that its requester still waits for,
\* although queuecommand() runs without the lock and a disconnect completes
\* commands as well.
THEOREM CommandLiveHolds == Spec => []CommandLive
<1>1. IInv => CommandLive
    BY Zenon DEF IInv, TypeOK, MutexInv, CommandInv, CommandLive, Working
<1>2. QED
    BY Inductive, <1>1, PTL

\* The control thread takes up nothing after release_everything().
THEOREM ReleasedUnusedHolds == Spec => []ReleasedUnused
<1>1. IInv => ReleasedUnused
    BY Zenon DEF IInv, TypeOK, MutexInv, ReleasedUnused, Working
<1>2. QED
    BY Inductive, <1>1, PTL

\* A session uses a complete table entry, whatever the size of the device.
THEOREM SessionSizedHolds == Spec => []SessionSized
<1>1. IInv => SessionSized
    BY Zenon DEF IInv, SessionInv, Sized, SessionSized, dde_linux26_block_count
<1>2. QED
    BY Inductive, <1>1, PTL

\* The Tx_thread leaves no range that it has checked, for any requests.
THEOREM InRangeHolds == Spec => []InRange
<1>1. ASSUME IInv PROVE InRange
  <2>1. /\ blk \in Nat /\ \A i \in Index : usb_devices[i].block_count \in Nat
        /\ session \in Index \cup {NULL} /\ (pc["tx"] # "none" => session # NULL)
        /\ \A r \in Requests : r.number \in Nat /\ r.count \in Nat
      BY Zenon, <1>1, UsbStorageAssumption DEF IInv, TypeOK, SessionInv
  <2>2. PacketInv
      BY Zenon, <1>1 DEF IInv
  <2>3. QED
      BY <2>1, <2>2 DEF PacketInv, InRange, dde_linux26_block_count
<1>2. QED
    BY Inductive, <1>1, PTL

\* No busy host makes the Tx_thread acknowledge a READ whose blocks the
\* device has not transferred.
THEOREM ReadMovedHolds == Spec => []ReadMoved
<1>1. IInv => ReadMoved
    BY Zenon, UsbStorageAssumption DEF IInv, PacketInv, ReadMoved, Moved
<1>2. QED
    BY Inductive, <1>1, PTL
=============================================================================
