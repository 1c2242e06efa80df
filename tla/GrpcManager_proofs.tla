------------------------- MODULE GrpcManager_proofs -------------------------
(***************************************************************************)
(* Proofs, for any number of senders, reconnect goroutines and clients,    *)
(* that the transport manager leaks no connection before Close and never   *)
(* takes a working client out of its map.                                  *)
(***************************************************************************)
EXTENDS GrpcManager, TLAPS

(* NewManager: an empty manager satisfies the inductive invariant. *)
LEMMA InitInv == Init => ManagerInv
<1> USE ManagerAssumption DEF Init
<1>1. Init => TypeOK
  BY DEF TypeOK, Points
<1>2. Init => SetupOwn /\ DeadAtDelete
  BY DEF SetupOwn, DeadAtDelete
<1>3. Init => OpenAccounted
  BY DEF OpenAccounted, InSetup
<1> QED
  BY <1>1, <1>2, <1>3 DEF ManagerInv

(* Every step keeps the fields of Manager and Client, and the goroutines'  *)
(* locals, in their types.                                                 *)
LEMMA TypeStep ==
  ASSUME TypeOK, [Next]_vars
  PROVE  TypeOK'
<1> USE ManagerAssumption DEF TypeOK, Points, Actors, Goto, Have, table, calls, shutdown
<1>1. ASSUME NEW g \in Actors, CallSend(g)
      PROVE  TypeOK'
  BY <1>1 DEF CallSend
<1>2. ASSUME NEW g \in Actors, Load(g)
      PROVE  TypeOK'
  BY <1>2 DEF Load, Got
<1>3. ASSUME NEW g \in Actors, DialOk(g)
      PROVE  TypeOK'
  BY <1>3 DEF DialOk, Fresh
<1>4. ASSUME NEW g \in Actors, DialFail(g)
      PROVE  TypeOK'
  BY <1>4 DEF DialFail
<1>5. ASSUME NEW g \in Actors, LoadOrStore(g)
      PROVE  TypeOK'
  BY <1>5 DEF LoadOrStore, Got
<1>6. ASSUME NEW g \in Actors, SendOk(g)
      PROVE  TypeOK'
  BY <1>6 DEF SendOk
<1>7. ASSUME NEW g \in Actors, SendFail(g)
      PROVE  TypeOK'
  BY <1>7 DEF SendFail
<1>8. ASSUME NEW g \in Actors, SendDelete(g)
      PROVE  TypeOK'
  BY <1>8 DEF SendDelete, Drop
<1>9. ASSUME NEW g \in Actors, Check(g)
      PROVE  TypeOK'
  BY <1>9 DEF Check
<1>10. ASSUME NEW g \in Actors, Limit(g)
      PROVE  TypeOK'
  BY <1>10 DEF Limit
<1>11. ASSUME NEW g \in Actors, Backoff(g)
      PROVE  TypeOK'
  BY <1>11 DEF Backoff
<1>12. ASSUME NEW g \in Actors, ReconnectFailed(g)
      PROVE  TypeOK'
  BY <1>12 DEF ReconnectFailed
<1>13. ASSUME NEW g \in Actors, Reconnected(g)
      PROVE  TypeOK'
  BY <1>13 DEF Reconnected
<1>14. ASSUME NEW c \in Clients, RecvEnds(c)
       PROVE  TypeOK'
  BY <1>14 DEF RecvEnds
<1>15. ASSUME NEW c \in Clients, RecvDelete(c)
       PROVE  TypeOK'
  BY <1>15 DEF RecvDelete, Drop
<1>16. ASSUME NEW c \in Clients, StreamBreaks(c)
       PROVE  TypeOK'
  BY <1>16 DEF StreamBreaks
<1>17. CASE CloseCancel
  BY <1>17 DEF CloseCancel
<1>18. CASE CloseCollect
  BY <1>18 DEF CloseCollect
<1>19. CASE CloseConns
  BY <1>19 DEF CloseConns
<1>20. CASE CloseClear
  BY <1>20 DEF CloseClear
<1>21. CASE ServerChange
  BY <1>21 DEF ServerChange
<1>22. CASE UNCHANGED vars
  BY <1>22 DEF vars
<1> QED
  BY <1>1, <1>2, <1>3, <1>4, <1>5, <1>6, <1>7, <1>8,
     <1>9, <1>10, <1>11, <1>12, <1>13, <1>14, <1>15, <1>16,
     <1>17, <1>18, <1>19, <1>20, <1>21, <1>22
     DEF Next, GetClient, Send, Reconnect, RecvLoop, Close

(* A client between StreamPackets and LoadOrStore is known to one call of  *)
(* getClient only: a dialled client is a new object.                       *)
LEMMA SetupStep ==
  ASSUME TypeOK, SetupOwn, [Next]_vars
  PROVE  SetupOwn'
<1> USE ManagerAssumption DEF TypeOK, SetupOwn, Goto, Have, table, calls, shutdown
<1>1. ASSUME NEW g \in Actors, CallSend(g)
      PROVE  SetupOwn'
  BY <1>1 DEF CallSend
<1>2. ASSUME NEW g \in Actors, Load(g)
      PROVE  SetupOwn'
  BY <1>2 DEF Load, Got
<1>3. ASSUME NEW g \in Actors, DialOk(g)
      PROVE  SetupOwn'
  BY <1>3 DEF DialOk, Fresh
<1>4. ASSUME NEW g \in Actors, DialFail(g)
      PROVE  SetupOwn'
  BY <1>4 DEF DialFail
<1>5. ASSUME NEW g \in Actors, LoadOrStore(g)
      PROVE  SetupOwn'
  BY <1>5 DEF LoadOrStore, Got
<1>6. ASSUME NEW g \in Actors, SendOk(g)
      PROVE  SetupOwn'
  BY <1>6 DEF SendOk
<1>7. ASSUME NEW g \in Actors, SendFail(g)
      PROVE  SetupOwn'
  BY <1>7 DEF SendFail
<1>8. ASSUME NEW g \in Actors, SendDelete(g)
      PROVE  SetupOwn'
  BY <1>8 DEF SendDelete, Drop
<1>9. ASSUME NEW g \in Actors, Check(g)
      PROVE  SetupOwn'
  BY <1>9 DEF Check
<1>10. ASSUME NEW g \in Actors, Limit(g)
      PROVE  SetupOwn'
  BY <1>10 DEF Limit
<1>11. ASSUME NEW g \in Actors, Backoff(g)
      PROVE  SetupOwn'
  BY <1>11 DEF Backoff
<1>12. ASSUME NEW g \in Actors, ReconnectFailed(g)
      PROVE  SetupOwn'
  BY <1>12 DEF ReconnectFailed
<1>13. ASSUME NEW g \in Actors, Reconnected(g)
      PROVE  SetupOwn'
  BY <1>13 DEF Reconnected
<1>14. ASSUME NEW c \in Clients, RecvEnds(c)
       PROVE  SetupOwn'
  BY <1>14 DEF RecvEnds
<1>15. ASSUME NEW c \in Clients, RecvDelete(c)
       PROVE  SetupOwn'
  BY <1>15 DEF RecvDelete, Drop
<1>16. ASSUME NEW c \in Clients, StreamBreaks(c)
       PROVE  SetupOwn'
  BY <1>16 DEF StreamBreaks
<1>17. CASE CloseCancel
  BY <1>17 DEF CloseCancel
<1>18. CASE CloseCollect
  BY <1>18 DEF CloseCollect
<1>19. CASE CloseConns
  BY <1>19 DEF CloseConns
<1>20. CASE CloseClear
  BY <1>20 DEF CloseClear
<1>21. CASE ServerChange
  BY <1>21 DEF ServerChange
<1>22. CASE UNCHANGED vars
  BY <1>22 DEF vars
<1> QED
  BY <1>1, <1>2, <1>3, <1>4, <1>5, <1>6, <1>7, <1>8,
     <1>9, <1>10, <1>11, <1>12, <1>13, <1>14, <1>15, <1>16,
     <1>17, <1>18, <1>19, <1>20, <1>21, <1>22
     DEF Next, GetClient, Send, Reconnect, RecvLoop, Close

(* Send and recvLoop go on to CompareAndDelete only with a stream that has *)
(* failed, and a failed stream stays so.                                   *)
LEMMA DeadStep ==
  ASSUME TypeOK, DeadAtDelete, [Next]_vars
  PROVE  DeadAtDelete'
<1> USE ManagerAssumption DEF TypeOK, DeadAtDelete, Goto, Have, table, calls, shutdown
<1>1. ASSUME NEW g \in Actors, CallSend(g)
      PROVE  DeadAtDelete'
  BY <1>1 DEF CallSend
<1>2. ASSUME NEW g \in Actors, Load(g)
      PROVE  DeadAtDelete'
  BY <1>2 DEF Load, Got
<1>3. ASSUME NEW g \in Actors, DialOk(g)
      PROVE  DeadAtDelete'
  BY <1>3 DEF DialOk, Fresh
<1>4. ASSUME NEW g \in Actors, DialFail(g)
      PROVE  DeadAtDelete'
  BY <1>4 DEF DialFail
<1>5. ASSUME NEW g \in Actors, LoadOrStore(g)
      PROVE  DeadAtDelete'
  BY <1>5 DEF LoadOrStore, Got
<1>6. ASSUME NEW g \in Actors, SendOk(g)
      PROVE  DeadAtDelete'
  BY <1>6 DEF SendOk
<1>7. ASSUME NEW g \in Actors, SendFail(g)
      PROVE  DeadAtDelete'
  BY <1>7 DEF SendFail
<1>8. ASSUME NEW g \in Actors, SendDelete(g)
      PROVE  DeadAtDelete'
  BY <1>8 DEF SendDelete, Drop
<1>9. ASSUME NEW g \in Actors, Check(g)
      PROVE  DeadAtDelete'
  BY <1>9 DEF Check
<1>10. ASSUME NEW g \in Actors, Limit(g)
      PROVE  DeadAtDelete'
  BY <1>10 DEF Limit
<1>11. ASSUME NEW g \in Actors, Backoff(g)
      PROVE  DeadAtDelete'
  BY <1>11 DEF Backoff
<1>12. ASSUME NEW g \in Actors, ReconnectFailed(g)
      PROVE  DeadAtDelete'
  BY <1>12 DEF ReconnectFailed
<1>13. ASSUME NEW g \in Actors, Reconnected(g)
      PROVE  DeadAtDelete'
  BY <1>13 DEF Reconnected
<1>14. ASSUME NEW c \in Clients, RecvEnds(c)
       PROVE  DeadAtDelete'
  BY <1>14 DEF RecvEnds
<1>15. ASSUME NEW c \in Clients, RecvDelete(c)
       PROVE  DeadAtDelete'
  BY <1>15 DEF RecvDelete, Drop
<1>16. ASSUME NEW c \in Clients, StreamBreaks(c)
       PROVE  DeadAtDelete'
  BY <1>16 DEF StreamBreaks
<1>17. CASE CloseCancel
  BY <1>17 DEF CloseCancel
<1>18. CASE CloseCollect
  BY <1>18 DEF CloseCollect
<1>19. CASE CloseConns
  BY <1>19 DEF CloseConns
<1>20. CASE CloseClear
  BY <1>20 DEF CloseClear
<1>21. CASE ServerChange
  BY <1>21 DEF ServerChange
<1>22. CASE UNCHANGED vars
  BY <1>22 DEF vars
<1> QED
  BY <1>1, <1>2, <1>3, <1>4, <1>5, <1>6, <1>7, <1>8,
     <1>9, <1>10, <1>11, <1>12, <1>13, <1>14, <1>15, <1>16,
     <1>17, <1>18, <1>19, <1>20, <1>21, <1>22
     DEF Next, GetClient, Send, Reconnect, RecvLoop, Close

(* Every step before Close keeps the open connections accounted for.       *)
LEMMA OpenStep ==
  ASSUME TypeOK, SetupOwn, OpenAccounted, [Next]_vars
  PROVE  OpenAccounted'
<1> USE ManagerAssumption DEF TypeOK, SetupOwn, OpenAccounted, InSetup, stopped,
              Goto, Have, table, calls, shutdown
<1>1. ASSUME NEW g \in Actors, CallSend(g)
      PROVE  OpenAccounted'
  BY <1>1 DEF CallSend
<1>2. ASSUME NEW g \in Actors, Load(g)
      PROVE  OpenAccounted'
  BY <1>2 DEF Load, Got
<1>3. ASSUME NEW g \in Actors, DialOk(g)
      PROVE  OpenAccounted'
  BY <1>3 DEF DialOk, Fresh
<1>4. ASSUME NEW g \in Actors, DialFail(g)
      PROVE  OpenAccounted'
  BY <1>4 DEF DialFail
<1>5. ASSUME NEW g \in Actors, LoadOrStore(g)
      PROVE  OpenAccounted'
  BY <1>5 DEF LoadOrStore, Got
<1>6. ASSUME NEW g \in Actors, SendOk(g)
      PROVE  OpenAccounted'
  BY <1>6 DEF SendOk
<1>7. ASSUME NEW g \in Actors, SendFail(g)
      PROVE  OpenAccounted'
  BY <1>7 DEF SendFail
<1>8. ASSUME NEW g \in Actors, SendDelete(g)
      PROVE  OpenAccounted'
  BY <1>8 DEF SendDelete, Drop
<1>9. ASSUME NEW g \in Actors, Check(g)
      PROVE  OpenAccounted'
  BY <1>9 DEF Check
<1>10. ASSUME NEW g \in Actors, Limit(g)
      PROVE  OpenAccounted'
  BY <1>10 DEF Limit
<1>11. ASSUME NEW g \in Actors, Backoff(g)
      PROVE  OpenAccounted'
  BY <1>11 DEF Backoff
<1>12. ASSUME NEW g \in Actors, ReconnectFailed(g)
      PROVE  OpenAccounted'
  BY <1>12 DEF ReconnectFailed
<1>13. ASSUME NEW g \in Actors, Reconnected(g)
      PROVE  OpenAccounted'
  BY <1>13 DEF Reconnected
<1>14. ASSUME NEW c \in Clients, RecvEnds(c)
       PROVE  OpenAccounted'
  BY <1>14 DEF RecvEnds
<1>15. ASSUME NEW c \in Clients, RecvDelete(c)
       PROVE  OpenAccounted'
  BY <1>15 DEF RecvDelete, Drop
<1>16. ASSUME NEW c \in Clients, StreamBreaks(c)
       PROVE  OpenAccounted'
  BY <1>16 DEF StreamBreaks
<1>17. CASE CloseCancel
  BY <1>17 DEF CloseCancel
<1>18. CASE CloseCollect
  BY <1>18 DEF CloseCollect
<1>19. CASE CloseConns
  BY <1>19 DEF CloseConns
<1>20. CASE CloseClear
  BY <1>20 DEF CloseClear
<1>21. CASE ServerChange
  BY <1>21 DEF ServerChange
<1>22. CASE UNCHANGED vars
  BY <1>22 DEF vars
<1> QED
  BY <1>1, <1>2, <1>3, <1>4, <1>5, <1>6, <1>7, <1>8,
     <1>9, <1>10, <1>11, <1>12, <1>13, <1>14, <1>15, <1>16,
     <1>17, <1>18, <1>19, <1>20, <1>21, <1>22
     DEF Next, GetClient, Send, Reconnect, RecvLoop, Close

(* The inductive invariant. *)
THEOREM ManagerInvariant == Spec => []ManagerInv
<1>1. ManagerInv /\ [Next]_vars => ManagerInv'
  BY TypeStep, SetupStep, DeadStep, OpenStep DEF ManagerInv
<1> QED
  BY InitInv, <1>1, PTL DEF Spec

(* Manager's fields stay in their types. *)
THEOREM TypeCorrect == Spec => []TypeOK
<1>1. ManagerInv => TypeOK
  BY DEF ManagerInv
<1> QED
  BY ManagerInvariant, <1>1, PTL

(* However Send, recvLoop and reconnect race, no connection is leaked and  *)
(* no closed one is offered, until Close.                                  *)
THEOREM OpenAccountedCorrect == Spec => []OpenAccounted
<1>1. ManagerInv => OpenAccounted
  BY DEF ManagerInv
<1> QED
  BY ManagerInvariant, <1>1, PTL

(* No step before Close takes a client with a working stream out of the    *)
(* map: both CompareAndDelete calls come after the stream failed.          *)
THEOREM OnlyDeadDroppedCorrect == Spec => OnlyDeadDropped
<1> DEFINE A == stored # None /\ stored' # stored /\ ~stopped
                  => stored \notin streams
<1>1. ManagerInv /\ [Next]_vars => [A]_vars
  <2> SUFFICES ASSUME ManagerInv, Next, stored # None, stored' # stored,
                      ~stopped
               PROVE  stored \notin streams
    OBVIOUS
  <2>1. \/ \E g \in Actors : SendDelete(g) /\ stored = mine[g]
        \/ \E c \in Clients : RecvDelete(c) /\ stored = c
    BY DEF Next, GetClient, Send, Reconnect, RecvLoop, Close, CallSend, Load,
           DialOk, DialFail, LoadOrStore, SendOk, SendFail, SendDelete,
           RecvEnds, RecvDelete, Check, Limit, Backoff, ReconnectFailed,
           Reconnected, CloseCancel, CloseCollect, CloseConns, CloseClear,
           StreamBreaks, ServerChange, table, stopped
  <2> QED
    BY <2>1 DEF ManagerInv, DeadAtDelete, SendDelete, RecvDelete
<1> QED
  BY ManagerInvariant, <1>1, PTL DEF Spec, OnlyDeadDropped

=============================================================================
