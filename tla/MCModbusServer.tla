--------------------------- MODULE MCModbusServer ---------------------------
(* Requests of no, one and two values for ModbusServer.  Of those that fill *)
(* rx_data, of those to many and of those to an illegal address, a few      *)
(* stand for all.                                                           *)
EXTENDS ModbusServer

MCDatas == {<<>>, <<5>>, <<5, 6>>}

MCRequests ==
  {f \in Sendable :
     /\ f.fn = "multiple" => f.data # <<>>
     /\ f.fill = "exact" => f.addr = Own /\ f.fn = "single"
     /\ f.addr # Own => f.start # 1 /\ Len(f.data) = 1
     /\ f.start \in Illegal => f.addr = Own /\ f.qty # 2}
=============================================================================
