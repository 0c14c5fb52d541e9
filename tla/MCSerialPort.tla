--------------------------- MODULE MCSerialPort ---------------------------
(***************************************************************************)
(* One instance stands for both ports: the debug port, which several tasks *)
(* write to, and the port of the remote procedures, from which one task    *)
(* receives and to which only that task writes.  Strings of up to two      *)
(* characters and queues of two: strings overlap, both queues fill.        *)
(***************************************************************************)
EXTENDS SerialPort

CONSTANTS rpc, printf

MCWriters == {rpc, printf}

\* The port of the remote procedures alone.
MCRpcOnly == {rpc}
============================================================================
