--------------------------- MODULE MCGslNetDevice ---------------------------
(* Small instance of GslNetDevice for TLC. *)
EXTENDS GslNetDevice

(* The transmission time of a packet, rounded up to the clock's unit. *)
MCTxTime(size, rate) == (size + rate - 1) \div rate
=============================================================================
