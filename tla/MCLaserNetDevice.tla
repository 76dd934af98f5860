-------------------------- MODULE MCLaserNetDevice --------------------------
(* Small instance of LaserNetDevice for TLC. *)
EXTENDS LaserNetDevice, TLC

(* The two ends of the link are interchangeable. *)
Symmetry == Permutations(Device)
=============================================================================
