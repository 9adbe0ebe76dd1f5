----------------------- MODULE MCRPCAdmissionTracker -----------------------
(* A small instance of RPCAdmissionTracker: one admission more than there are
   sequences, two shards, two scans. *)
EXTENDS RPCAdmissionTracker

CONSTANTS o1, o2, o3, o4, t1, t2
=============================================================================
