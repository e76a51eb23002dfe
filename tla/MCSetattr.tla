----------------------------- MODULE MCSetattr ------------------------------
(* A TLC instance of Setattr: requests for some parts, for all parts, and  *)
(* for each way in which the handler has to fill something in.  The mode   *)
(* 2541 is 04755: it has a set-id bit.                                     *)
EXTENDS Setattr

Nothing == [mode |-> None, uid |-> None, gid |-> None, size |-> None,
            how_m_time |-> "DONT_CHANGE", mtime |-> None,
            how_a_time |-> "DONT_CHANGE", atime |-> None]
Server == "SET_TO_SERVER_TIME"
Client == "SET_TO_CLIENT_TIME"

MCRequests ==
    {[Nothing EXCEPT !.gid = 0, !.how_m_time = Client, !.mtime = 3],
     [Nothing EXCEPT !.mode = 2541, !.size = 0],
     [Nothing EXCEPT !.how_a_time = Client, !.atime = 6],
     [Nothing EXCEPT !.uid = 0, !.size = 0, !.how_a_time = Server],
     [mode |-> 2541, uid |-> 1, gid |-> 1, size |-> 1, how_m_time |-> Server,
      mtime |-> None, how_a_time |-> Client, atime |-> 6]}
=============================================================================
