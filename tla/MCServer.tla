------------------------------ MODULE MCServer ------------------------------
(* A TLC instance of Server: the default configuration, one that uses the   *)
(* host's portmapper, sunos, a portmap section that has neither, and one    *)
(* that moves a daemon to another port, with allow and deny lists that      *)
(* differ between the lives of the process.                                 *)
EXTENDS Server

CONSTANTS h1, h2

Default == [usehost |-> FALSE, sunos |-> FALSE, mappings |-> Builtin,
            port |-> [d \in Daemons |-> None],
            hosts_allow |-> None, hosts_deny |-> None]

MCConfigurations ==
    {Default,
     [Default EXCEPT !.usehost = TRUE, !.mappings = None, !.hosts_deny = {h1}],
     [Default EXCEPT !.sunos = TRUE, !.hosts_allow = {h2}],
     [Default EXCEPT !.mappings = None],
     [Default EXCEPT !.port = [mountd |-> 1892, nfsd |-> 3049],
                     !.hosts_allow = {h1, h2}, !.hosts_deny = {h2}]}
=============================================================================
