---------------------------- MODULE MCRedisStore ----------------------------
(***************************************************************************)
(* Two processes, each with one connection, and two keys.  Updates u1, u2  *)
(* run in the first process, u3 and u4 in the second; three of them        *)
(* contend for one key.  MCKinds leaves out "look" and "remove": a create  *)
(* of a key that is there is a noop too, and clear deletes as remove does. *)
(***************************************************************************)
EXTENDS RedisStore

CONSTANTS u1, u2, u3, u4, c1, c2, k1, k2

MCUpdates == {u1, u2, u3, u4}
MCConns   == {c1, c2}
MCKeys    == {k1, k2}
MCConnOf  == [u \in MCUpdates |-> IF u \in {u1, u2} THEN c1 ELSE c2]
MCKeyOf   == [u \in MCUpdates |-> IF u = u4 THEN k2 ELSE k1]
MCKinds   == {"append", "create", "clear", "throws", "put"}
MCAppends == {"append", "look", "throws"}
MCRejectable == {u2}
=============================================================================
