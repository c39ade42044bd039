---------------------------- MODULE MCHandleProxy ----------------------------
(* Two concurrent requests, a client that has been here before and a cookie
   value that is either given out during the run or made up by a client. *)
EXTENDS HandleProxy

CONSTANTS r1, r2, old, new

MCRequests == {r1, r2}
MCCookies == {old, new}
MCReturning == {old}
=============================================================================
