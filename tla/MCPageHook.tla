----------------------------- MODULE MCPageHook -----------------------------
(* Ticks of six seconds: the loop waits 30 s, blur comes after 6 s, distortion
   after 10 s, gravity after 20 s, all rounded up. *)
EXTENDS PageHook
=============================================================================
