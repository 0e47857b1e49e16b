------------------------------- MODULE MCBoot --------------------------------
(* The deployed image keeps no file over a reboot; here status.json stays.  *)
EXTENDS Boot

StatusOnly == {"status"}

=============================================================================
