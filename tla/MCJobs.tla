------------------------------- MODULE MCJobs -------------------------------
(***************************************************************************)
(* Small instances of Jobs for TLC: a file of the user, an empty one and   *)
(* one that is staged, and two goroutines for each job.                    *)
(***************************************************************************)
EXTENDS Jobs

CONSTANTS f0, f1, f2

MCEmpty == {f0}
MCStaged == {f2}
MCJobOf == <<1, 1, 2, 2>>

(* The first job, which may have trouble, is for any file; the second one  *)
(* is for the same empty file, for the same staged one or for another.     *)
MCMayAsk == <<{f0, f1, f2}, {f0, f2}>>

(* One file for both jobs.                                                 *)
NoneEmpty == {}
NoneStaged == {}
OneFile == <<{f1}, {f1}>>
=============================================================================
