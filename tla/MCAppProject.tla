----------------------------- MODULE MCAppProject -----------------------------
EXTENDS AppProject

Request(kind, name) ==
  [kind |-> kind, name |-> name, class |-> "Svc", service |-> "power", method |-> None,
   txn |-> None, iface |-> None, authority |-> ""]

(* Two tests of one application service whose default names are the same,  *)
(* one that names the class of another, and requests that the device       *)
(* database answers or does not.                                           *)
MCRequests ==
  {[Request("service", None) EXCEPT !.txn = Some("1")],
   [Request("service", None) EXCEPT !.txn = Some("2")],
   [Request("provider", <<"Svc", "Transaction">>) EXCEPT !.authority = "sms"],
   [Request("generic", <<"Mine">>) EXCEPT !.class = ""],
   [Request("system", <<"Test", "Mine">>) EXCEPT !.method = Some("reboot")],
   [Request("system", None) EXCEPT !.method = Some("crash")],
   [Request("system", None) EXCEPT !.txn = Some("0")]}

MCServices == [power |-> [iface |-> Some("IPower"), methods |-> {"reboot"}]]
===============================================================================
