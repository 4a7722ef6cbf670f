----------------------------- MODULE SnullModule ----------------------------
(***************************************************************************)
(* Loading and unloading snull.c: snull_init_module and snull_cleanup, one *)
(* device after the other, while the devices registered so far are opened, *)
(* closed and used.  The data path is Snull's, reduced to where the buffers*)
(* of each device are; a device has at most PoolSize of them.              *)
(***************************************************************************)
EXTENDS Naturals, FiniteSets

CONSTANT PoolSize

Dev == {0, 1}           \* the indices of snull_devs
Twin(d) == 1 - d

VARIABLES pc,           \* where module loading or unloading is
          i,            \* the loop index
          ret,          \* what snull_init_module returns so far
          use_napi,
          dev,          \* each device: null, allocated, registered, ...
          up,           \* opened
          ppool,        \* number of buffers in each pool
          flight,       \* and of those on the twin's rx_queue
          quiet,        \* since rmmod: both down, nothing under way
          busy,         \* since rmmod: the second device has been up
          touched       \* a device was used after free_netdev

loadVars == <<pc, i, ret, use_napi, dev>>
dataVars == <<up, ppool, flight>>
histVars == <<quiet, busy, touched>>
vars == <<loadVars, dataVars, histVars>>

Fresh ==
    /\ pc = "out" /\ i = 0 /\ ret = "-ENOMEM"
    /\ dev = [d \in Dev |-> "null"] /\ up = [d \in Dev |-> FALSE]
    /\ ppool = [d \in Dev |-> 0] /\ flight = [d \in Dev |-> 0]
    /\ quiet = FALSE /\ busy = FALSE /\ touched = FALSE

Init == Fresh /\ use_napi \in BOOLEAN

Goto(from, to) == pc = from /\ pc' = to

-----------------------------------------------------------------------------
(* snull_init_module                                                       *)

(* insmod; what an earlier unload left behind is no longer followed.       *)
Insmod ==
    /\ Goto("out", "alloc")
    /\ use_napi' \in BOOLEAN
    /\ i' = 0 /\ ret' = "-ENOMEM" /\ dev' = [d \in Dev |-> "null"]
    /\ ppool' = [d \in Dev |-> 0] /\ flight' = [d \in Dev |-> 0]
    /\ quiet' = FALSE /\ busy' = FALSE /\ touched' = FALSE
    /\ UNCHANGED up

(* alloc_netdev, whose snull_init gets as many buffers as memory allows.   *)
AllocNetdev ==
    /\ pc = "alloc" /\ i < 2 /\ i' = i + 1
    /\ \/ UNCHANGED <<dev, ppool>>
       \/ /\ dev' = [dev EXCEPT ![i] = "allocated"]
          /\ \E n \in 0 .. PoolSize : ppool' = [ppool EXCEPT ![i] = n]
    /\ UNCHANGED <<pc, ret, use_napi, up, flight, histVars>>

Allocated ==
    /\ i = 2 /\ i' = 0
    /\ IF \E d \in Dev : dev[d] = "null"
       THEN Goto("alloc", "out:") /\ UNCHANGED ret
       ELSE Goto("alloc", "register") /\ ret' = "-ENODEV"
    /\ UNCHANGED <<use_napi, dev, dataVars, histVars>>

(* Fault: only what the last registration returned counts.                 *)
RegisterResult_Last(ok) == IF ok THEN "0" ELSE "-ENODEV"

RegisterResult(ok) == IF ok THEN "0" ELSE ret

RegisterNetdev ==
    /\ pc = "register" /\ i < 2 /\ i' = i + 1
    /\ \E ok \in BOOLEAN :
          /\ dev' = IF ok THEN [dev EXCEPT ![i] = "registered"] ELSE dev
          /\ ret' = RegisterResult(ok)
    /\ UNCHANGED <<pc, use_napi, dataVars, histVars>>

Out ==
    /\ i' = 0
    /\ \/ pc = "register" /\ i = 2 /\ pc' = (IF ret = "0" THEN "in" ELSE "out:")
       \/ Goto("out:", "unregister")
    /\ UNCHANGED <<ret, use_napi, dev, dataVars, histVars>>

-----------------------------------------------------------------------------
(* snull_cleanup                                                           *)

rmmod ==
    /\ Goto("in", "unregister") /\ i' = 0
    /\ quiet' = \A d \in Dev : ~up[d] /\ flight[d] = 0
    /\ busy' = up[1]
    /\ UNCHANGED <<ret, use_napi, dev, dataVars, touched>>

NextDev == IF i = 0 THEN pc' = "unregister" /\ i' = 1 ELSE pc' = "out" /\ i' = 0

SkipNull ==
    /\ pc = "unregister" /\ dev[i] = "null" /\ NextDev
    /\ UNCHANGED <<ret, use_napi, dev, dataVars, histVars>>

(* Fault: the device is not unregistered.                                  *)
unregister_netdev_Missing == UNCHANGED <<dev, up>>

(* unregister_netdev closes the device; it accepts one that was never      *)
(* registered.                                                             *)
unregister_netdev ==
    dev' = [dev EXCEPT ![i] = "unregistered"] /\ up' = [up EXCEPT ![i] = FALSE]

Unregister ==
    /\ Goto("unregister", "teardown") /\ dev[i] # "null" /\ unregister_netdev
    /\ UNCHANGED <<i, ret, use_napi, ppool, flight, histVars>>

(* Only what is in the pool: "FIXME - in-flight packets ?".                *)
snull_teardown_pool == ppool' = [ppool EXCEPT ![i] = 0]

Teardown ==
    /\ Goto("teardown", "free") /\ snull_teardown_pool
    /\ UNCHANGED <<i, ret, use_napi, dev, up, flight, histVars>>

FreeNetdev ==
    /\ pc = "free" /\ NextDev
    /\ dev' = [dev EXCEPT ![i] = "freed"]
    /\ UNCHANGED <<ret, use_napi, dataVars, histVars>>

-----------------------------------------------------------------------------
(* The interfaces in use                                                   *)

Unloading == pc \in {"unregister", "teardown", "free"}

snull_open(d) ==
    /\ dev[d] = "registered" /\ ~up[d] /\ up' = [up EXCEPT ![d] = TRUE]
    /\ quiet' = FALSE /\ busy' = (busy \/ (Unloading /\ d = 1))
    /\ UNCHANGED <<loadVars, ppool, flight, touched>>

snull_release(d) ==
    /\ up[d] /\ up' = [up EXCEPT ![d] = FALSE]
    /\ UNCHANGED <<loadVars, ppool, flight, histVars>>

Use(d) == touched' = (touched \/ dev[d] = "freed")

(* A frame leaves on d in one of its buffers, for the twin's queue.        *)
snull_tx(d) ==
    /\ up[d] /\ ppool[d] > 0
    /\ ppool' = [ppool EXCEPT ![d] = @ - 1] /\ flight' = [flight EXCEPT ![d] = @ + 1]
    /\ Use(Twin(d))
    /\ UNCHANGED <<loadVars, up, quiet, busy>>

(* A buffer of d is received and given back: by the poll of the twin, which*)
(* is up, or by a handler that some transmitter calls.                     *)
snull_rx(d) ==
    /\ flight[d] > 0
    /\ IF use_napi THEN up[Twin(d)] ELSE \E e \in Dev : up[e]
    /\ ppool' = [ppool EXCEPT ![d] = @ + 1] /\ flight' = [flight EXCEPT ![d] = @ - 1]
    /\ Use(d)
    /\ UNCHANGED <<loadVars, up, quiet, busy>>

Next ==
    \/ Insmod \/ AllocNetdev \/ Allocated \/ RegisterNetdev \/ Out
    \/ rmmod \/ SkipNull \/ Unregister \/ Teardown \/ FreeNetdev
    \/ \E d \in Dev : snull_open(d) \/ snull_release(d) \/ snull_tx(d) \/ snull_rx(d)

Spec == Init /\ [][Next]_vars

-----------------------------------------------------------------------------
(* However allocation and registration fail, a load that fails leaves no   *)
(* device, no interface and no buffer behind; nor does an unload that began*)
(* with both interfaces down and drained, unless one is opened meanwhile.  *)
NothingLeftBehind ==
    pc = "out" /\ (ret # "0" \/ quiet) =>
        \A d \in Dev : dev[d] \in {"null", "freed"} /\ ppool[d] = 0 /\ flight[d] = 0

(* The first device is freed while the second is still registered: as long *)
(* as the second has been down since rmmod, no freed device is used, even  *)
(* if the first was up and transmitting.                                   *)
FreedOnlyIdle == touched => busy
=============================================================================
