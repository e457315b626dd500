---------------------------- MODULE RdmaDevices ----------------------------
(***************************************************************************)
(* Which RDMA devices a host uses, and which of them a rank gets           *)
(* (device_utils.py), from the devices the host has and the environment.   *)
(*                                                                         *)
(* A device is the parts of its name, <<family, number>>; a token of       *)
(* NCCL_IB_HCA is such a name or the start of one.  A host is [name, gpus, *)
(* available, chosen, hca]: chosen is PS_P2P_STORE_RDMA_DEVICES, and hca   *)
(* is NCCL_IB_HCA, [exclude, exact, tokens] with no tokens if it is unset. *)
(***************************************************************************)
EXTENDS Lists

\* The length at which _parse_NCCL_IB_HCA cuts a list off.
MaxHCAs == 32

FirstOf(list) == SubSeq(list, 1, Min({MaxHCAs, Len(list)}))

Before(d, e) == d[1] < e[1] \/ (d[1] = e[1] /\ d[2] < e[2])

\* What a token stands for: a device of that name, or else those it starts.
Matches(token, hca, available) ==
    IF Contains(available, token) THEN {token}
    ELSE {d \in ToSet(available) : ~hca.exact /\ IsPrefix(token, d)}

\* How many devices of a set come no later than one of them, and a set by name.
PlaceOf(d, found) == Cardinality({e \in found : e = d \/ Before(e, d)})
ByName(found) == [i \in 1 .. Cardinality(found) |-> CHOOSE d \in found : PlaceOf(d, found) = i]

ResolveDeviceSpecs(hca, available) ==
    ByName(UNION {Matches(token, hca, available) : token \in ToSet(hca.tokens)})

ParseNCCL_IB_HCA(hca, available) ==
    LET resolved == ResolveDeviceSpecs(hca, available) IN
    IF hca.tokens = <<>> THEN FirstOf(available)
    ELSE FirstOf(IF hca.exclude
                 THEN Picked(available, {i \in DOMAIN available : ~Contains(resolved, available[i])})
                 ELSE resolved)

\* A list of the store's own, NCCL's, or all there are when that one is empty.
GetRdmaDevices(host) ==
    LET parsed == ParseNCCL_IB_HCA(host.hca, host.available) IN
    IF host.chosen # <<>> THEN host.chosen
    ELSE IF parsed # <<>> THEN parsed ELSE host.available

\* The two assertions of _get_my_rdma_device.
CanAssign(gpus, devices) ==
    /\ devices # <<>>
    /\ IF Len(devices) <= gpus THEN gpus % Len(devices) = 0 ELSE Len(devices) % gpus = 0

\* A plausible bug: a rank's devices begin at its number.
Overlapping(local, gpus, devices) ==
    IF Len(devices) <= gpus THEN <<devices[1 + local \div (gpus \div Len(devices))]>>
    ELSE SubSeq(devices, 1 + local, local + Len(devices) \div gpus)

\* Hosts are told apart by their addresses, have as many devices for ranks, and
\* list an RDMA device once (what ibv_get_device_list and get_ip give the code).
HostsSound(hosts) ==
    /\ DOMAIN hosts = 1 .. Len(hosts)
    /\ \A i, j \in DOMAIN hosts : hosts[i].name = hosts[j].name => i = j
    /\ \A i \in DOMAIN hosts :
          /\ hosts[i].gpus \in Nat \ {0} /\ hosts[i].gpus = hosts[1].gpus
          /\ hosts[i].available \in Seq(Nat \X Nat) /\ IsInjective(hosts[i].available)
          /\ hosts[i].chosen \in Seq(Nat \X Nat)

\* The device a rank shares with its neighbours, or its own devices.
MyRdmaDevice(local, gpus, devices) ==
    IF Len(devices) <= gpus THEN <<devices[1 + local \div (gpus \div Len(devices))]>>
    ELSE LET own == Len(devices) \div gpus IN
         SubSeq(devices, 1 + local * own, (local + 1) * own)

\* The host of rank r, and where a rank's metas say it is reached: its devices
\* and its host.  All hosts of a deployment have as many devices for ranks.
HostOf(r, hosts) == hosts[1 + r \div hosts[1].gpus]
ReachedAt(r, hosts) ==
    LET host == HostOf(r, hosts) IN
    <<MyRdmaDevice(r % host.gpus, host.gpus, GetRdmaDevices(host)), host.name>>
=============================================================================
