-------------------------------- MODULE WinIo --------------------------------
(***************************************************************************)
(* What the Windows layer of td_revent (src/src/sys/win: net.rs, iocp.rs,  *)
(* mod.rs) makes of the kernel's answers on the way between the selector   *)
(* and the system: the results of overlapped calls, the timeout of         *)
(* GetQueuedCompletionStatusEx, and the addresses AcceptEx leaves in a     *)
(* buffer.  A call that may go several ways is the set of its results.     *)
(***************************************************************************)
EXTENDS Naturals, Sequences, SequencesExt

CONSTANTS
    U32Max,      \* u32::MAX, scaled down: also DWORD, u_long and INFINITE
    U64Max,      \* u64::MAX, scaled down
    Byte,        \* 256, scaled down
    Peers        \* the addresses of the peers that connect to a listener

ASSUME WidthAssumption == U32Max \in Nat \ {0} /\ U64Max \in Nat /\ Byte \in Nat \ {0}

(* A peer is an IPv4 address, whose ip is four octets and which has neither flow
   nor scope, or an IPv6 address, whose ip is eight groups. *)
U8  == 0 .. Byte - 1
U16 == 0 .. Byte * Byte - 1
U32 == 0 .. Byte * Byte * Byte * Byte - 1

SocketAddrV4 == [family : {"V4"}, ip : [1 .. 4 -> U8], port : U16, flow : {0}, scope : {0}]
SocketAddrV6 == [family : {"V6"}, ip : [1 .. 8 -> U16], port : U16, flow : U32, scope : U32]

ASSUME PeersAssumption == Peers \subseteq SocketAddrV4 \cup SocketAddrV6

Least(a, b) == IF a <= b THEN a ELSE b

-----------------------------------------------------------------------------
(* io::Result and Option. *)
None    == <<>>
Some(v) == <<v>>
Ok(v)   == [ok |-> TRUE, v |-> v]
Err     == [ok |-> FALSE, v |-> None]

(* WSAGetLastError after a call that answered SOCKET_ERROR. *)
last_err(err) == IF err = "WSA_IO_PENDING" THEN Ok(None) ELSE Err

(* An answer of Winsock: SOCKET_ERROR with an error, or 0 with a size. *)
Fails(err) == [failed |-> TRUE, err |-> err, size |-> 0]
Takes(n)   == [failed |-> FALSE, err |-> "none", size |-> n]
cvt(r)     == IF r.failed THEN last_err(r.err) ELSE Ok(Some(r.size))

(* A WSABUF holds its length in a u_long. *)
slice2buf(len) == Least(len, U32Max)

(* WSASend takes some units at once, keeps the buffer, or refuses; WSARecv
   likewise, and its units go to the packet. *)
WSASend(len, broken, mayPend) ==
    IF broken THEN {Fails("WSAECONNRESET")}
    ELSE {Takes(n) : n \in 1 .. len}
         \cup (IF mayPend THEN {Fails("WSA_IO_PENDING")} ELSE {})

WSARecv == {Takes(1), Fails("WSA_IO_PENDING"), Fails("WSAECONNRESET")}

write_overlapped(len, broken, mayPend) ==
    {cvt(r) : r \in WSASend(slice2buf(len), broken, mayPend)}

read_overlapped == {cvt(r) : r \in WSARecv}

(* WsaExtension::get: the cached pointer of AcceptEx, or WSAIoctl's answer. *)
WsaExtensionGet == {Ok(None), Err}

(* AcceptEx on a listening socket: TRUE, or the last error. *)
AcceptEx == {Ok(Some(TRUE))} \cup {last_err(e) : e \in {"WSA_IO_PENDING", "WSAECONNRESET"}}

accept_overlapped == UNION {IF p.ok THEN AcceptEx ELSE {p} : p \in WsaExtensionGet}

(* PostQueuedCompletionStatus and CreateIoCompletionPort. *)
post_info(mayFail) == {Ok(None)} \cup IF mayFail THEN {Err} ELSE {}
add_socket         == {Ok(None), Err}

-----------------------------------------------------------------------------
(* The timeout of one wait, in milliseconds, from a Duration.  The largest u32
   means no timeout. *)
INFINITE == U32Max

from_millis(ms) == [secs |-> ms \div 1000, millis |-> ms % 1000]

dur2ms(dur) ==
    IF dur = None THEN INFINITE
    ELSE LET ms == dur[1].secs * 1000 + dur[1].millis IN
         IF ms > U64Max THEN INFINITE - 1 ELSE Least(U32Max, ms)

-----------------------------------------------------------------------------
(* Addresses.  A SOCKADDR is [sa_family, len] and fields in network byte order,
   sequences of bytes as they lie in memory. *)
SizeOfInt  == 4
SizeOfIn   == 16
SizeOfIn6  == 28
Storage    == 128
Padding    == 16

(* u16::from_be and u32::from_be of an integer as it lies in memory: its first
   byte is the highest. *)
from_be(bytes) ==
    IF Len(bytes) = 2 THEN bytes[1] * Byte + bytes[2]
    ELSE ((bytes[1] * Byte + bytes[2]) * Byte + bytes[3]) * Byte + bytes[4]

(* Definitions named ..._mut_... are wrong on purpose, each the way a slip in
   the code would be: the README lists the property that tells each from the
   definition after it.  No specification uses them. *)
ntoh_mut_host_order(bytes) == from_be(Reverse(bytes))

ntoh(bytes) == from_be(bytes)

(* (n >> shift bytes) as u8, of a u32. *)
Weight == <<1, Byte, Byte * Byte, Byte * Byte * Byte>>

ByteOf(n, shift) == (n \div Weight[shift + 1]) % Byte

ptrs_to_socket_addr(a) ==
    IF a.len < SizeOfInt THEN None
    ELSE IF a.sa_family = "AF_INET" /\ a.len >= SizeOfIn
    THEN LET ip == ntoh(a.addr) IN
         Some([family |-> "V4", port |-> ntoh(a.port), flow |-> 0, scope |-> 0,
               ip |-> <<ByteOf(ip, 3), ByteOf(ip, 2), ByteOf(ip, 1), ByteOf(ip, 0)>>])
    ELSE IF a.sa_family = "AF_INET6" /\ a.len >= SizeOfIn6
    THEN Some([family |-> "V6", port |-> ntoh(a.port), flow |-> ntoh(a.flowinfo),
               scope |-> ntoh(a.scope),
               ip |-> [i \in 1 .. 8 |-> a.addr[2 * i - 1] * Byte + a.addr[2 * i]]])
    ELSE None

(* The kernel's SOCKADDR of a peer, and its all-zero one. *)
Bytes(n, len) == [i \in 1 .. len |-> ByteOf(n, len - i)]

Sockaddr(p) ==
    IF p.family = "V4"
    THEN [sa_family |-> "AF_INET", len |-> SizeOfIn, port |-> Bytes(p.port, 2), addr |-> p.ip]
    ELSE [sa_family |-> "AF_INET6", len |-> SizeOfIn6, port |-> Bytes(p.port, 2),
          flowinfo |-> Bytes(p.flow, 4), scope |-> Bytes(p.scope, 4),
          addr |-> [i \in 1 .. 16 |-> ByteOf(p.ip[(i + 1) \div 2], i % 2)]]

Zeroed == [sa_family |-> "AF_UNSPEC", len |-> 0]

(* AcceptAddrsBuf::args: the data, local and remote parts of the buffer. *)
args == [data |-> 0, local |-> Storage + Padding, remote |-> Storage + Padding]

(* AcceptEx writes the two addresses behind the data, GetAcceptExSockaddrs finds
   them where the same sizes put them. *)
AcceptAddrsBuf == [at \in {args.data, args.data + args.local} |-> Zeroed]

Accepted(p) == [AcceptAddrsBuf EXCEPT ![args.data + args.local] = Sockaddr(p)]

parse(buf) == [local |-> buf[args.data], remote |-> buf[args.data + args.local]]

remote(addrs) == ptrs_to_socket_addr(addrs.remote)

(* What read_done gives accept_cb: the accept failed, no address was found, or
   the peer's address. *)
AcceptResult(complete, buf) ==
    IF ~complete THEN Err
    ELSE LET r == remote(parse(buf)) IN IF r = None THEN Err ELSE Ok(r)
=============================================================================
