------------------------------ MODULE Protocol ------------------------------
(***************************************************************************)
(* The lines server and workstations exchange (src/common/protocol.h), and *)
(* the billing package both sides handle.  A line is a record: its type    *)
(* and the fields a property or a receiver distinguishes.  What encode and *)
(* decode do to well-formed text is abstracted; what they do to a value    *)
(* that holds a newline is not (see MenuOffer).                            *)
(***************************************************************************)
EXTENDS Integers, Sequences

CONSTANTS Packages,  \* the rows of the packages table
          Users,     \* the customer names that occur
          NoName     \* the empty customer name

(* Package: the entry fields of the edit dialog accept any number, so a    *)
(* duration or a price may also be zero or negative.                       *)
Package == [is_timed : BOOLEAN, duration_sec : Int, price : Int]

NoPackage == [is_timed |-> FALSE, duration_sec |-> 0, price |-> 0]

ASSUME PackagesAssumption == Packages \subseteq Package
ASSUME UsersAssumption == NoName \in Users

-----------------------------------------------------------------------------
(* Server to client.                                                       *)

Registered == [type |-> "REGISTERED"]
PackageList == [type |-> "PACKAGES"]
Pong == [type |-> "PONG"]
ChatServer == [type |-> "CHAT_SERVER"]
ServerMsg == [type |-> "SERVER_MSG"]

SessionStart(p, u) == [type |-> "SESSION_START", package |-> p, username |-> u]

Tick(e, r) == [type |-> "TICK", elapsed |-> e, remaining |-> r]

SessionEnd(e) == [type |-> "SESSION_END", elapsed |-> e]

Lock(b) == [type |-> "LOCK", locked |-> b]

(* A menu offer's text field is formatted over three lines, and encode     *)
(* copies it as it is: the peer reads the head of the offer, a line that   *)
(* starts with the price and a line that is the item's description.        *)
Remainder == [type |-> "(remainder)"]
MenuOffer == <<[type |-> "MENU_OFFER"], Remainder, Remainder>>

PlainTypes == {"REGISTERED", "PACKAGES", "PONG", "CHAT_SERVER", "SERVER_MSG",
               "MENU_OFFER", "(remainder)"}

ServerLine ==
    [type : PlainTypes]
      \cup [type : {"SESSION_START"}, package : Packages, username : Users]
      \cup [type : {"TICK"}, elapsed : Nat, remaining : Nat]
      \cup [type : {"SESSION_END"}, elapsed : Nat]
      \cup [type : {"LOCK"}, locked : BOOLEAN]

(* Client to server.  CHAT_CLIENT is left out: it reaches the chat         *)
(* transcript of the admin window only.                                    *)
ClientLine == [type : {"REGISTER"}, username : Users] \cup [type : {"HEARTBEAT"}]
=============================================================================
