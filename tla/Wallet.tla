-------------------------------- MODULE Wallet --------------------------------
(***************************************************************************)
(* The connection to the Freighter extension                               *)
(* (contexts/StellarWalletContext.tsx), kept for a day in localStorage,    *)
(* and the guard of the admin pages, which asks the contract for its       *)
(* administrator (components/AdminGuard.tsx).  Every operation waits for   *)
(* the extension or the network, and nothing cancels one.                  *)
(***************************************************************************)
EXTENDS Naturals, FiniteSets

CONSTANTS WalletAccounts,  \* the extension's accounts, 1 .. n in its order
          AdminAccount,    \* what the contract's getAdmin answers
          MaxWalletOps     \* operations the user starts

ASSUME WalletAssumption ==
  /\ WalletAccounts \subseteq Nat \ {0} /\ 1 \in WalletAccounts /\ MaxWalletOps \in Nat

Nets == {"testnet", "public"}
Disconnected == [address |-> 0, net |-> "none"]

VARIABLES
  installed,     \* isFreighterInstalled
  walletActive, net,   \* external: the extension's account and network
  walletKept,          \* localStorage: account, index and whether the day is over
  connection, accountsKnown, selectedIndex, balanceOf,
  walletOps,     \* operations under way
  connecting, walletError, sessionExpired,
  walletCount,
  checks, isAdmin, guardError   \* the guard's

guardVars == <<checks, isAdmin, guardError>>
walletVars == <<installed, walletActive, net, walletKept, connection, accountsKnown,
                selectedIndex, balanceOf, walletOps, connecting, walletError,
                sessionExpired, walletCount, guardVars>>

NothingKept == [address |-> 0, index |-> 1, stale |-> FALSE]

WalletInit ==
  /\ installed = FALSE
  /\ walletActive \in WalletAccounts /\ net \in Nets
  /\ walletKept \in {NothingKept} \cup [address : WalletAccounts, index : {1}, stale : BOOLEAN]
  /\ connection = Disconnected /\ accountsKnown = FALSE /\ selectedIndex = 1
  /\ balanceOf = 0 /\ walletOps = {}
  /\ connecting = FALSE /\ walletError = FALSE /\ sessionExpired = FALSE
  /\ walletCount = 0
  /\ checks = {} /\ isAdmin = FALSE /\ guardError = FALSE

(* The guard's effect on connection.address: without one, refuse at once   *)
CheckAdmin(address) ==
  IF address = connection.address THEN UNCHANGED guardVars
  ELSE IF address = 0
    THEN isAdmin' = FALSE /\ UNCHANGED <<checks, guardError>>
    ELSE checks' = checks \cup {[id |-> walletCount, address |-> address]}
         /\ UNCHANGED <<isAdmin, guardError>>

Connected(address, network) ==
  /\ connection' = [address |-> address, net |-> network]
  /\ CheckAdmin(address)

WalletOp(kind, address) ==
  [id |-> walletCount + 1, kind |-> kind, address |-> address, index |-> 1]

(* The extension answers that it is there, which runs the restore effect:  *)
(* a session older than a day is dropped.                                  *)
FreighterFound ==
  /\ ~installed /\ installed' = TRUE
  /\ IF walletKept.address # 0 /\ walletKept.stale
       THEN /\ walletKept' = NothingKept /\ sessionExpired' = TRUE
            /\ accountsKnown' = FALSE /\ selectedIndex' = 1
            /\ Connected(0, "none")
            /\ UNCHANGED walletOps
       ELSE /\ walletOps' = walletOps \cup
                 IF walletKept.address = 0 THEN {} ELSE {[id |-> 0, kind |-> "restore",
                                   address |-> walletKept.address, index |-> walletKept.index]}
            /\ UNCHANGED <<walletKept, sessionExpired, accountsKnown, selectedIndex,
                           connection, guardVars>>
  /\ UNCHANGED <<walletActive, net, balanceOf, connecting, walletError, walletCount>>

(* The session is restored when the extension still has its account; the   *)
(* network is taken as it is.                                              *)
Restores(o, withAccounts) ==
  /\ o \in walletOps /\ o.kind = "restore"
  /\ IF walletActive = o.address
       THEN /\ accountsKnown' = (accountsKnown \/ withAccounts)
            /\ selectedIndex' = IF withAccounts THEN o.index ELSE selectedIndex
            /\ Connected(walletActive, net)
            /\ walletOps' = (walletOps \ {o}) \cup {[o EXCEPT !.kind = "balance"]}
       ELSE /\ walletOps' = walletOps \ {o}
            /\ UNCHANGED <<accountsKnown, selectedIndex, connection, guardVars>>
  /\ UNCHANGED <<installed, walletActive, net, walletKept, balanceOf, connecting, walletError,
                 sessionExpired, walletCount>>

(* connect, up to its awaits                                               *)
Connect ==
  /\ walletCount < MaxWalletOps /\ walletCount' = walletCount + 1
  /\ connecting' = TRUE /\ walletError' = FALSE /\ sessionExpired' = FALSE
  /\ walletOps' = walletOps \cup {WalletOp("connect", 0)}
  /\ UNCHANGED <<installed, walletActive, net, walletKept, connection, accountsKnown,
                 selectedIndex, balanceOf, guardVars>>

(* ... access granted: only the test network is accepted                   *)
ConnectAnswers(o, withAccounts) ==
  /\ o \in walletOps /\ o.kind = "connect"
  /\ connecting' = FALSE
  /\ IF net # "testnet"
       THEN /\ walletError' = TRUE
            /\ accountsKnown' = FALSE /\ selectedIndex' = 1
            /\ Connected(0, "none")
            /\ walletOps' = walletOps \ {o}
            /\ UNCHANGED walletKept
       ELSE /\ walletKept' = [address |-> walletActive, stale |-> FALSE,
                        index |-> IF withAccounts THEN walletActive ELSE walletKept.index]
            /\ accountsKnown' = (accountsKnown \/ withAccounts)
            /\ selectedIndex' = IF withAccounts THEN walletActive ELSE selectedIndex
            /\ Connected(walletActive, net)
            /\ walletOps' = (walletOps \ {o})
                 \cup {[o EXCEPT !.kind = "balance", !.address = walletActive]}
            /\ UNCHANGED walletError
  /\ UNCHANGED <<installed, walletActive, net, balanceOf, sessionExpired, walletCount>>

ConnectFails(o) ==
  /\ o \in walletOps /\ o.kind = "connect"
  /\ walletOps' = walletOps \ {o}
  /\ connecting' = FALSE /\ walletError' = TRUE
  /\ UNCHANGED <<installed, walletActive, net, walletKept, connection, accountsKnown,
                 selectedIndex, balanceOf, sessionExpired, walletCount, guardVars>>

Disconnect ==
  /\ connection.address # 0
  /\ walletKept' = NothingKept
  /\ Connected(0, "none")
  /\ accountsKnown' = FALSE /\ selectedIndex' = 1 /\ balanceOf' = 0
  /\ walletError' = FALSE /\ sessionExpired' = FALSE
  /\ UNCHANGED <<installed, walletActive, net, walletOps, connecting, walletCount>>

(* selectAccount, up to its await                                          *)
SelectAccount(i) ==
  /\ accountsKnown /\ i \in WalletAccounts
  /\ walletCount < MaxWalletOps /\ walletCount' = walletCount + 1
  /\ walletOps' = walletOps \cup {WalletOp("select", i)}
  /\ UNCHANGED <<installed, walletActive, net, walletKept, connection, accountsKnown,
                 selectedIndex, balanceOf, connecting, walletError, sessionExpired,
                 guardVars>>

(* ... and after it: the address changes, whatever the connection is now   *)
AccountAllowed(o) ==
  /\ o \in walletOps /\ o.kind = "select"
  /\ selectedIndex' = o.address /\ walletActive' = o.address
  /\ walletKept' = [address |-> o.address, index |-> o.address, stale |-> FALSE]
  /\ Connected(o.address, connection.net)
  /\ walletOps' = (walletOps \ {o}) \cup {[o EXCEPT !.kind = "balance"]}
  /\ UNCHANGED <<installed, net, accountsKnown, balanceOf, connecting, walletError,
                 sessionExpired, walletCount>>

AccountRefused(o) ==
  /\ o \in walletOps /\ o.kind = "select"
  /\ walletOps' = walletOps \ {o} /\ walletError' = TRUE
  /\ UNCHANGED <<installed, walletActive, net, walletKept, connection, accountsKnown,
                 selectedIndex, balanceOf, connecting, sessionExpired, walletCount,
                 guardVars>>

BalanceArrives(o) ==
  /\ o \in walletOps /\ o.kind = "balance"
  /\ walletOps' = walletOps \ {o}
  /\ balanceOf' \in {o.address, balanceOf}
  /\ UNCHANGED <<installed, walletActive, net, walletKept, connection, accountsKnown,
                 selectedIndex, connecting, walletError, sessionExpired, walletCount,
                 guardVars>>

ClearSessionExpired ==
  /\ sessionExpired /\ sessionExpired' = FALSE
  /\ UNCHANGED <<installed, walletActive, net, walletKept, connection, accountsKnown,
                 selectedIndex, balanceOf, walletOps, connecting, walletError,
                 walletCount, guardVars>>

(* The contract answers the guard, or the call throws; the error stays.    *)
AdminAnswers(c, ok) ==
  /\ c \in checks /\ checks' = checks \ {c}
  /\ isAdmin' = (ok /\ c.address = AdminAccount)
  /\ guardError' = (guardError \/ ~ok)
  /\ UNCHANGED <<installed, walletActive, net, walletKept, connection, accountsKnown,
                 selectedIndex, balanceOf, walletOps, connecting, walletError,
                 sessionExpired, walletCount>>

WalletNext ==
  \/ FreighterFound \/ Connect \/ Disconnect \/ ClearSessionExpired
  \/ \E i \in WalletAccounts : SelectAccount(i)
  \/ \E o \in walletOps :
       \/ \E withAccounts \in BOOLEAN : Restores(o, withAccounts) \/ ConnectAnswers(o, withAccounts)
       \/ ConnectFails(o) \/ AccountAllowed(o) \/ AccountRefused(o) \/ BalanceArrives(o)
  \/ \E c \in checks, ok \in BOOLEAN : AdminAnswers(c, ok)

(***************************************************************************)
(* Properties                                                              *)
(***************************************************************************)
(* The wallet's state is of its shape.                                     *)
WalletTypeOK ==
  /\ walletActive \in WalletAccounts /\ net \in Nets
  /\ walletKept.address \in WalletAccounts \cup {0}
  /\ connection.address \in WalletAccounts \cup {0} /\ balanceOf \in WalletAccounts \cup {0}
  /\ selectedIndex \in WalletAccounts
  /\ walletCount \in 0 .. MaxWalletOps
  /\ {installed, accountsKnown, connecting, walletError, sessionExpired, isAdmin,
      guardError} \subseteq BOOLEAN

=============================================================================
