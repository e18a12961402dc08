------------------------------ MODULE MCCheckout ------------------------------
(* Small instances of Checkout for TLC.                                    *)
EXTENDS Checkout, TLC
===============================================================================
