------------------------------ MODULE MCOrders ------------------------------
(* One worker that places every kind of order and asks about them, and two    *)
(* that place a few and cancel them under each other's hands.                 *)
EXTENDS Orders, TLC

Symmetry == Permutations(Calls)
Spread   == {99, 100, 104, 105, 1500, 20000, 20001}
AllArgs  == ContractArgs
FewArgs  == {[type |-> "MARKET", given |-> {"quantity"}],
             [type |-> "STOP_MARKET", given |-> {"stopPrice", "closePosition"}]}
Creators == {"create_spot_order", "create_stop_loss_order",
             "create_take_profit_order", "create_stop_limit_order",
             "create_trailing_stop_order", "create_oco_order",
             "create_contract_order", "create_option_order",
             "get_open_orders", "get_open_algo_orders", "get_order_status"}
Managers == {"create_oco_order", "create_contract_order", "cancel_order",
             "cancel_algo_order", "cancel_all_orders", "get_open_orders"}
=============================================================================
