---------------------------- MODULE MCMigrations ----------------------------
(* The migrations, with the rows that are refused early in a migration, in  *)
(* its middle, and not at all.                                              *)
EXTENDS Migrations

MCRows == {[after |-> 1, odd |-> o] :
             o \in {<<"users", "role">>, <<"users", "phonenumber">>, <<"Status">>, <<"notifications", "user_id">>,
                    <<"brands", "category_id">>, <<"reward_proofs", "video_url">>, RootParent}}
          \cup {[after |-> 4, odd |-> o] : o \in {<<"orders", "buyer_address_id">>, <<"order_items", "quantity">>}}
=============================================================================
