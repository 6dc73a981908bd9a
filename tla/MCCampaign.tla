------------------------------ MODULE MCCampaign ------------------------------
EXTENDS Campaign
MCOrders == {<<"agentic">>, <<"agentic", "chat_like">>, <<"chat_like", "decode_heavy">>}
MCPlans  == {{"serving", "throughput", "stress"},
             {"serving", "stress"},
             {"serving_mm", "throughput_mm", "stress_mm"},
             {"quality", "evals"},
             {"stress", "golden"}}
=============================================================================
