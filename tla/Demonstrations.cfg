SPECIFICATION Spec
CONSTANTS
    Programs = {
        "abandoned_lock", "scoped_lock_abandoned", "starvation", "dead_lock_philosophers",
        "philosophers_scoped_lock", "livelock_philosophers", "scoped_lock_dead_lock",
        "deadlock_1", "deadlock_2", "dining_philosophers", "try_lock_dining_philosophers",
        "mutex_example", "mutex_example_1", "atomic_example", "objects", "unique_mtx",
        "unique_mtx2", "read_write", "recursive_mutex", "shared_mutex", "producer_consumer",
        "barrier", "semaphore", "binary_semaphore", "counter", "str_monitor",
        "predicate_coordination", "condtional_coordination", "navigation",
        "thread_coordination", "coordination", "race_condition_latch", "cv_soup",
        "producer_consumer_queue", "thread_safe_queue", "thread_safe_queue_pop",
        "thread_safe_stack", "lazy_initialization", "call_once", "singleton", "double_check",
        "atomic_double_checked", "one_shot_event", "one_shot_event_twice", "spin_lock",
        "atomics_class", "basic_ops", "basic_counter", "counter_pool", "config_manager",
        "lock_free_stack", "multiple_waiting_threads", "packet", "throwing_producer",
        "server_fetching_data", "package_task_test", "packaged_task", "asynk_task_launch",
        "futures_demo", "futures_promise", "promise_exception", "fibonacci",
        "concurrent_tasks", "arithmetic", "launch_opts", "countdown", "count_to",
        "lazy_evaluation", "jthread_1", "jthread_2",
        "vector_add", "saxpy", "non_linear_transform", "convolution_1d", "fvm_solver",
        "parallel_reduction", "vec_addition", "block_thread_indexing", "double_vec",
        "zero_fill", "invert_rgba", "tiled_matmul", "select", "daxpy",
        "merge_sort", "parallel_accumulate", "measure_speed", "parallel_sum",
        "vector_parallel_sum", "prime_sieve", "data_race", "exec_policies", "basics",
        "managing_thread", "thread_unroll", "for_reduction", "reduction", "histogram",
        "matrix_multiplication", "pi_monteCarlo", "loops", "parallel_region", "unrolling",
        "thread_join" }
    Rounds = 2
    Sushi = 3
    Enough = 1
    Transfers = 1
    Balance = 2
    Amounts = {1, 3}
    max_counter = 2
    Servings = 2
    Elements = 3
    LOCAL_SIZE = 4
    DotLength = 5
    Team = 3
    Length = 5
INVARIANTS
    TypeOK
    Exclusive
    CountsAddUp
    NothingLost
    OneInstance
    OnlyResultsUsedLate
    OrderKept
    ResultsDelivered
    PartsMakeTheWhole
    EveryElementOnce
    KernelsExact
    HangsOnlyAsKnown
PROPERTIES
    OnlyHolderReleases
    SafeProgramsEnd
CHECK_DEADLOCK FALSE
